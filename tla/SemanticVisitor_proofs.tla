----------------------- MODULE SemanticVisitor_proofs -----------------------
(***************************************************************************)
(* The semantic pass, on every tree: it keeps to its types, keeps all of   *)
(* its errors and keeps them sorted, knows in which function it is, finds  *)
(* exactly the statements that always return, and reports errors exactly   *)
(* on the programs that break a type rule.                                 *)
(***************************************************************************)
EXTENDS SemanticVisitor, Trees_proofs

(***************************************************************************)
(* The work that may be pending.                                           *)
(***************************************************************************)
FinishedKinds ==
  {"Program", "Function", "Assignment", "Subscript", "ImplicitCast", "Call", "Additive",
   "Multiplicative", "Relational"} \cup StatementKinds

TaskOf(t) ==
  {k \in SemanticTask :
     /\ k.node \in DOMAIN t
     /\ k.op = "declaration" => \E i \in 1 .. Len(t[1].kids) : k.node = Kid(t, 1, i)
     /\ k.op = "body" => t[k.node].kind = "Function"
     /\ k.op = "check" => t[k.node].kind \in {"If", "While", "Assignment"}
     /\ k.op = "finish" => t[k.node].kind \in FinishedKinds
     /\ k.op = "argument" =>
          t[k.node].kind = "Call" /\ k.index \in 1 .. Len(t[k.node].kids)}

\* The nodes whose visit a task ends, and those whose visit it relies on.
Owes(t) ==
  [k \in TaskOf(t) |->
     IF k.op \in {"visit", "declaration"} THEN Subtree(t, k.node)
     ELSE IF k.op = "finish" THEN {k.node} ELSE {}]

Uses(t) ==
  [k \in TaskOf(t) |->
     IF k.op = "finish" THEN KidSet(t, k.node)
     ELSE IF k.op = "check" THEN {Kid(t, k.node, 1)}
     ELSE IF k.op = "argument" THEN {Kid(t, k.node, k.index)} ELSE {}]

\* The function a task runs in, and the one it leaves for the next task.
Inside(t) ==
  [k \in TaskOf(t) |->
     IF k.op = "finish" /\ t[k.node].kind = "Function" THEN k.node
     ELSE EnclosingFunction(t, k.node)]

Leaves(t) ==
  [k \in TaskOf(t) |->
     IF k.op = "body" THEN k.node ELSE EnclosingFunction(t, k.node)]

ErrorOf(t) ==
  [message : Messages, location : {LocationAt(k) : k \in 0 .. Len(t)}]

(***************************************************************************)
(* The inductive invariant.                                                *)
(***************************************************************************)
Linked ==
  /\ Meaning(ast).faults = {}
  /\ referent = Meaning(ast).referents

ErrorsInv == m_errors \in Seq(ErrorOf(ast)) /\ InOrder(m_errors)

\* What is not owed any more is there.
Results ==
  /\ StackInTurn(stack, Owes(ast), Uses(ast))
  /\ DOMAIN type = NodesOf(ast, ExpressionKinds) \ Pending(stack, Owes(ast))
  /\ \A n \in DOMAIN type : type[n] \in Type
  /\ DOMAIN always_returns = NodesOf(ast, StatementKinds) \ Pending(stack, Owes(ast))
  /\ \A n \in DOMAIN always_returns :
       always_returns[n] = ("falls" \notin OutcomesOf(ast)[n])

InContext == Chained(stack, Inside(ast), Leaves(ast), m_currentFunction, nullptr)

IInv ==
  /\ ast \in Programs
  /\ stack \in Seq(TaskOf(ast))
  /\ Linked
  /\ ErrorsInv
  /\ Results
  /\ InContext

(***************************************************************************)
(* Errors.  A sort permutes the list, so it loses nothing.                 *)
(***************************************************************************)
Places(errors, e) == {i \in DOMAIN errors : errors[i] = e}

Keeps(errors, s) ==
  \A e \in Range(errors) : Cardinality(Places(errors, e)) <= Cardinality(Places(s, e))

LEMMA PlacesFinite ==
  ASSUME NEW E, NEW s \in Seq(E), NEW x
  PROVE  IsFiniteSet(Places(s, x)) /\ Cardinality(Places(s, x)) \in Nat
<1>1. DOMAIN s = 1 .. Len(s) /\ Len(s) \in Nat
  OBVIOUS
<1>2. IsFiniteSet(1 .. Len(s)) /\ Places(s, x) \in SUBSET (1 .. Len(s))
  BY <1>1, FS_Interval DEF Places
<1>3. QED
  BY <1>2, FS_Subset, FS_CardinalityType

LEMMA SortedParts ==
  ASSUME NEW E, NEW errors \in Seq(E), NEW s \in Sorted(errors)
  PROVE  /\ s \in Seq(E) /\ InOrder(s) /\ Len(s) = Len(errors)
         /\ \A x : Cardinality(Places(errors, x)) <= Cardinality(Places(s, x))
<1> DEFINE D == DOMAIN errors
<1>1. D = 1 .. Len(errors) /\ Len(errors) \in Nat /\ \A i \in D : errors[i] \in E
  OBVIOUS
<1>2. PICK p \in Bijection(D, D) : s = Permuted(errors, p)
  BY DEF Sorted
<1>3. p \in [D -> D] /\ \A j \in D : \E i \in D : p[i] = j
  BY <1>2 DEF Bijection, Surjection
<1>4. s = [i \in D |-> errors[p[i]]]
  BY <1>2 DEF Permuted
<1>5. s \in Seq(E) /\ DOMAIN s = D /\ Len(s) = Len(errors)
  BY <1>1, <1>3, <1>4
<1>6. InOrder(s)
  BY DEF Sorted
<1> HIDE DEF D
<1>7. ASSUME NEW x PROVE Cardinality(Places(errors, x)) <= Cardinality(Places(s, x))
  <2> DEFINE S == Places(s, x)
             T == Places(errors, x)
             f == [i \in S |-> p[i]]
  <2>1. S = {i \in D : errors[p[i]] = x} /\ T = {j \in D : errors[j] = x}
    BY <1>4, <1>5 DEF Places, D
  <2>2. f \in [S -> T]
    BY <1>3, <2>1
  <2>3. \A j \in T : \E i \in S : f[i] = j
    BY <1>3, <2>1
  <2>4. f \in Surjection(S, T)
    <3> HIDE DEF f, S, T
    <3> QED
      BY <2>2, <2>3 DEF Surjection
  <2>5. IsFiniteSet(S)
    BY <1>5, PlacesFinite
  <2> HIDE DEF f, S, T
  <2>6. Cardinality(T) <= Cardinality(S)
    BY <2>4, <2>5, FS_Surjection
  <2>7. QED
    BY <2>6 DEF S, T
<1>8. QED
  BY <1>5, <1>6, <1>7

LEMMA OneErrorAdded ==
  ASSUME NEW E, NEW errors \in Seq(E), NEW e \in E, NEW s \in WithError(errors, e)
  PROVE  /\ s \in Seq(E) /\ InOrder(s) /\ Len(s) = Len(errors) + 1
         /\ \A x : Cardinality(Places(errors, x)) <= Cardinality(Places(s, x))
<1> DEFINE longer == Append(errors, e)
<1>1. /\ longer \in Seq(E) /\ Len(longer) = Len(errors) + 1
      /\ DOMAIN errors \subseteq DOMAIN longer
      /\ \A i \in DOMAIN errors : longer[i] = errors[i]
  OBVIOUS
<1>2. s \in Sorted(longer)
  BY DEF WithError
<1> HIDE DEF longer
<1>3. /\ s \in Seq(E) /\ InOrder(s) /\ Len(s) = Len(longer)
      /\ \A x : Cardinality(Places(longer, x)) <= Cardinality(Places(s, x))
  BY <1>1, <1>2, SortedParts
<1>4. ASSUME NEW x PROVE Cardinality(Places(errors, x)) <= Cardinality(Places(s, x))
  <2>1. Places(errors, x) \subseteq Places(longer, x)
    BY <1>1 DEF Places
  <2>2. IsFiniteSet(Places(longer, x))
    BY <1>1, PlacesFinite
  <2>3. Cardinality(Places(errors, x)) <= Cardinality(Places(longer, x))
    BY <2>1, <2>2, FS_Subset
  <2>4. /\ Cardinality(Places(errors, x)) \in Nat /\ Cardinality(Places(longer, x)) \in Nat
        /\ Cardinality(Places(s, x)) \in Nat
    BY <1>1, <1>3, PlacesFinite
  <2>5. QED
    BY <1>3, <2>3, <2>4
<1>5. QED
  BY <1>1, <1>3, <1>4

LEMMA ErrorsAdded ==
  ASSUME NEW E, m_errors \in Seq(E), InOrder(m_errors), NEW es \in Seq(E), addErrors(es)
  PROVE  /\ m_errors' \in Seq(E) /\ InOrder(m_errors')
         /\ Keeps(m_errors, m_errors')
         /\ Len(m_errors') = Len(m_errors) + Len(es)
<1> PICK l : l = Len(es)
  OBVIOUS
<1> DEFINE S == 0 .. l
           V == SUBSET Seq(E)
           At(g, k) == IF k = 0 THEN {m_errors}
                                ELSE UNION {WithError(errors, es[k]) : errors \in g[k - 1]}
           F == [x \in S \X [S -> V] |-> At(x[2], x[1])]
           rank == [k \in S |-> k]
           P(added) == added = [k \in S |-> At(added, k)]
           Good(s) == /\ s \in Seq(E) /\ InOrder(s)
                      /\ \A x : Cardinality(Places(m_errors, x)) <= Cardinality(Places(s, x))
<1>1. l \in Nat /\ \A k \in S \ {0} : k \in 1 .. l /\ es[k] \in E /\ k - 1 \in S
  OBVIOUS
<1>2. \E g : P(g)
  <2>1. rank \in [S -> 0 .. l] /\ V # {}
    BY <1>1
  <2>2. F \in [S \X [S -> V] -> V]
    <3>1. ASSUME NEW k \in S, NEW g \in [S -> V] PROVE At(g, k) \in V
      <4>1. CASE k = 0
        BY <4>1
      <4>2. CASE k # 0
        <5>1. g[k - 1] \in SUBSET Seq(E) /\ es[k] \in E
          BY <1>1, <4>2
        <5>2. \A errors \in g[k - 1] : WithError(errors, es[k]) \subseteq Seq(E)
          BY <5>1, OneErrorAdded
        <5>3. QED
          BY <4>2, <5>2
      <4>3. QED
        BY <4>1, <4>2
    <3> HIDE DEF V, S, At
    <3>2. QED
      BY <3>1
  <2>3. ASSUME NEW k \in S, NEW g \in [S -> V], NEW h \in [S -> V],
               \A m \in S : rank[m] < rank[k] => g[m] = h[m]
        PROVE  F[<< k, g >>] = F[<< k, h >>]
    <3>1. k # 0 => g[k - 1] = h[k - 1]
      BY <1>1, <2>3
    <3>2. At(g, k) = At(h, k)
      BY <3>1
    <3> HIDE DEF V, S, At
    <3>3. QED
      BY <3>2
  <2> HIDE DEF rank, F, V, S
  <2>4. LooksBelow(S, V, l, rank, F)
    BY <1>1, <2>1, <2>2, <2>3 DEF LooksBelow
  <2>5. PICK g \in [S -> V] : \A k \in S : g[k] = F[<< k, g >>]
    BY <2>4, Recursion
  <2> HIDE DEF At
  <2>6. \A k \in S : g[k] = At(g, k)
    BY <2>5 DEF F
  <2>7. P(g)
    BY <2>6
  <2>8. QED
    BY <2>7
<1> DEFINE added == CHOOSE g : P(g)
<1>3. m_errors' \in added[l]
  BY DEF addErrors
<1>4. P(added)
  <2> HIDE DEF P
  <2> QED
    BY <1>2
<1> HIDE DEF added
<1>5. /\ added[0] = {m_errors}
      /\ \A k \in S \ {0} : added[k] = UNION {WithError(errors, es[k]) : errors \in added[k - 1]}
  <2>1. \A k \in S : added[k] = At(added, k)
    <3> HIDE DEF At
    <3> QED
      BY <1>4
  <2>2. 0 \in S
    BY <1>1
  <2>3. QED
    BY <2>1, <2>2
<1> DEFINE Bad == {k \in S : ~ \A s \in added[k] : Good(s) /\ Len(s) = Len(m_errors) + k}
<1>6. Bad = {}
  <2>1. SUFFICES ASSUME Bad # {} PROVE FALSE
    OBVIOUS
  <2>2. PICK k \in Bad : \A j \in Bad : k <= j
    <3>1. Bad \in SUBSET Nat
      BY <1>1
    <3> HIDE DEF Bad
    <3>2. QED
      BY <2>1, <3>1, Least
  <2>3. \A s \in {m_errors} : Good(s) /\ Len(s) = Len(m_errors) + 0
    <3>1. \A x : Cardinality(Places(m_errors, x)) \in Nat
      BY PlacesFinite
    <3>2. QED
      BY <3>1
  <2>4. CASE k = 0
    BY <1>5, <2>3, <2>4
  <2>5. CASE k # 0
    <3>1. k \in S \ {0} /\ k - 1 \in S /\ es[k] \in E /\ k \in Nat
      BY <1>1, <2>5
    <3>2. k - 1 \notin Bad
      BY <2>2, <3>1
    <3>3. \A s \in added[k - 1] : Good(s) /\ Len(s) = Len(m_errors) + (k - 1)
      BY <3>1, <3>2
    <3>4. ASSUME NEW s \in added[k] PROVE Good(s) /\ Len(s) = Len(m_errors) + k
      <4>1. PICK errors \in added[k - 1] : s \in WithError(errors, es[k])
        BY <1>5, <3>1
      <4>2. Good(errors) /\ Len(errors) = Len(m_errors) + (k - 1)
        BY <3>3
      <4>3. /\ s \in Seq(E) /\ InOrder(s) /\ Len(s) = Len(errors) + 1
            /\ \A x : Cardinality(Places(errors, x)) <= Cardinality(Places(s, x))
        BY <3>1, <4>1, <4>2, OneErrorAdded
      <4>4. \A x : /\ Cardinality(Places(m_errors, x)) \in Nat
                   /\ Cardinality(Places(errors, x)) \in Nat
                   /\ Cardinality(Places(s, x)) \in Nat
        BY <4>2, <4>3, PlacesFinite
      <4>5. Len(s) = Len(m_errors) + k
        BY <3>1, <4>2, <4>3
      <4>6. QED
        BY <4>2, <4>3, <4>4, <4>5
    <3>5. QED
      BY <3>4
  <2>6. QED
    BY <2>4, <2>5
<1>7. Good(m_errors') /\ Len(m_errors') = Len(m_errors) + l
  BY <1>1, <1>3, <1>6
<1>8. QED
  BY <1>7 DEF Keeps

(***************************************************************************)
(* Tasks.                                                                  *)
(***************************************************************************)
LEMMA VisitTask ==
  ASSUME NEW t \in Programs, NEW n \in DOMAIN t
  PROVE  /\ Visit(n) \in TaskOf(t)
         /\ Owes(t)[Visit(n)] = Subtree(t, n) /\ Uses(t)[Visit(n)] = {}
         /\ Inside(t)[Visit(n)] = EnclosingFunction(t, n)
         /\ Leaves(t)[Visit(n)] = EnclosingFunction(t, n)
<1>1. n \in Nat
  BY ProgramsAssumption DEF IsProgram, IsTree
<1>2. Visit(n) \in TaskOf(t)
  BY <1>1 DEF Visit, TaskOf, SemanticTask, Task
<1>3. Visit(n).op = "visit" /\ Visit(n).node = n
  BY DEF Visit
<1>4. QED
  BY <1>2, <1>3 DEF Owes, Uses, Inside, Leaves

LEMMA DeclarationTask ==
  ASSUME NEW t \in Programs, NEW n \in DOMAIN t,
         \E i \in 1 .. Len(t[1].kids) : n = Kid(t, 1, i)
  PROVE  /\ Declaration(n) \in TaskOf(t)
         /\ Owes(t)[Declaration(n)] = Subtree(t, n) /\ Uses(t)[Declaration(n)] = {}
         /\ Inside(t)[Declaration(n)] = EnclosingFunction(t, n)
         /\ Leaves(t)[Declaration(n)] = EnclosingFunction(t, n)
<1>1. n \in Nat
  BY ProgramsAssumption DEF IsProgram, IsTree
<1>2. Declaration(n) \in TaskOf(t)
  BY <1>1 DEF Declaration, TaskOf, SemanticTask, Task
<1>3. Declaration(n).op = "declaration" /\ Declaration(n).node = n
  BY DEF Declaration
<1>4. QED
  BY <1>2, <1>3 DEF Owes, Uses, Inside, Leaves

LEMMA BodyTask ==
  ASSUME NEW t \in Programs, NEW n \in DOMAIN t, t[n].kind = "Function"
  PROVE  /\ EnterBody(n) \in TaskOf(t)
         /\ Owes(t)[EnterBody(n)] = {} /\ Uses(t)[EnterBody(n)] = {}
         /\ Inside(t)[EnterBody(n)] = EnclosingFunction(t, n)
         /\ Leaves(t)[EnterBody(n)] = n
<1>1. n \in Nat
  BY ProgramsAssumption DEF IsProgram, IsTree
<1>2. EnterBody(n) \in TaskOf(t)
  BY <1>1 DEF EnterBody, TaskOf, SemanticTask, Task
<1>3. EnterBody(n).op = "body" /\ EnterBody(n).node = n
  BY DEF EnterBody
<1>4. QED
  BY <1>2, <1>3 DEF Owes, Uses, Inside, Leaves

LEMMA CheckTask ==
  ASSUME NEW t \in Programs, NEW n \in DOMAIN t, t[n].kind \in {"If", "While", "Assignment"}
  PROVE  /\ Check(n) \in TaskOf(t)
         /\ Owes(t)[Check(n)] = {} /\ Uses(t)[Check(n)] = {Kid(t, n, 1)}
         /\ Inside(t)[Check(n)] = EnclosingFunction(t, n)
         /\ Leaves(t)[Check(n)] = EnclosingFunction(t, n)
<1>1. n \in Nat
  BY ProgramsAssumption DEF IsProgram, IsTree
<1>2. Check(n) \in TaskOf(t)
  BY <1>1 DEF Check, TaskOf, SemanticTask, Task
<1>3. Check(n).op = "check" /\ Check(n).node = n
  BY DEF Check
<1>4. QED
  BY <1>2, <1>3 DEF Owes, Uses, Inside, Leaves

LEMMA ArgumentTask ==
  ASSUME NEW t \in Programs, NEW n \in DOMAIN t, t[n].kind = "Call",
         NEW i \in 1 .. Len(t[n].kids)
  PROVE  /\ Argument(n, i) \in TaskOf(t)
         /\ Owes(t)[Argument(n, i)] = {} /\ Uses(t)[Argument(n, i)] = {Kid(t, n, i)}
         /\ Inside(t)[Argument(n, i)] = EnclosingFunction(t, n)
         /\ Leaves(t)[Argument(n, i)] = EnclosingFunction(t, n)
<1>1. n \in Nat /\ i \in Nat
  BY NodeShape, ProgramsAssumption DEF IsProgram
<1>2. Argument(n, i) \in TaskOf(t)
  BY <1>1 DEF Argument, TaskOf, SemanticTask, Task
<1>3. Argument(n, i).op = "argument" /\ Argument(n, i).node = n /\ Argument(n, i).index = i
  BY DEF Argument
<1>4. QED
  BY <1>2, <1>3 DEF Owes, Uses, Inside, Leaves

LEMMA FinishTask ==
  ASSUME NEW t \in Programs, NEW n \in DOMAIN t, t[n].kind \in FinishedKinds
  PROVE  /\ Finish(n) \in TaskOf(t)
         /\ Owes(t)[Finish(n)] = {n} /\ Uses(t)[Finish(n)] = KidSet(t, n)
         /\ Inside(t)[Finish(n)] = IF t[n].kind = "Function" THEN n ELSE EnclosingFunction(t, n)
         /\ Leaves(t)[Finish(n)] = EnclosingFunction(t, n)
<1>1. n \in Nat
  BY ProgramsAssumption DEF IsProgram, IsTree
<1>2. Finish(n) \in TaskOf(t)
  BY <1>1 DEF Finish, TaskOf, SemanticTask, Task
<1>3. Finish(n).op = "finish" /\ Finish(n).node = n
  BY DEF Finish
<1>4. QED
  BY <1>2, <1>3 DEF Owes, Uses, Inside, Leaves

(***************************************************************************)
(* The next task, and the results it may rely on.                          *)
(***************************************************************************)
LEMMA TopTyped ==
  ASSUME IInv, stack # << >>
  PROVE  /\ ast \in Programs /\ IsProgram(ast) /\ IsTree(ast)
         /\ Len(stack) \in Nat \ {0} /\ Top = stack[Len(stack)]
         /\ Top \in TaskOf(ast) /\ Top.node \in DOMAIN ast
         /\ Inside(ast)[Top] = m_currentFunction
<1>1. stack \in Seq(TaskOf(ast)) /\ ast \in Programs
  BY DEF IInv
<1>2. Len(stack) \in Nat \ {0} /\ Top = stack[Len(stack)]
  BY <1>1, EmptySeq DEF Top, Last
<1>3. Top \in TaskOf(ast)
  BY <1>1, <1>2
<1>4. IsProgram(ast) /\ IsTree(ast)
  BY <1>1, ProgramsAssumption DEF IsProgram
<1>5. Inside(ast)[Top] = m_currentFunction
  BY <1>2 DEF IInv, InContext, Chained
<1>6. QED
  BY <1>1, <1>2, <1>3, <1>4, <1>5 DEF TaskOf

LEMMA UsedIsDone ==
  ASSUME IInv, stack # << >>, NEW m \in Uses(ast)[Top]
  PROVE  /\ m \notin Pending(stack, Owes(ast))
         /\ m \in NodesOf(ast, ExpressionKinds) => m \in DOMAIN type /\ type[m] \in Type
         /\ m \in NodesOf(ast, StatementKinds) =>
              always_returns[m] = ("falls" \notin OutcomesOf(ast)[m])
<1>1. /\ IsTree(ast) /\ Top \in TaskOf(ast) /\ Top.node \in DOMAIN ast
      /\ Len(stack) \in Nat \ {0} /\ Top = stack[Len(stack)]
  BY TopTyped
<1>2. m \notin Owes(ast)[Top]
  <2>1. CASE Top.op = "finish"
    <3>1. m \in KidSet(ast, Top.node) /\ Owes(ast)[Top] = {Top.node}
      BY <1>1, <2>1 DEF Owes, Uses
    <3>2. PICK i \in 1 .. Len(ast[Top.node].kids) : m = Kid(ast, Top.node, i)
      BY <3>1 DEF KidSet
    <3>3. Top.node < m /\ Top.node \in Nat
      BY <1>1, <3>2, KidsInside, NodeShape
    <3>4. QED
      BY <3>1, <3>3
  <2>2. CASE Top.op \in {"check", "argument"}
    BY <1>1, <2>2 DEF Owes
  <2>3. CASE Top.op \notin {"finish", "check", "argument"}
    BY <1>1, <2>3 DEF Uses
  <2>4. QED
    BY <2>1, <2>2, <2>3
<1>3. m \notin Pending(stack, Owes(ast))
  <2>1. ASSUME NEW i \in 1 .. Len(stack), m \in Owes(ast)[stack[i]] PROVE FALSE
    <3>1. i < Len(stack) /\ Len(stack) \in 1 .. Len(stack)
      BY <1>1, <1>2, <2>1
    <3>2. QED
      BY <1>1, <2>1, <3>1 DEF IInv, Results, StackInTurn
  <2>2. QED
    BY <2>1 DEF Pending
<1>4. QED
  BY <1>3 DEF IInv, Results

(***************************************************************************)
(* What every step does.                                                   *)
(***************************************************************************)
Advance(tasks, done) ==
  /\ tasks \in Seq(TaskOf(ast))
  /\ Continue(tasks)
  /\ Replaces(tasks, done, Owes(ast), Uses(ast))
  /\ Leads(tasks, Inside(ast), Leaves(ast), m_currentFunction')

Found(done) ==
  \/ /\ done \cap NodesOf(ast, ExpressionKinds \cup StatementKinds) = {}
     /\ UNCHANGED << type, always_returns >>
  \/ \E n \in NodesOf(ast, ExpressionKinds), ty \in Type :
       /\ done = {n}
       /\ type' = Assigned(type, n, ty)
       /\ UNCHANGED always_returns
  \/ \E n \in NodesOf(ast, StatementKinds) :
       /\ done = {n}
       /\ always_returns' = Assigned(always_returns, n, "falls" \notin OutcomesOf(ast)[n])
       /\ UNCHANGED type

Reported == m_errors' = m_errors \/ \E es \in Seq(ErrorOf(ast)) : addErrors(es)

GoodStep ==
  /\ stack # << >>
  /\ ast' = ast
  /\ referent' = referent
  /\ \E tasks, done :
       Advance(tasks, done) /\ Found(done) /\ (done = {} \/ tasks = << >>)
  /\ Reported

(***************************************************************************)
(* The visit of anything but a function: every task is about one child, in *)
(* the function the node itself is in, and the end is the last.            *)
(***************************************************************************)
About(k, n, i) ==
  \/ k = Visit(Kid(ast, n, i))
  \/ k = Declaration(Kid(ast, n, i))
  \/ k = Check(n) /\ i = 1
  \/ k = Argument(n, i)

\* The tasks of a list visit every child once; task a is about child child[a].
InKidOrder(list, n, child) ==
  /\ \A a \in 1 .. Len(list) :
       child[a] \in 1 .. Len(ast[n].kids) /\ About(list[a], n, child[a])
  /\ \A a, b \in 1 .. Len(list) :
       a < b => child[a] # child[b] \/ list[b].op \in {"check", "argument"}
  /\ \A i \in 1 .. Len(ast[n].kids) :
       \E a \in 1 .. Len(list) :
         list[a] \in {Visit(Kid(ast, n, i)), Declaration(Kid(ast, n, i))}

LEMMA UniformVisit ==
  ASSUME IInv, stack # << >>, Top.op = "visit", NEW n \in DOMAIN ast, n = Top.node,
         ast[n].kind \in FinishedKinds, ast[n].kind # "Function",
         NEW list \in Seq(TaskOf(ast)), NEW child, InKidOrder(list, n, child),
         Continue(list \o << Finish(n) >>), UNCHANGED m_currentFunction
  PROVE  Advance(list \o << Finish(n) >>, {})
<1> PICK l : l = Len(list)
  OBVIOUS
<1> PICK tasks : tasks = list \o << Finish(n) >>
  OBVIOUS
<1> PICK e : e = EnclosingFunction(ast, n)
  OBVIOUS
<1>1. /\ ast \in Programs /\ IsProgram(ast) /\ IsTree(ast) /\ Top \in TaskOf(ast)
      /\ Inside(ast)[Top] = m_currentFunction
  BY TopTyped
<1>2. /\ Finish(n) \in TaskOf(ast)
      /\ Owes(ast)[Finish(n)] = {n} /\ Uses(ast)[Finish(n)] = KidSet(ast, n)
      /\ Inside(ast)[Finish(n)] = e /\ Leaves(ast)[Finish(n)] = e
  BY <1>1, FinishTask
<1>3. /\ Owes(ast)[Top] = Subtree(ast, n)
      /\ Inside(ast)[Top] = e /\ Leaves(ast)[Top] = e
  BY <1>1 DEF Owes, Inside, Leaves
<1>4. l \in Nat /\ \A a \in 1 .. l : list[a] \in TaskOf(ast)
  OBVIOUS
<1>5. /\ \A a \in 1 .. l : child[a] \in 1 .. Len(ast[n].kids) /\ About(list[a], n, child[a])
      /\ \A a, b \in 1 .. l :
           a < b => child[a] # child[b] \/ list[b].op \in {"check", "argument"}
      /\ \A i \in 1 .. Len(ast[n].kids) :
           \E a \in 1 .. l :
             list[a] \in {Visit(Kid(ast, n, i)), Declaration(Kid(ast, n, i))}
  BY DEF InKidOrder
<1>6. /\ tasks \in Seq(TaskOf(ast)) /\ Len(tasks) = l + 1
      /\ \A a \in 1 .. l : tasks[a] = list[a]
      /\ tasks[l + 1] = Finish(n)
  <2>1. << Finish(n) >> \in Seq(TaskOf(ast)) /\ Len(<< Finish(n) >>) = 1
        /\ << Finish(n) >>[1] = Finish(n)
    BY <1>2
  <2>2. /\ tasks \in Seq(TaskOf(ast)) /\ Len(tasks) = Len(list) + 1
        /\ \A a \in 1 .. Len(list) + 1 :
             tasks[a] = IF a <= Len(list) THEN list[a] ELSE << Finish(n) >>[a - Len(list)]
    BY <2>1, ConcatProperties
  <2>3. l + 1 \in 1 .. l + 1 /\ ~ l + 1 <= l /\ (l + 1) - l = 1
        /\ \A a \in 1 .. l : a \in 1 .. l + 1 /\ a <= l
    BY <1>4
  <2>4. QED
    BY <2>1, <2>2, <2>3
<1>7. ASSUME NEW a \in 1 .. l
      PROVE  /\ Owes(ast)[list[a]] \cup Uses(ast)[list[a]] \subseteq Subtree(ast, Kid(ast, n, child[a]))
             /\ Inside(ast)[list[a]] = e /\ Leaves(ast)[list[a]] = e
  <2> PICK k : k = list[a]
    OBVIOUS
  <2> PICK i : i = child[a]
    OBVIOUS
  <2>1. /\ k \in TaskOf(ast) /\ i \in 1 .. Len(ast[n].kids) /\ About(k, n, i)
    BY <1>4, <1>5
  <2>2. /\ Kid(ast, n, i) \in Subtree(ast, Kid(ast, n, i))
        /\ EnclosingFunction(ast, Kid(ast, n, i)) = e
        /\ Kid(ast, n, i) \in DOMAIN ast
    BY <1>1, <2>1, SubtreeParts, EnclosingKid, NodeShape
  <2>3. CASE k = Visit(Kid(ast, n, i)) \/ k = Declaration(Kid(ast, n, i))
    <3>1. k.op \in {"visit", "declaration"} /\ k.node = Kid(ast, n, i)
      BY <2>3 DEF Visit, Declaration
    <3>2. QED
      BY <2>1, <2>2, <3>1 DEF Owes, Uses, Inside, Leaves
  <2>4. CASE k = Check(n) /\ i = 1
    <3>1. k.op = "check" /\ k.node = n
      BY <2>4 DEF Check
    <3>2. QED
      BY <2>1, <2>2, <2>4, <3>1 DEF Owes, Uses, Inside, Leaves
  <2>5. CASE k = Argument(n, i)
    <3>1. k.op = "argument" /\ k.node = n /\ k.index = i
      BY <2>5 DEF Argument
    <3>2. QED
      BY <2>1, <2>2, <3>1 DEF Owes, Uses, Inside, Leaves
  <2>6. QED
    BY <2>1, <2>3, <2>4, <2>5 DEF About
<1>8. Replaces(tasks, {}, Owes(ast), Uses(ast))
  <2>1. Len(tasks) \in Nat \ {0} /\ Len(tasks) - 1 = l
    BY <1>4, <1>6
  <2>2. \A a \in 1 .. l :
          /\ child[a] \in 1 .. Len(ast[n].kids)
          /\ Owes(ast)[tasks[a]] \cup Uses(ast)[tasks[a]] \subseteq Subtree(ast, Kid(ast, n, child[a]))
    BY <1>6, <1>7, <1>5
  <2>3. \A a, b \in 1 .. l : a < b => child[a] # child[b] \/ Owes(ast)[tasks[b]] = {}
    <3>1. \A b \in 1 .. l : list[b].op \in {"check", "argument"} => Owes(ast)[list[b]] = {}
      BY <1>4 DEF Owes
    <3>2. QED
      BY <1>6, <1>5, <3>1
  <2>4. ASSUME NEW i \in 1 .. Len(ast[n].kids)
        PROVE  \E a \in 1 .. l : Owes(ast)[tasks[a]] = Subtree(ast, Kid(ast, n, i))
    <3>1. PICK a \in 1 .. l :
            list[a] \in {Visit(Kid(ast, n, i)), Declaration(Kid(ast, n, i))}
      BY <1>5
    <3>2. list[a] \in TaskOf(ast) /\ list[a].op \in {"visit", "declaration"}
          /\ list[a].node = Kid(ast, n, i)
      BY <1>4, <3>1 DEF Visit, Declaration
    <3>3. QED
      BY <1>6, <3>2 DEF Owes
  <2>5. Owes(ast)[tasks[Len(tasks)]] = {n} /\ Uses(ast)[tasks[Len(tasks)]] \subseteq KidSet(ast, n)
    BY <1>2, <1>6
  <2>6. VisitPlan(ast, n, tasks, Owes(ast), Uses(ast), child)
    BY <1>3, <2>1, <2>2, <2>3, <2>4, <2>5 DEF VisitPlan
  <2>7. QED
    BY <1>1, <2>6, VisitReplaces
<1>9. Leads(tasks, Inside(ast), Leaves(ast), m_currentFunction')
  <2>1. \A a \in 1 .. l + 1 : Inside(ast)[tasks[a]] = e /\ Leaves(ast)[tasks[a]] = e
    <3>1. \A a \in 1 .. l + 1 : a \in 1 .. l \/ a = l + 1
      BY <1>4
    <3>2. QED
      BY <1>2, <1>6, <1>7, <3>1
  <2>2. 1 \in 1 .. l + 1 /\ l + 1 \in 1 .. l + 1 /\ tasks # << >>
        /\ \A a \in 1 .. l : a \in 1 .. l + 1 /\ a + 1 \in 1 .. l + 1
    BY <1>4, <1>6
  <2>3. m_currentFunction' = e
    BY <1>1, <1>3
  <2>4. Len(tasks) - 1 = l
    BY <1>4, <1>6
  <2>5. QED
    BY <1>3, <1>6, <2>1, <2>2, <2>3, <2>4 DEF Leads
<1>10. QED
  BY <1>6, <1>8, <1>9 DEF Advance

\* A task that ends without leaving others.
LEMMA TaskEnds ==
  ASSUME IInv, stack # << >>, Continue(<< >>), m_currentFunction' = Leaves(ast)[Top]
  PROVE  Advance(<< >>, Owes(ast)[Top])
<1>1. Len(<< >>) = 0 /\ << >> \in Seq(TaskOf(ast)) /\ 1 .. 0 = {} /\ 1 .. 0 - 1 = {}
  OBVIOUS
<1>2. Replaces(<< >>, Owes(ast)[Top], Owes(ast), Uses(ast))
  BY <1>1 DEF Replaces, InTurn, Pending
<1>3. Leads(<< >>, Inside(ast), Leaves(ast), m_currentFunction')
  BY <1>1 DEF Leads
<1>4. QED
  BY <1>1, <1>2, <1>3 DEF Advance

\* Most tasks leave the function they run in.
LEMMA SameFunction ==
  ASSUME IInv, stack # << >>, Top.op # "body",
         ~ (Top.op = "finish" /\ ast[Top.node].kind = "Function"),
         UNCHANGED m_currentFunction
  PROVE  m_currentFunction' = Leaves(ast)[Top]
<1>1. Top \in TaskOf(ast) /\ Inside(ast)[Top] = m_currentFunction
  BY TopTyped
<1>2. QED
  BY <1>1 DEF Inside, Leaves

LEMMA ChildlessVisit ==
  ASSUME IInv, stack # << >>, Top.op = "visit", Len(ast[Top.node].kids) = 0
  PROVE  Owes(ast)[Top] = {Top.node}
<1>1. Top \in TaskOf(ast) /\ Top.node \in DOMAIN ast /\ IsTree(ast)
  BY TopTyped
<1>2. Owes(ast)[Top] = Subtree(ast, Top.node)
  BY <1>1 DEF Owes
<1>3. 1 .. Len(ast[Top.node].kids) = {}
  OBVIOUS
<1>4. /\ Top.node \in Subtree(ast, Top.node)
      /\ \A m \in Subtree(ast, Top.node) :
           m = Top.node \/ \E i \in 1 .. Len(ast[Top.node].kids) :
                             m \in Subtree(ast, Kid(ast, Top.node, i))
  BY <1>1, SubtreeParts
<1>5. QED
  BY <1>2, <1>3, <1>4

(***************************************************************************)
(* A step that is good keeps the invariant, the errors and the results.    *)
(***************************************************************************)
LEMMA GoodStepKeeps ==
  ASSUME IInv, GoodStep
  PROVE  /\ IInv'
         /\ Keeps(m_errors, m_errors')
         /\ \A n \in DOMAIN type : n \in DOMAIN type' /\ type'[n] = type[n]
         /\ \A n \in DOMAIN always_returns :
              n \in DOMAIN always_returns' /\ always_returns'[n] = always_returns[n]
<1>1. /\ stack # << >> /\ ast' = ast /\ referent' = referent /\ Reported
      /\ stack \in Seq(TaskOf(ast)) /\ ast \in Programs
  BY DEF GoodStep, IInv
<1>2. PICK tasks, done : Advance(tasks, done) /\ Found(done)
  BY DEF GoodStep
<1> PICK o : o = Owes(ast)
  OBVIOUS
<1> PICK u : u = Uses(ast)
  OBVIOUS
<1> PICK pending : pending = Pending(stack, o)
  OBVIOUS
<1> PICK exprs : exprs = NodesOf(ast, ExpressionKinds)
  OBVIOUS
<1> PICK stmts : stmts = NodesOf(ast, StatementKinds)
  OBVIOUS
<1>3. /\ tasks \in Seq(TaskOf(ast)) /\ Continue(tasks) /\ Replaces(tasks, done, o, u)
      /\ Leads(tasks, Inside(ast), Leaves(ast), m_currentFunction')
  BY <1>2 DEF Advance
<1>4. /\ StackInTurn(stack, o, u)
      /\ DOMAIN type = exprs \ pending /\ DOMAIN always_returns = stmts \ pending
      /\ \A n \in DOMAIN type : type[n] \in Type
      /\ \A n \in DOMAIN always_returns :
           always_returns[n] = ("falls" \notin OutcomesOf(ast)[n])
  BY DEF IInv, Results
<1>5. stack' \in Seq(TaskOf(ast))
  BY <1>1, <1>3, ContinueStack
<1>6. StackInTurn(stack', o, u) /\ Pending(stack', o) = pending \ done
  BY <1>1, <1>3, <1>4, WalkStep
<1>7. done \in SUBSET pending
  <2>1. Len(stack) \in 1 .. Len(stack) /\ Top = stack[Len(stack)]
    BY <1>1, TopTyped
  <2>2. done \subseteq o[stack[Len(stack)]]
    BY <1>3, <2>1 DEF Replaces
  <2>3. QED
    BY <2>1, <2>2 DEF Pending
<1>8. /\ m_errors' \in Seq(ErrorOf(ast)) /\ InOrder(m_errors')
      /\ Keeps(m_errors, m_errors')
  <2>1. m_errors \in Seq(ErrorOf(ast)) /\ InOrder(m_errors)
    BY DEF IInv, ErrorsInv
  <2>2. CASE m_errors' = m_errors
    <3>1. \A e : Cardinality(Places(m_errors, e)) \in Nat
      BY <2>1, PlacesFinite
    <3>2. QED
      BY <2>1, <2>2, <3>1 DEF Keeps
  <2>3. CASE \E es \in Seq(ErrorOf(ast)) : addErrors(es)
    BY <2>1, <2>3, ErrorsAdded
  <2>4. QED
    BY <1>1, <2>2, <2>3 DEF Reported
<1>9. exprs \cap stmts = {}
      /\ NodesOf(ast, ExpressionKinds \cup StatementKinds) = exprs \cup stmts
  BY DEF NodesOf, ExpressionKinds, StatementKinds, LiteralKinds
<1>10. /\ DOMAIN type' = exprs \ (pending \ done)
       /\ \A n \in DOMAIN type' : type'[n] \in Type
       /\ \A n \in DOMAIN type : n \in DOMAIN type' /\ type'[n] = type[n]
       /\ DOMAIN always_returns' = stmts \ (pending \ done)
       /\ \A n \in DOMAIN always_returns' :
            always_returns'[n] = ("falls" \notin OutcomesOf(ast)[n])
       /\ \A n \in DOMAIN always_returns :
            n \in DOMAIN always_returns' /\ always_returns'[n] = always_returns[n]
  <2>1. CASE /\ done \cap NodesOf(ast, ExpressionKinds \cup StatementKinds) = {}
             /\ UNCHANGED << type, always_returns >>
    BY <1>4, <1>9, <2>1
  <2>2. ASSUME NEW q \in exprs, NEW ty \in Type, done = {q},
               type' = Assigned(type, q, ty), UNCHANGED always_returns
        PROVE  /\ DOMAIN type' = exprs \ (pending \ done)
               /\ \A n \in DOMAIN type' : type'[n] \in Type
               /\ \A n \in DOMAIN type : n \in DOMAIN type' /\ type'[n] = type[n]
               /\ DOMAIN always_returns' = stmts \ (pending \ done)
               /\ \A n \in DOMAIN always_returns' :
                    always_returns'[n] = ("falls" \notin OutcomesOf(ast)[n])
               /\ \A n \in DOMAIN always_returns :
                    n \in DOMAIN always_returns' /\ always_returns'[n] = always_returns[n]
    <3>1. /\ DOMAIN Assigned(type, q, ty) = exprs \ (pending \ done)
          /\ Assigned(type, q, ty)[q] = ty
          /\ \A m \in DOMAIN type : /\ m # q
                                    /\ m \in DOMAIN Assigned(type, q, ty)
                                    /\ Assigned(type, q, ty)[m] = type[m]
          /\ \A m \in DOMAIN Assigned(type, q, ty) : m = q \/ m \in DOMAIN type
      <4>1. done = {q} /\ q \in exprs /\ q \in pending /\ DOMAIN type = exprs \ pending
        BY <1>4, <1>7, <2>2
      <4>2. QED
        BY <4>1 DEF Assigned
    <3>2. stmts \ (pending \ done) = stmts \ pending
      BY <1>9, <2>2
    <3>3. QED
      BY <1>4, <2>2, <3>1, <3>2
  <2>3. ASSUME NEW q \in stmts, done = {q}, UNCHANGED type,
               always_returns' = Assigned(always_returns, q, "falls" \notin OutcomesOf(ast)[q])
        PROVE  /\ DOMAIN type' = exprs \ (pending \ done)
               /\ \A n \in DOMAIN type' : type'[n] \in Type
               /\ \A n \in DOMAIN type : n \in DOMAIN type' /\ type'[n] = type[n]
               /\ DOMAIN always_returns' = stmts \ (pending \ done)
               /\ \A n \in DOMAIN always_returns' :
                    always_returns'[n] = ("falls" \notin OutcomesOf(ast)[n])
               /\ \A n \in DOMAIN always_returns :
                    n \in DOMAIN always_returns' /\ always_returns'[n] = always_returns[n]
    <3> DEFINE answer == "falls" \notin OutcomesOf(ast)[q]
               set == Assigned(always_returns, q, answer)
    <3> HIDE DEF answer
    <3>1. /\ DOMAIN set = stmts \ (pending \ done)
          /\ set[q] = answer
          /\ \A m \in DOMAIN always_returns : /\ m # q
                                              /\ m \in DOMAIN set
                                              /\ set[m] = always_returns[m]
          /\ \A m \in DOMAIN set : m = q \/ m \in DOMAIN always_returns
      <4>1. done = {q} /\ q \in stmts /\ q \in pending
            /\ DOMAIN always_returns = stmts \ pending
        BY <1>4, <1>7, <2>3
      <4>2. QED
        BY <4>1 DEF Assigned
    <3>2. exprs \ (pending \ done) = exprs \ pending
      BY <1>9, <2>3
    <3>3. always_returns' = set
      BY <2>3 DEF answer
    <3> HIDE DEF set
    <3>4. QED
      BY <1>4, <2>3, <3>1, <3>2, <3>3 DEF answer
  <2>4. QED
    BY <1>2, <2>1, <2>2, <2>3 DEF Found
<1>11. Chained(stack', Inside(ast), Leaves(ast), m_currentFunction', nullptr)
  <2>1. Chained(stack, Inside(ast), Leaves(ast), m_currentFunction, nullptr)
    BY DEF IInv, InContext
  <2>2. QED
    BY <1>1, <1>3, <2>1, ContextStep
<1>12. IInv'
  <2>1. Linked' /\ ErrorsInv'
    BY <1>1, <1>8 DEF IInv, Linked, ErrorsInv
  <2>2. Results'
    BY <1>1, <1>6, <1>10 DEF Results
  <2>3. InContext'
    BY <1>1, <1>11 DEF InContext
  <2>4. QED
    BY <1>1, <1>5, <2>1, <2>2, <2>3 DEF IInv
<1>13. QED
  BY <1>8, <1>10, <1>12

(***************************************************************************)
(* Steps by what they do: they descend into a node, end without a result,  *)
(* or end with the type or the answer of the node.                         *)
(***************************************************************************)
LEMMA Descends ==
  ASSUME IInv, stack # << >>, NEW tasks, Advance(tasks, {}), UNCHANGED << ast, fields >>,
         Reported
  PROVE  GoodStep
<1>1. Found({})
  BY DEF Found, fields
<1>2. QED
  BY <1>1 DEF GoodStep, fields

LEMMA Concludes ==
  ASSUME IInv, stack # << >>, Continue(<< >>), m_currentFunction' = Leaves(ast)[Top],
         Owes(ast)[Top] \cap NodesOf(ast, ExpressionKinds \cup StatementKinds) = {},
         UNCHANGED << ast, fields >>, Reported
  PROVE  GoodStep
<1>1. Advance(<< >>, Owes(ast)[Top])
  BY TaskEnds
<1>2. Found(Owes(ast)[Top])
  BY DEF Found, fields
<1>3. QED
  BY <1>1, <1>2 DEF GoodStep, fields

LEMMA TypeFound ==
  ASSUME IInv, stack # << >>, Top.op \in {"visit", "finish"},
         Top.node \in NodesOf(ast, ExpressionKinds), Owes(ast)[Top] = {Top.node},
         NEW ty \in Type, HasType(Top.node, ty), Reported
  PROVE  GoodStep
<1>1. Continue(<< >>) /\ UNCHANGED << ast, referent, always_returns, m_currentFunction >>
      /\ type' = Assigned(type, Top.node, ty)
  BY DEF HasType
<1>2. ast[Top.node].kind # "Function" /\ Top.op # "body"
  BY DEF NodesOf, ExpressionKinds, LiteralKinds
<1>3. m_currentFunction' = Leaves(ast)[Top]
  BY <1>1, <1>2, SameFunction
<1>4. Advance(<< >>, Owes(ast)[Top])
  BY <1>1, <1>3, TaskEnds
<1>5. Found(Owes(ast)[Top])
  BY <1>1 DEF Found
<1>6. QED
  BY <1>1, <1>4, <1>5 DEF GoodStep

LEMMA AnswerFound ==
  ASSUME IInv, stack # << >>, Top.op \in {"visit", "finish"},
         Top.node \in NodesOf(ast, StatementKinds), Owes(ast)[Top] = {Top.node},
         NEW answer, answer = ("falls" \notin OutcomesOf(ast)[Top.node]),
         Returns(Top.node, answer), Reported
  PROVE  GoodStep
<1>1. Continue(<< >>) /\ UNCHANGED << ast, referent, type, m_currentFunction >>
      /\ always_returns' = Assigned(always_returns, Top.node, answer)
  BY DEF Returns
<1>2. ast[Top.node].kind # "Function" /\ Top.op # "body"
  BY DEF NodesOf, StatementKinds
<1>3. m_currentFunction' = Leaves(ast)[Top]
  BY <1>1, <1>2, SameFunction
<1>4. Advance(<< >>, Owes(ast)[Top])
  BY <1>1, <1>3, TaskEnds
<1>5. Found(Owes(ast)[Top])
  BY <1>1 DEF Found
<1>6. QED
  BY <1>1, <1>4, <1>5 DEF GoodStep

LEMMA FinishTop ==
  ASSUME IInv, stack # << >>, Top.op = "finish"
  PROVE  Owes(ast)[Top] = {Top.node} /\ Uses(ast)[Top] = KidSet(ast, Top.node)
<1>1. Top \in TaskOf(ast)
  BY TopTyped
<1>2. QED
  BY <1>1 DEF Owes, Uses

(***************************************************************************)
(* Errors that a step reports.                                             *)
(***************************************************************************)
LEMMA PlacesTyped ==
  ASSUME ast \in Programs, IsTree(ast), NEW k \in 0 .. Len(ast)
  PROVE  LocationAt(k) \in Location
<1>1. CASE k = 0
  BY <1>1 DEF LocationAt, Location
<1>2. CASE k # 0
  <2>1. k \in DOMAIN ast
    BY <1>2 DEF IsTree
  <2>2. SourceLocation(k) \in Location
    BY <2>1, LocationsAssumption DEF InSourceOrder
  <2>3. QED
    BY <1>2, <2>2 DEF LocationAt
<1>3. QED
  BY <1>1, <1>2

\* The comparison of lines and columns sees which of two places is the first.
LEMMA LaterPlace ==
  ASSUME ast \in Programs, IsTree(ast), NEW k \in 0 .. Len(ast), NEW l \in 0 .. Len(ast), k < l
  PROVE  Precedes(LocationAt(k), LocationAt(l))
<1>1. l \in DOMAIN ast /\ LocationAt(l) = SourceLocation(l)
  BY DEF IsTree, LocationAt
<1>2. SourceLocation(l) \in Location /\ SourceLocation(l).line_num >= 0
  BY <1>1, LocationsAssumption DEF InSourceOrder
<1>3. CASE k = 0
  BY <1>1, <1>2, <1>3 DEF LocationAt, Precedes, Location
<1>4. CASE k # 0
  <2>1. k \in DOMAIN ast /\ LocationAt(k) = SourceLocation(k)
    BY <1>4 DEF IsTree, LocationAt
  <2>2. /\ SourceLocation(k) \in Location
        /\ SourceLocation(k).line_num <= SourceLocation(l).line_num
        /\ SourceLocation(k).line_num = SourceLocation(l).line_num =>
             SourceLocation(k).col_num < SourceLocation(l).col_num
    BY <1>1, <2>1, LocationsAssumption DEF InSourceOrder
  <2>3. QED
    BY <1>1, <1>2, <2>1, <2>2 DEF Precedes, Location
<1>5. QED
  BY <1>3, <1>4

LEMMA WhenTyped ==
  ASSUME IsTree(ast), NEW condition, NEW message \in Messages, NEW n \in {0} \cup DOMAIN ast
  PROVE  When(condition, message, n) \in Seq(ErrorOf(ast))
<1>1. DOMAIN ast = 1 .. Len(ast) /\ Len(ast) \in Nat \ {0}
  BY DEF IsTree
<1>2. (IF n = 0 THEN 0 ELSE LocationOf(ast, n)) \in 0 .. Len(ast)
  <2>1. CASE n = 0
    BY <1>1, <2>1
  <2>2. CASE n # 0
    <3>1. LocationOf(ast, n) \in DOMAIN ast
      BY <2>2, LocationsDefined
    <3>2. QED
      BY <1>1, <2>2, <3>1
  <2>3. QED
    BY <2>1, <2>2
<1>3. Error(message, n) \in ErrorOf(ast)
  BY <1>2 DEF Error, ErrorOf
<1>4. QED
  BY <1>3 DEF When

LEMMA ReportedOne ==
  ASSUME IsTree(ast), NEW condition, NEW message \in Messages, NEW n \in {0} \cup DOMAIN ast,
         addErrors(When(condition, message, n))
  PROVE  Reported
<1>1. When(condition, message, n) \in Seq(ErrorOf(ast))
  BY WhenTyped
<1>2. QED
  BY <1>1 DEF Reported

LEMMA ReportedTwo ==
  ASSUME IsTree(ast), NEW n \in DOMAIN ast,
         NEW condition, NEW message \in Messages, NEW other, NEW second \in Messages,
         addErrors(When(condition, message, n) \o When(other, second, n))
  PROVE  Reported
<1>1. /\ When(condition, message, n) \in Seq(ErrorOf(ast))
      /\ When(other, second, n) \in Seq(ErrorOf(ast))
  BY WhenTyped
<1>2. When(condition, message, n) \o When(other, second, n) \in Seq(ErrorOf(ast))
  BY <1>1, ConcatProperties
<1>3. QED
  BY <1>2 DEF Reported

(***************************************************************************)
(* The descents.                                                           *)
(***************************************************************************)
LEMMA ProgramVisited ==
  ASSUME IInv, VisitProgram
  PROVE  GoodStep
<1> DEFINE n == Top.node
           list == [i \in DOMAIN Kids(ast, n) |-> Declaration(Kids(ast, n)[i])]
<1>1. /\ stack # << >> /\ Top.op = "visit" /\ ast[n].kind = "Program"
      /\ Continue(list \o << Finish(n) >>)
      /\ UNCHANGED << ast, fields, m_errors, m_currentFunction >>
  BY DEF VisitProgram, Visiting, Doing
<1>2. n \in DOMAIN ast /\ ast \in Programs /\ IsProgram(ast) /\ IsTree(ast)
  BY <1>1, TopTyped
<1> HIDE DEF n
<1>3. n = 1
  <2>1. ASSUME NEW i \in 1 .. Len(ast[1].kids), n = Kid(ast, 1, i) PROVE FALSE
    <3>1. 1 \in DOMAIN ast /\ ast[1].kind = "Program"
      BY <1>2 DEF IsTree, IsProgram
    <3>2. KidsFit(ast, 1)
      BY <1>2, <3>1, NodeShape
    <3>3. ast[n].kind \in {"Variable", "Array", "Function"}
      BY <2>1, <3>1, <3>2 DEF KidsFit
    <3>4. QED
      BY <1>1, <3>3
  <2>2. QED
    BY <1>1, <1>2, <2>1, KidsOfRoot
<1> PICK l : l = Len(ast[n].kids)
  OBVIOUS
<1>4. /\ l \in Nat /\ DOMAIN Kids(ast, n) = 1 .. l
      /\ \A i \in 1 .. l : Kids(ast, n)[i] = Kid(ast, n, i) /\ Kid(ast, n, i) \in DOMAIN ast
  BY <1>2, KidsSequence, NodeShape
<1>5. \A i \in 1 .. l : Declaration(Kid(ast, n, i)) \in TaskOf(ast)
  BY <1>2, <1>3, <1>4, DeclarationTask
<1>6. /\ list \in Seq(TaskOf(ast)) /\ Len(list) = l
      /\ \A i \in 1 .. l : list[i] = Declaration(Kid(ast, n, i))
  BY <1>4, <1>5
<1> HIDE DEF list
<1> DEFINE child == [a \in 1 .. l |-> a]
<1>7. InKidOrder(list, n, child)
  BY <1>4, <1>6 DEF InKidOrder, About
<1>8. ast[n].kind \in FinishedKinds /\ ast[n].kind # "Function" /\ n = Top.node
  BY <1>1 DEF FinishedKinds, n
<1> HIDE DEF child
<1>9. UNCHANGED m_currentFunction
  BY <1>1
<1>10. Advance(list \o << Finish(n) >>, {})
  BY <1>1, <1>2, <1>6, <1>7, <1>8, <1>9, UniformVisit
<1>11. QED
  BY <1>1, <1>10, Descends DEF Reported

\* The visits that begin with all of the children.
LEMMA AllVisited ==
  ASSUME IInv, stack # << >>, Top.op = "visit", NEW n \in DOMAIN ast, n = Top.node,
         ast[n].kind \in FinishedKinds, ast[n].kind # "Function",
         Continue(VisitAll(Kids(ast, n)) \o << Finish(n) >>),
         UNCHANGED << ast, fields, m_currentFunction >>, Reported
  PROVE  GoodStep
<1> PICK l : l = Len(ast[n].kids)
  OBVIOUS
<1> PICK list : list = VisitAll(Kids(ast, n))
  OBVIOUS
<1>1. IsTree(ast) /\ ast \in Programs
  BY TopTyped
<1>2. /\ l \in Nat /\ DOMAIN Kids(ast, n) = 1 .. l
      /\ \A i \in 1 .. l : Kids(ast, n)[i] = Kid(ast, n, i) /\ Kid(ast, n, i) \in DOMAIN ast
  <2>1. /\ Kids(ast, n) \in Seq(DOMAIN ast) /\ Len(Kids(ast, n)) = l /\ l \in Nat
        /\ \A i \in 1 .. l : Kids(ast, n)[i] = Kid(ast, n, i)
    BY <1>1, KidsSequence
  <2>2. QED
    BY <2>1
<1>3. \A i \in 1 .. l : Visit(Kid(ast, n, i)) \in TaskOf(ast)
  BY <1>1, <1>2, VisitTask
<1>4. /\ list \in Seq(TaskOf(ast)) /\ Len(list) = l
      /\ \A i \in 1 .. l : list[i] = Visit(Kid(ast, n, i))
  BY <1>2, <1>3 DEF VisitAll
<1> DEFINE child == [a \in 1 .. l |-> a]
<1>5. InKidOrder(list, n, child)
  BY <1>2, <1>4 DEF InKidOrder, About
<1> HIDE DEF child
<1>6. Continue(list \o << Finish(n) >>) /\ UNCHANGED m_currentFunction
  OBVIOUS
<1>7. Advance(list \o << Finish(n) >>, {})
  BY <1>4, <1>5, <1>6, UniformVisit
<1>8. QED
  BY <1>7, Descends

LEMMA ConditionalVisited ==
  ASSUME IInv, VisitConditional
  PROVE  GoodStep
<1> PICK n : n = Top.node
  OBVIOUS
<1>1. /\ stack # << >> /\ Top.op = "visit" /\ ast[n].kind \in {"If", "While"}
      /\ UNCHANGED << ast, fields, m_errors, m_currentFunction >>
  BY DEF VisitConditional, Visiting, Doing
<1>2. n \in DOMAIN ast /\ ast \in Programs /\ IsTree(ast)
  BY <1>1, TopTyped
<1> PICK kids : kids = Kids(ast, n)
  OBVIOUS
<1> PICK l : l = Len(kids)
  OBVIOUS
<1>3. /\ kids \in Seq(DOMAIN ast) /\ l = Len(ast[n].kids) /\ l \in Nat \ {0}
      /\ \A i \in 1 .. l : kids[i] = Kid(ast, n, i) /\ Kid(ast, n, i) \in DOMAIN ast
  <2>1. /\ kids \in Seq(DOMAIN ast) /\ l = Len(ast[n].kids) /\ l \in Nat
        /\ \A i \in 1 .. l : kids[i] = Kid(ast, n, i)
    BY <1>2, KidsSequence
  <2>2. l # 0
    BY <1>1, <1>2, <2>1, KidCounts
  <2>3. \A i \in 1 .. l : Kid(ast, n, i) \in DOMAIN ast
    BY <1>2, <2>1, NodeShape
  <2>4. QED
    BY <2>1, <2>2, <2>3
<1>4. \A i \in 1 .. l : Visit(Kid(ast, n, i)) \in TaskOf(ast)
  BY <1>2, <1>3, VisitTask
<1>5. Check(n) \in TaskOf(ast)
  BY <1>1, <1>2, CheckTask
<1> PICK begun : begun = << Visit(Head(kids)), Check(n) >>
  OBVIOUS
<1> PICK rest : rest = VisitAll(Tail(kids))
  OBVIOUS
<1> PICK list : list = begun \o rest
  OBVIOUS
<1>6. Continue(list \o << Finish(n) >>)
  BY DEF VisitConditional
<1>7. /\ begun \in Seq(TaskOf(ast)) /\ Len(begun) = 2
      /\ begun[1] = Visit(Kid(ast, n, 1)) /\ begun[2] = Check(n)
  <2>1. Head(kids) = Kid(ast, n, 1) /\ 1 \in 1 .. l
    BY <1>3
  <2>2. Visit(Kid(ast, n, 1)) \in TaskOf(ast)
    BY <1>4, <2>1
  <2>3. begun = << Visit(Kid(ast, n, 1)), Check(n) >>
    BY <2>1
  <2>4. QED
    BY <1>5, <2>2, <2>3
<1>8. /\ rest \in Seq(TaskOf(ast)) /\ Len(rest) = l - 1
      /\ \A i \in 1 .. l - 1 : rest[i] = Visit(Kid(ast, n, i + 1))
  <2>1. /\ Tail(kids) \in Seq(DOMAIN ast) /\ Len(Tail(kids)) = l - 1
        /\ \A i \in 1 .. l - 1 : Tail(kids)[i] = kids[i + 1]
    <3>1. kids # << >>
      BY <1>3
    <3>2. QED
      BY <1>3, <3>1, HeadTailProperties
  <2>2. DOMAIN Tail(kids) = 1 .. l - 1 /\ \A i \in 1 .. l - 1 : i + 1 \in 1 .. l
    BY <1>3, <2>1
  <2>3. rest = [i \in 1 .. l - 1 |-> Visit(kids[i + 1])]
    BY <2>1, <2>2 DEF VisitAll
  <2>4. \A i \in 1 .. l - 1 : Visit(kids[i + 1]) \in TaskOf(ast)
        /\ kids[i + 1] = Kid(ast, n, i + 1)
    BY <1>3, <1>4, <2>2
  <2>5. PICK m \in Nat : m = l - 1
    <3>1. l - 1 \in Nat
      BY <1>3
    <3>2. QED
      BY <3>1
  <2>6. \A i \in 1 .. m : Visit(kids[i + 1]) \in TaskOf(ast)
                          /\ Visit(kids[i + 1]) = Visit(Kid(ast, n, i + 1))
    BY <2>4, <2>5
  <2>7. rest = [i \in 1 .. m |-> Visit(kids[i + 1])]
    BY <2>3, <2>5
  <2>8. /\ rest \in Seq(TaskOf(ast)) /\ Len(rest) = m
        /\ \A i \in 1 .. m : rest[i] = Visit(Kid(ast, n, i + 1))
    BY <2>6, <2>7
  <2>9. QED
    BY <2>5, <2>8
<1>9. /\ list \in Seq(TaskOf(ast)) /\ Len(list) = l + 1
      /\ list[1] = Visit(Kid(ast, n, 1)) /\ list[2] = Check(n)
      /\ \A a \in 3 .. l + 1 : list[a] = Visit(Kid(ast, n, a - 1))
  <2>1. /\ list \in Seq(TaskOf(ast)) /\ Len(list) = 2 + (l - 1)
        /\ \A a \in 1 .. 2 + (l - 1) : list[a] = IF a <= 2 THEN begun[a] ELSE rest[a - 2]
    BY <1>7, <1>8, ConcatProperties
  <2>2. 2 + (l - 1) = l + 1 /\ 1 \in 1 .. l + 1 /\ 2 \in 1 .. l + 1
    BY <1>3
  <2>3. \A a \in 3 .. l + 1 : a \in 1 .. l + 1 /\ ~ a <= 2 /\ a - 2 \in 1 .. l - 1
                              /\ (a - 2) + 1 = a - 1
    BY <1>3
  <2>4. QED
    BY <1>7, <1>8, <2>1, <2>2, <2>3
<1> DEFINE child == [a \in 1 .. l + 1 |-> IF a = 1 THEN 1 ELSE a - 1]
<1>10. InKidOrder(list, n, child)
  <2>1. \A a \in 1 .. l + 1 : a = 1 \/ a = 2 \/ a \in 3 .. l + 1
    BY <1>3
  <2>2. ASSUME NEW a \in 1 .. l + 1
        PROVE  child[a] \in 1 .. l /\ About(list[a], n, child[a])
    <3>1. child[1] = 1 /\ child[2] = 1 /\ \A b \in 3 .. l + 1 : child[b] = b - 1
      BY <1>3
    <3>2. 1 \in 1 .. l /\ \A b \in 3 .. l + 1 : b - 1 \in 1 .. l
      BY <1>3
    <3> HIDE DEF child
    <3>3. QED
      BY <1>9, <2>1, <3>1, <3>2 DEF About
  <2>3. ASSUME NEW a \in 1 .. l + 1, NEW b \in 1 .. l + 1, a < b
        PROVE  child[a] # child[b] \/ list[b].op \in {"check", "argument"}
    <3>1. b # 2 => child[a] # child[b]
      BY <1>3, <2>3
    <3>2. b = 2 => list[b].op = "check"
      BY <1>9 DEF Check
    <3>3. QED
      BY <3>1, <3>2
  <2>4. ASSUME NEW i \in 1 .. l
        PROVE  \E a \in 1 .. l + 1 : list[a] = Visit(Kid(ast, n, i))
    <3>1. CASE i = 1
      <4>1. 1 \in 1 .. l + 1
        BY <1>3
      <4>2. QED
        BY <1>9, <3>1, <4>1
    <3>2. CASE i # 1
      <4>1. i + 1 \in 3 .. l + 1 /\ (i + 1) - 1 = i /\ i + 1 \in 1 .. l + 1
        BY <1>3, <3>2
      <4>2. list[i + 1] = Visit(Kid(ast, n, i))
        BY <1>9, <4>1
      <4>3. QED
        BY <4>1, <4>2
    <3>3. QED
      BY <3>1, <3>2
  <2> HIDE DEF child
  <2>5. Len(list) = l + 1 /\ Len(ast[n].kids) = l
    BY <1>3, <1>9
  <2>6. \A i \in 1 .. l :
          \E a \in 1 .. l + 1 :
            list[a] \in {Visit(Kid(ast, n, i)), Declaration(Kid(ast, n, i))}
    BY <2>4
  <2>7. /\ \A a \in 1 .. Len(list) :
             child[a] \in 1 .. Len(ast[n].kids) /\ About(list[a], n, child[a])
        /\ \A a, b \in 1 .. Len(list) :
             a < b => child[a] # child[b] \/ list[b].op \in {"check", "argument"}
    BY <2>2, <2>3, <2>5
  <2>8. \A i \in 1 .. Len(ast[n].kids) :
          \E a \in 1 .. Len(list) :
            list[a] \in {Visit(Kid(ast, n, i)), Declaration(Kid(ast, n, i))}
    BY <2>5, <2>6
  <2>9. QED
    BY <2>7, <2>8, Zenon DEF InKidOrder
<1> HIDE DEF child
<1>11. ast[n].kind \in FinishedKinds /\ ast[n].kind # "Function" /\ n = Top.node
       /\ UNCHANGED m_currentFunction
  BY <1>1 DEF FinishedKinds, StatementKinds
<1>12. Advance(list \o << Finish(n) >>, {})
  BY <1>1, <1>2, <1>6, <1>9, <1>10, <1>11, UniformVisit
<1>13. QED
  BY <1>1, <1>12, Descends DEF Reported

LEMMA AssignmentVisited ==
  ASSUME IInv, VisitAssignment
  PROVE  GoodStep
<1> PICK n : n = Top.node
  OBVIOUS
<1> PICK list : list = << Visit(Kid(ast, n, 1)), Check(n), Visit(Kid(ast, n, 2)) >>
  OBVIOUS
<1>1. /\ stack # << >> /\ Top.op = "visit" /\ ast[n].kind = "Assignment"
      /\ Continue(<< Visit(Kid(ast, n, 1)), Check(n), Visit(Kid(ast, n, 2)), Finish(n) >>)
      /\ UNCHANGED << ast, fields, m_errors, m_currentFunction >>
  BY DEF VisitAssignment, Visiting, Doing
<1>2. n \in DOMAIN ast /\ ast \in Programs /\ IsTree(ast)
  BY <1>1, TopTyped
<1>3. /\ Len(ast[n].kids) = 2
      /\ \A i \in 1 .. 2 : Kid(ast, n, i) \in DOMAIN ast
  <2>1. Len(ast[n].kids) = 2
    BY <1>1, <1>2, KidCounts
  <2>2. QED
    BY <1>2, <2>1, NodeShape
<1>4. /\ Visit(Kid(ast, n, 1)) \in TaskOf(ast) /\ Visit(Kid(ast, n, 2)) \in TaskOf(ast)
      /\ Check(n) \in TaskOf(ast)
  <2>1. Kid(ast, n, 1) \in DOMAIN ast /\ Kid(ast, n, 2) \in DOMAIN ast
    BY <1>3
  <2>2. QED
    BY <1>1, <1>2, <2>1, VisitTask, CheckTask
<1>5. /\ list \in Seq(TaskOf(ast)) /\ Len(list) = 3
      /\ list[1] = Visit(Kid(ast, n, 1)) /\ list[2] = Check(n)
      /\ list[3] = Visit(Kid(ast, n, 2))
  BY <1>4
<1>6. Continue(list \o << Finish(n) >>)
  <2>1. list \o << Finish(n) >> =
          << Visit(Kid(ast, n, 1)), Check(n), Visit(Kid(ast, n, 2)), Finish(n) >>
    BY FourInARow
  <2>2. QED
    BY <1>1, <2>1
<1> DEFINE child == << 1, 1, 2 >>
<1>7. InKidOrder(list, n, child)
  <2>1. child[1] = 1 /\ child[2] = 1 /\ child[3] = 2
    OBVIOUS
  <2>2. \A a \in 1 .. 3 : a = 1 \/ a = 2 \/ a = 3
    OBVIOUS
  <2>3. \A a \in 1 .. 3 : child[a] \in 1 .. 2 /\ About(list[a], n, child[a])
    BY <1>5, <2>2 DEF About
  <2>4. \A a, b \in 1 .. 3 : a < b => child[a] # child[b] \/ list[b].op \in {"check", "argument"}
    <3>1. list[2].op = "check"
      BY <1>5 DEF Check
    <3>2. \A a, b \in 1 .. 3 : a < b => b = 2 \/ b = 3
      OBVIOUS
    <3>3. \A a \in 1 .. 3 : a < 3 => child[a] = 1
      BY <2>1, <2>2
    <3>4. QED
      BY <2>1, <3>1, <3>2, <3>3
  <2>5. \A i \in 1 .. 2 : \E a \in 1 .. 3 : list[a] = Visit(Kid(ast, n, i))
    <3>1. \A i \in 1 .. 2 : i = 1 \/ i = 2
      OBVIOUS
    <3>2. 1 \in 1 .. 3 /\ 3 \in 1 .. 3
      OBVIOUS
    <3>3. QED
      BY <1>5, <3>1, <3>2
  <2> HIDE DEF child
  <2>6. QED
    BY <1>3, <1>5, <2>3, <2>4, <2>5 DEF InKidOrder
<1> HIDE DEF child
<1>8. ast[n].kind \in FinishedKinds /\ ast[n].kind # "Function" /\ n = Top.node
      /\ UNCHANGED m_currentFunction
  BY <1>1 DEF FinishedKinds
<1>9. Advance(list \o << Finish(n) >>, {})
  BY <1>1, <1>2, <1>5, <1>6, <1>7, <1>8, UniformVisit
<1>10. QED
  BY <1>1, <1>9, Descends DEF Reported

LEMMA SubscriptVisited ==
  ASSUME IInv, VisitSubscript
  PROVE  GoodStep
<1> PICK n : n = Top.node
  OBVIOUS
<1> PICK list : list = << Visit(Kid(ast, n, 1)) >>
  OBVIOUS
<1>1. /\ stack # << >> /\ Top.op = "visit" /\ ast[n].kind = "Subscript"
      /\ Continue(<< Visit(Kid(ast, n, 1)), Finish(n) >>)
      /\ addErrors(When(IsFunction(referent[n]), "functionAsVariable", n) \o
                   When(Decl(ast, referent[n]).type.kind # "Array", "indexNonArray", n))
      /\ UNCHANGED << ast, fields, m_currentFunction >>
  BY DEF VisitSubscript, Visiting, Doing
<1>2. n \in DOMAIN ast /\ ast \in Programs /\ IsTree(ast)
  BY <1>1, TopTyped
<1>3. Len(ast[n].kids) = 1 /\ Kid(ast, n, 1) \in DOMAIN ast
  <2>1. Len(ast[n].kids) = 1 /\ 1 \in 1 .. 1
    BY <1>1, <1>2, KidCounts
  <2>2. QED
    BY <1>2, <2>1, NodeShape
<1>4. Visit(Kid(ast, n, 1)) \in TaskOf(ast)
  BY <1>2, <1>3, VisitTask
<1>5. list \in Seq(TaskOf(ast)) /\ Len(list) = 1 /\ list[1] = Visit(Kid(ast, n, 1))
  BY <1>4
<1>6. Continue(list \o << Finish(n) >>)
  <2>1. list \o << Finish(n) >> = << Visit(Kid(ast, n, 1)), Finish(n) >>
    BY TwoInARow
  <2>2. QED
    BY <1>1, <2>1
<1>7. InKidOrder(list, n, << 1 >>)
  <2>1. /\ \A a \in 1 .. 1 : << 1 >>[a] \in 1 .. 1 /\ About(list[a], n, << 1 >>[a])
        /\ \A a, b \in 1 .. 1 : ~ a < b
        /\ \A i \in 1 .. 1 : \E a \in 1 .. 1 : list[a] = Visit(Kid(ast, n, i))
    <3>1. \A a \in 1 .. 1 : a = 1 /\ << 1 >>[a] = 1
      OBVIOUS
    <3>2. 1 \in 1 .. 1 /\ ~ 1 < 1
      OBVIOUS
    <3>3. QED
      BY <1>5, <3>1, <3>2 DEF About
  <2>2. QED
    BY <1>3, <1>5, <2>1 DEF InKidOrder
<1>8. ast[n].kind \in FinishedKinds /\ ast[n].kind # "Function" /\ n = Top.node
      /\ UNCHANGED m_currentFunction
  BY <1>1 DEF FinishedKinds
<1>9. Advance(list \o << Finish(n) >>, {})
  BY <1>1, <1>2, <1>5, <1>6, <1>7, <1>8, UniformVisit
<1>10. Advance(<< Visit(Kid(ast, n, 1)), Finish(n) >>, {})
  BY <1>9, TwoInARow
<1>11. Reported
  <2>1. "functionAsVariable" \in Messages /\ "indexNonArray" \in Messages
    BY DEF Messages
  <2>2. QED
    BY <1>1, <1>2, <2>1, ReportedTwo
<1>12. QED
  BY <1>1, <1>10, <1>11, Descends

\* Argument i is visited as task 2 * i - 1 and compared as task 2 * i.
LEMMA CallVisited ==
  ASSUME IInv, VisitCall
  PROVE  GoodStep
<1> PICK n : n = Top.node
  OBVIOUS
<1> PICK l : l = Len(ast[n].kids)
  OBVIOUS
<1> DEFINE args == Kids(ast, n)
           compared == [k \in 1 .. 2 * Len(args) |->
                          LET i == (k + 1) \div 2
                          IN  IF k % 2 = 1 THEN Visit(args[i]) ELSE Argument(n, i)]
<1>1. /\ stack # << >> /\ Top.op = "visit" /\ ast[n].kind = "Call"
      /\ UNCHANGED << ast, fields, m_currentFunction >>
      /\ \/ /\ \E message \in Messages : addErrors(<< Error(message, n) >>)
            /\ Continue(VisitAll(args) \o << Finish(n) >>)
         \/ Continue(compared \o << Finish(n) >>) /\ UNCHANGED m_errors
  BY DEF VisitCall, Visiting, Doing, Messages
<1>2. n \in DOMAIN ast /\ ast \in Programs /\ IsTree(ast)
  BY <1>1, TopTyped
<1>3. ast[n].kind \in FinishedKinds /\ ast[n].kind # "Function" /\ n = Top.node
      /\ UNCHANGED m_currentFunction
  BY <1>1 DEF FinishedKinds
<1>4. ASSUME NEW message \in Messages, addErrors(<< Error(message, n) >>)
      PROVE  Reported
  <2>1. When(TRUE, message, n) = << Error(message, n) >>
    BY DEF When
  <2>2. addErrors(When(TRUE, message, n))
    BY <1>4, <2>1
  <2>3. QED
    BY <1>2, <2>2, ReportedOne
<1>5. CASE /\ \E message \in Messages : addErrors(<< Error(message, n) >>)
           /\ Continue(VisitAll(args) \o << Finish(n) >>)
  BY <1>1, <1>2, <1>3, <1>4, <1>5, AllVisited
<1>6. CASE Continue(compared \o << Finish(n) >>) /\ UNCHANGED m_errors
  <2>1. /\ l \in Nat /\ Len(args) = l
        /\ \A i \in 1 .. l : args[i] = Kid(ast, n, i) /\ Kid(ast, n, i) \in DOMAIN ast
    BY <1>2, KidsSequence, NodeShape
  <2>2. \A k \in 1 .. 2 * l : (k + 1) \div 2 \in 1 .. l
    BY <2>1
  <2>3. \A i \in 1 .. l : Visit(Kid(ast, n, i)) \in TaskOf(ast)
                          /\ Argument(n, i) \in TaskOf(ast)
    BY <1>1, <1>2, <2>1, VisitTask, ArgumentTask
  <2>4. ASSUME NEW k \in 1 .. 2 * l
        PROVE  /\ compared[k] = IF k % 2 = 1 THEN Visit(Kid(ast, n, (k + 1) \div 2))
                                             ELSE Argument(n, (k + 1) \div 2)
               /\ compared[k] \in TaskOf(ast)
    <3>1. compared[k] = IF k % 2 = 1 THEN Visit(args[(k + 1) \div 2])
                                     ELSE Argument(n, (k + 1) \div 2)
      BY <2>1
    <3> HIDE DEF compared
    <3>2. QED
      BY <2>1, <2>2, <2>3, <3>1
  <2>5. 2 * l \in Nat /\ DOMAIN compared = 1 .. 2 * l
    BY <2>1
  <2>6. compared \in Seq(TaskOf(ast)) /\ Len(compared) = 2 * l
    <3>1. compared = [k \in 1 .. 2 * l |-> compared[k]]
      BY <2>1
    <3> HIDE DEF compared
    <3>2. PICK m \in Nat : m = 2 * l
      BY <2>5
    <3>3. compared = [k \in 1 .. m |-> compared[k]] /\ \A k \in 1 .. m : compared[k] \in TaskOf(ast)
      BY <2>4, <3>1, <3>2
    <3>4. compared \in Seq(TaskOf(ast)) /\ Len(compared) = m
      BY <3>3
    <3>5. QED
      BY <3>2, <3>4
  <2> DEFINE child == [k \in 1 .. 2 * l |-> (k + 1) \div 2]
  <2>7. \A k \in 1 .. 2 * l : child[k] = (k + 1) \div 2
    OBVIOUS
  <2> HIDE DEF compared, args, child
  <2>8. InKidOrder(compared, n, child)
    <3>1. \A a \in 1 .. 2 * l : child[a] \in 1 .. l /\ About(compared[a], n, child[a])
      BY <2>2, <2>4, <2>7 DEF About
    <3>2. ASSUME NEW a \in 1 .. 2 * l, NEW b \in 1 .. 2 * l, a < b
          PROVE  child[a] # child[b] \/ compared[b].op \in {"check", "argument"}
      <4>1. CASE b % 2 = 1
        <5>1. (a + 1) \div 2 # (b + 1) \div 2
          BY <2>1, <3>2, <4>1
        <5>2. QED
          BY <2>7, <5>1
      <4>2. CASE b % 2 # 1
        <5>1. compared[b] = Argument(n, (b + 1) \div 2)
          BY <2>4, <4>2
        <5>2. QED
          BY <5>1 DEF Argument
      <4>3. QED
        BY <4>1, <4>2
    <3>3. ASSUME NEW i \in 1 .. l
          PROVE  \E a \in 1 .. 2 * l : compared[a] = Visit(Kid(ast, n, i))
      <4>1. 2 * i - 1 \in 1 .. 2 * l /\ (2 * i - 1) % 2 = 1 /\ ((2 * i - 1) + 1) \div 2 = i
        BY <2>1
      <4>2. compared[2 * i - 1] = Visit(Kid(ast, n, i))
        BY <2>4, <4>1
      <4>3. QED
        BY <4>1, <4>2
    <3>4. /\ \A a \in 1 .. Len(compared) :
               child[a] \in 1 .. Len(ast[n].kids) /\ About(compared[a], n, child[a])
          /\ \A a, b \in 1 .. Len(compared) :
               a < b => child[a] # child[b] \/ compared[b].op \in {"check", "argument"}
      BY <2>6, <3>1, <3>2
    <3>5. \A i \in 1 .. Len(ast[n].kids) :
            \E a \in 1 .. Len(compared) :
              compared[a] \in {Visit(Kid(ast, n, i)), Declaration(Kid(ast, n, i))}
      BY <2>6, <3>3
    <3>6. QED
      BY <3>4, <3>5, Zenon DEF InKidOrder
  <2>9. Continue(compared \o << Finish(n) >>)
    BY <1>6
  <2>10. Advance(compared \o << Finish(n) >>, {})
    BY <1>1, <1>2, <1>3, <2>6, <2>8, <2>9, UniformVisit
  <2>11. Reported
    BY <1>6 DEF Reported
  <2>12. QED
    BY <1>1, <2>10, <2>11, Descends
<1>7. QED
  BY <1>1, <1>5, <1>6

LEMMA FunctionVisited ==
  ASSUME IInv, VisitFunction
  PROVE  GoodStep
<1>1. PICK f : f = Top.node
  OBVIOUS
<1>2. PICK params : params = VisitAll(Parameters(ast, f))
  OBVIOUS
<1>3. PICK rest : rest = << EnterBody(f), Visit(Body(ast, f)), Finish(f) >>
  OBVIOUS
<1>4. PICK tasks : tasks = params \o rest
  OBVIOUS
<1>5. PICK o, u, c, v :
        o = Owes(ast) /\ u = Uses(ast) /\ c = Inside(ast) /\ v = Leaves(ast)
  OBVIOUS
<1>6. /\ stack # << >> /\ Top.op = "visit" /\ ast[f].kind = "Function"
      /\ Continue(tasks)
      /\ UNCHANGED << ast, fields, m_errors, m_currentFunction >>
  BY <1>1, <1>2, <1>3, <1>4 DEF VisitFunction, Visiting, Doing
<1>7. /\ f \in DOMAIN ast /\ ast \in Programs /\ IsTree(ast) /\ IsProgram(ast)
      /\ Top \in TaskOf(ast) /\ Inside(ast)[Top] = m_currentFunction
  BY <1>1, <1>6, TopTyped
<1>8. PICK p \in Nat : /\ Len(ast[f].kids) = p + 1
                       /\ Parameters(ast, f) \in Seq(DeclsOf(ast))
                       /\ Len(Parameters(ast, f)) = p
                       /\ \A i \in 1 .. p : Parameters(ast, f)[i] = Kid(ast, f, i)
                       /\ Body(ast, f) = Kid(ast, f, p + 1)
  <2>1. PICK K : K = Len(ast[f].kids)
    OBVIOUS
  <2>2. /\ K \in Nat \ {0}
        /\ Parameters(ast, f) \in Seq(DeclsOf(ast)) /\ Len(Parameters(ast, f)) = K - 1
        /\ \A i \in 1 .. K - 1 : Parameters(ast, f)[i] = Kid(ast, f, i)
        /\ Body(ast, f) = Kid(ast, f, K)
    BY <1>6, <1>7, <2>1, FunctionParts
  <2>3. K - 1 \in Nat /\ K = (K - 1) + 1
    BY <2>2
  <2>4. QED
    BY <2>1, <2>2, <2>3
<1>9. \A i \in 1 .. p + 1 : Kid(ast, f, i) \in DOMAIN ast
  BY <1>7, <1>8, NodeShape
<1>10. /\ p + 1 \in 1 .. p + 1 /\ p + 2 \in 1 .. p + 2 /\ 1 \in 1 .. p + 1
       /\ \A a \in 1 .. p : a \in 1 .. p + 1 /\ a # p + 1 /\ a # p + 2
                            /\ (a + 1 \in 1 .. p \/ a + 1 = p + 1)
       /\ \A a \in 1 .. p + 1 : a \in 1 .. p \/ a = p + 1
       /\ \A a \in 1 .. p + 2 : a \in 1 .. p \/ a = p + 1 \/ a = p + 2
       /\ (p + 1) + 1 = p + 2 /\ (p + 2) + 1 = p + 3
  BY <1>8
<1>11. Body(ast, f) \in DOMAIN ast
  BY <1>8, <1>9, <1>10
<1>12. /\ params \in Seq(TaskOf(ast)) /\ Len(params) = p
       /\ \A i \in 1 .. p : params[i] = Visit(Kid(ast, f, i))
  <2>1. DOMAIN Parameters(ast, f) = 1 .. p
    BY <1>8
  <2>2. \A i \in 1 .. p : Parameters(ast, f)[i] = Kid(ast, f, i)
                          /\ Visit(Kid(ast, f, i)) \in TaskOf(ast)
    BY <1>7, <1>8, <1>9, <1>10, VisitTask
  <2>3. params = [i \in 1 .. p |-> Visit(Parameters(ast, f)[i])]
    BY <1>2, <2>1 DEF VisitAll
  <2>4. QED
    BY <1>8, <2>2, <2>3
<1>13. ast[f].kind \in FinishedKinds
  BY <1>6 DEF FinishedKinds
<1>14. /\ rest \in Seq(TaskOf(ast)) /\ Len(rest) = 3
       /\ rest[1] = EnterBody(f) /\ rest[2] = Visit(Body(ast, f)) /\ rest[3] = Finish(f)
  <2>1. /\ EnterBody(f) \in TaskOf(ast) /\ Visit(Body(ast, f)) \in TaskOf(ast)
        /\ Finish(f) \in TaskOf(ast)
    BY <1>6, <1>7, <1>11, <1>13, BodyTask, VisitTask, FinishTask
  <2>2. QED
    BY <1>3, <2>1
<1>15. /\ tasks \in Seq(TaskOf(ast)) /\ Len(tasks) = p + 3
       /\ \A a \in 1 .. p : tasks[a] = Visit(Kid(ast, f, a))
       /\ tasks[p + 1] = EnterBody(f) /\ tasks[p + 2] = Visit(Body(ast, f))
       /\ tasks[p + 3] = Finish(f)
  <2>1. /\ params \o rest \in Seq(TaskOf(ast)) /\ Len(params \o rest) = Len(params) + Len(rest)
        /\ \A a \in 1 .. Len(params) + Len(rest) :
             (params \o rest)[a] = IF a <= Len(params) THEN params[a] ELSE rest[a - Len(params)]
    BY <1>12, <1>14, ConcatProperties
  <2>2. /\ tasks \in Seq(TaskOf(ast)) /\ Len(tasks) = p + 3
        /\ \A a \in 1 .. p + 3 : tasks[a] = IF a <= p THEN params[a] ELSE rest[a - p]
    BY <1>4, <1>12, <1>14, <2>1
  <2>3. /\ p + 1 \in 1 .. p + 3 /\ ~ p + 1 <= p /\ (p + 1) - p = 1
        /\ p + 2 \in 1 .. p + 3 /\ ~ p + 2 <= p /\ (p + 2) - p = 2
        /\ p + 3 \in 1 .. p + 3 /\ ~ p + 3 <= p /\ (p + 3) - p = 3
        /\ \A a \in 1 .. p : a \in 1 .. p + 3 /\ a <= p
    BY <1>8
  <2>4. QED
    BY <1>12, <1>14, <2>2, <2>3
<1>16. f \in FunctionsOf(ast) /\ EnclosingFunction(ast, f) = nullptr
  BY <1>6, <1>7, EnclosingTop DEF FunctionsOf, NodesOf
<1>17. /\ o[Top] = Subtree(ast, f) /\ c[Top] = nullptr /\ v[Top] = nullptr
       /\ m_currentFunction = nullptr
  BY <1>1, <1>5, <1>6, <1>7, <1>16 DEF Owes, Inside, Leaves
<1>18. ASSUME NEW a \in 1 .. p
       PROVE  /\ o[tasks[a]] = Subtree(ast, Kid(ast, f, a)) /\ u[tasks[a]] = {}
              /\ c[tasks[a]] = nullptr /\ v[tasks[a]] = nullptr
  <2>1. a \in 1 .. Len(ast[f].kids) - 1 /\ Kid(ast, f, a) \in DOMAIN ast
    BY <1>8, <1>9, <1>10
  <2>2. EnclosingFunction(ast, Kid(ast, f, a)) = nullptr
    BY <1>7, <1>16, <2>1, EnclosingParameter
  <2>3. tasks[a] = Visit(Kid(ast, f, a))
    BY <1>15
  <2>4. QED
    BY <1>5, <1>7, <2>1, <2>2, <2>3, VisitTask
<1>19. /\ o[tasks[p + 1]] = {} /\ u[tasks[p + 1]] = {}
       /\ c[tasks[p + 1]] = nullptr /\ v[tasks[p + 1]] = f
  <2>1. tasks[p + 1] = EnterBody(f)
    BY <1>15
  <2>2. QED
    BY <1>5, <1>6, <1>7, <1>16, <2>1, BodyTask
<1>20. /\ o[tasks[p + 2]] = Subtree(ast, Kid(ast, f, p + 1)) /\ u[tasks[p + 2]] = {}
       /\ c[tasks[p + 2]] = f /\ v[tasks[p + 2]] = f
  <2>1. EnclosingFunction(ast, Body(ast, f)) = f
    BY <1>7, <1>16, EnclosingBody
  <2>2. tasks[p + 2] = Visit(Body(ast, f)) /\ Body(ast, f) = Kid(ast, f, p + 1)
    BY <1>8, <1>15
  <2>3. QED
    BY <1>5, <1>7, <1>11, <2>1, <2>2, VisitTask
<1>21. /\ o[tasks[p + 3]] = {f} /\ u[tasks[p + 3]] = KidSet(ast, f)
       /\ c[tasks[p + 3]] = f /\ v[tasks[p + 3]] = nullptr
  <2>1. tasks[p + 3] = Finish(f)
    BY <1>15
  <2>2. QED
    BY <1>5, <1>6, <1>7, <1>13, <1>16, <2>1, FinishTask
<1>22. /\ Len(tasks) = p + 3 /\ Len(tasks) - 1 = p + 2 /\ Len(tasks) \in Nat \ {0}
       /\ tasks # << >>
  BY <1>8, <1>15
<1>23. Replaces(tasks, {}, o, u)
  <2> DEFINE child == [a \in 1 .. p + 2 |-> IF a = p + 2 THEN p + 1 ELSE a]
  <2>1. /\ \A a \in 1 .. p : child[a] = a
        /\ child[p + 1] = p + 1 /\ child[p + 2] = p + 1
    BY <1>8
  <2> HIDE DEF child
  <2>2. \A a \in 1 .. p + 2 :
          /\ child[a] \in 1 .. p + 1
          /\ o[tasks[a]] \cup u[tasks[a]] \subseteq Subtree(ast, Kid(ast, f, child[a]))
    <3>1. \A a \in 1 .. p :
            /\ child[a] \in 1 .. p + 1
            /\ o[tasks[a]] \cup u[tasks[a]] \subseteq Subtree(ast, Kid(ast, f, child[a]))
      BY <1>10, <1>18, <2>1
    <3>2. \A a \in {p + 1, p + 2} :
            /\ child[a] \in 1 .. p + 1
            /\ o[tasks[a]] \cup u[tasks[a]] \subseteq Subtree(ast, Kid(ast, f, child[a]))
      BY <1>10, <1>19, <1>20, <2>1
    <3>3. QED
      BY <1>10, <3>1, <3>2
  <2>3. ASSUME NEW a \in 1 .. p + 2, NEW b \in 1 .. p + 2, a < b
        PROVE  child[a] # child[b] \/ o[tasks[b]] = {} \/ o[tasks[a]] \cup u[tasks[a]] = {}
    <3>1. a \in 1 .. p \/ a = p + 1
      BY <1>8, <2>3
    <3>2. CASE a = p + 1
      BY <1>19, <3>2
    <3>3. CASE a \in 1 .. p
      <4>1. child[a] = a /\ (child[b] = b \/ child[b] = p + 1)
        BY <1>10, <2>1, <3>3
      <4>2. a # b /\ a # p + 1
        BY <1>8, <2>3, <3>3
      <4>3. QED
        BY <4>1, <4>2
    <3>4. QED
      BY <3>1, <3>2, <3>3
  <2>4. ASSUME NEW i \in 1 .. p + 1
        PROVE  \E a \in 1 .. p + 2 : o[tasks[a]] = Subtree(ast, Kid(ast, f, i))
    <3>1. i \in 1 .. p + 2 /\ (i \in 1 .. p \/ i = p + 1)
      BY <1>8
    <3>2. QED
      BY <1>10, <1>18, <1>20, <3>1
  <2>5. VisitPlan(ast, f, tasks, o, u, child)
    <3>1. \A a \in 1 .. Len(tasks) - 1 :
            /\ child[a] \in 1 .. Len(ast[f].kids)
            /\ o[tasks[a]] \cup u[tasks[a]] \subseteq Subtree(ast, Kid(ast, f, child[a]))
      BY <1>8, <1>22, <2>2
    <3>2. \A a, b \in 1 .. Len(tasks) - 1 :
            a < b => child[a] # child[b] \/ o[tasks[b]] = {} \/ o[tasks[a]] \cup u[tasks[a]] = {}
      BY <1>22, <2>3
    <3>3. \A i \in 1 .. Len(ast[f].kids) :
            \E a \in 1 .. Len(tasks) - 1 : o[tasks[a]] = Subtree(ast, Kid(ast, f, i))
      BY <1>8, <1>22, <2>4
    <3>4. /\ Len(tasks) \in Nat \ {0} /\ o[tasks[Len(tasks)]] = {f}
          /\ u[tasks[Len(tasks)]] \subseteq KidSet(ast, f)
      BY <1>21, <1>22
    <3>5. QED
      BY <1>17, <3>1, <3>2, <3>3, <3>4, Zenon DEF VisitPlan
  <2>6. QED
    BY <1>7, <2>5, VisitReplaces
<1>24. Leads(tasks, c, v, m_currentFunction')
  <2>1. c[tasks[1]] = nullptr
    BY <1>10, <1>18, <1>19
  <2>2. ASSUME NEW a \in 1 .. p + 2 PROVE v[tasks[a]] = c[tasks[a + 1]]
    <3>1. CASE a \in 1 .. p
      <4>1. CASE a + 1 \in 1 .. p
        BY <1>18, <3>1, <4>1
      <4>2. CASE a + 1 = p + 1
        BY <1>18, <1>19, <3>1, <4>2
      <4>3. QED
        BY <1>10, <3>1, <4>1, <4>2
    <3>2. CASE a = p + 1
      BY <1>10, <1>19, <1>20, <3>2
    <3>3. CASE a = p + 2
      BY <1>10, <1>20, <1>21, <3>3
    <3>4. QED
      BY <1>10, <3>1, <3>2, <3>3
  <2>3. m_currentFunction' = nullptr
    BY <1>6, <1>17
  <2>4. \A a \in 1 .. Len(tasks) - 1 : v[tasks[a]] = c[tasks[a + 1]]
    BY <1>22, <2>2
  <2>5. v[tasks[Len(tasks)]] = v[Top] /\ c[tasks[1]] = m_currentFunction'
    BY <1>17, <1>21, <1>22, <2>1, <2>3
  <2>6. QED
    BY <1>22, <2>4, <2>5 DEF Leads
<1>25. Advance(tasks, {})
  BY <1>5, <1>6, <1>15, <1>23, <1>24 DEF Advance
<1>26. QED
  BY <1>6, <1>25, Descends DEF Reported

LEMMA DeclarationVisited ==
  ASSUME IInv, VisitDeclaration
  PROVE  GoodStep
<1>1. PICK d : d = Top.node
  OBVIOUS
<1>2. PICK o, u : o = Owes(ast) /\ u = Uses(ast)
  OBVIOUS
<1>3. PICK tasks : tasks = << Visit(d) >>
  OBVIOUS
<1>4. /\ stack # << >> /\ Top.op = "declaration"
      /\ addErrors(When(ast[d].name = "main" /\ d # LastKid(ast, 1), "earlyMain", d))
      /\ Continue(tasks)
      /\ UNCHANGED << ast, fields, m_currentFunction >>
  BY <1>1, <1>3 DEF VisitDeclaration, Doing
<1>5. /\ d \in DOMAIN ast /\ ast \in Programs /\ IsTree(ast)
      /\ Top \in TaskOf(ast) /\ Inside(ast)[Top] = m_currentFunction
  BY <1>1, <1>4, TopTyped
<1>6. /\ o[Top] = Subtree(ast, d) /\ u[Top] = {}
      /\ Inside(ast)[Top] = EnclosingFunction(ast, d)
      /\ Leaves(ast)[Top] = EnclosingFunction(ast, d)
  BY <1>1, <1>2, <1>4, <1>5 DEF Owes, Uses, Inside, Leaves
<1>7. /\ Visit(d) \in TaskOf(ast)
      /\ o[Visit(d)] = Subtree(ast, d) /\ u[Visit(d)] = {}
      /\ Inside(ast)[Visit(d)] = EnclosingFunction(ast, d)
      /\ Leaves(ast)[Visit(d)] = EnclosingFunction(ast, d)
  BY <1>2, <1>5, VisitTask
<1>8. /\ tasks \in Seq(TaskOf(ast)) /\ Len(tasks) = 1 /\ tasks[1] = Visit(d)
      /\ tasks # << >> /\ 1 .. 1 = {1} /\ 1 .. 1 - 1 = {} /\ ~ 1 < 1
  BY <1>3, <1>7
<1>9. Replaces(tasks, {}, o, u)
  <2>1. InTurn(tasks, o, u)
    BY <1>8 DEF InTurn
  <2>2. Pending(tasks, o) = o[Top] \ {}
    BY <1>6, <1>7, <1>8 DEF Pending
  <2>3. QED
    BY <1>6, <1>7, <1>8, <2>1, <2>2 DEF Replaces
<1>10. Leads(tasks, Inside(ast), Leaves(ast), m_currentFunction')
  <2>1. m_currentFunction' = EnclosingFunction(ast, d)
    BY <1>4, <1>5, <1>6
  <2>2. QED
    BY <1>6, <1>7, <1>8, <2>1 DEF Leads
<1>11. Advance(tasks, {})
  BY <1>2, <1>4, <1>8, <1>9, <1>10 DEF Advance
<1>12. Reported
  <2>1. "earlyMain" \in Messages
    BY DEF Messages
  <2>2. QED
    BY <1>4, <1>5, <2>1, ReportedOne
<1>13. QED
  BY <1>4, <1>11, <1>12, Descends

(***************************************************************************)
(* The ends of declarations, and the checks.                               *)
(***************************************************************************)
LEMMA ProgramFinished ==
  ASSUME IInv, FinishProgram
  PROVE  GoodStep
<1>1. /\ stack # << >> /\ Top.op = "finish" /\ ast[Top.node].kind = "Program"
      /\ addErrors(When(ast[LastKid(ast, 1)].name # "main", "missingMain", 0))
      /\ Continue(<< >>) /\ UNCHANGED << ast, fields, m_currentFunction >>
  BY DEF FinishProgram, Doing
<1>2. IsTree(ast)
  BY <1>1, TopTyped
<1>3. Owes(ast)[Top] \cap NodesOf(ast, ExpressionKinds \cup StatementKinds) = {}
  <2>1. Owes(ast)[Top] = {Top.node}
    BY <1>1, FinishTop
  <2>2. QED
    BY <1>1, <2>1 DEF NodesOf, ExpressionKinds, StatementKinds, LiteralKinds
<1>4. m_currentFunction' = Leaves(ast)[Top]
  BY <1>1, SameFunction
<1>5. Reported
  <2>1. "missingMain" \in Messages
    BY DEF Messages
  <2>2. QED
    BY <1>1, <1>2, <2>1, ReportedOne
<1>6. QED
  BY <1>1, <1>3, <1>4, <1>5, Concludes

LEMMA VariableVisited ==
  ASSUME IInv, VisitVariable
  PROVE  GoodStep
<1>1. PICK d : d = Top.node
  OBVIOUS
<1>2. /\ stack # << >> /\ Top.op = "visit" /\ ast[d].kind \in {"Variable", "Parameter", "Array"}
      /\ \E message \in Messages :
           addErrors(When(ast[d].type.base = "Void", message, d) \o
                     When(ast[d].kind = "Array" /\ ast[d].size <= 0,
                          "nonPositiveArraySize", d))
      /\ Continue(<< >>) /\ UNCHANGED << ast, fields, m_currentFunction >>
  <2>1. (IF ast[d].kind = "Parameter" THEN "voidParam" ELSE "voidVariable") \in Messages
    BY DEF Messages
  <2>2. QED
    BY <1>1, <2>1 DEF VisitVariable, Visiting, Doing
<1>3. IsTree(ast) /\ d \in DOMAIN ast
  BY <1>1, <1>2, TopTyped
<1>4. Len(ast[d].kids) = 0
  BY <1>2, <1>3, KidCounts
<1>5. Owes(ast)[Top] \cap NodesOf(ast, ExpressionKinds \cup StatementKinds) = {}
  <2>1. Owes(ast)[Top] = {d}
    BY <1>1, <1>2, <1>4, ChildlessVisit
  <2>2. QED
    BY <1>2, <2>1 DEF NodesOf, ExpressionKinds, StatementKinds, LiteralKinds
<1>6. m_currentFunction' = Leaves(ast)[Top]
  BY <1>2, SameFunction
<1>7. Reported
  <2>1. "nonPositiveArraySize" \in Messages
    BY DEF Messages
  <2>2. QED
    BY <1>2, <1>3, <2>1, ReportedTwo
<1>8. QED
  BY <1>2, <1>5, <1>6, <1>7, Concludes

LEMMA BodyEntered ==
  ASSUME IInv, VisitBody
  PROVE  GoodStep
<1>1. /\ stack # << >> /\ Top.op = "body" /\ m_currentFunction' = Top.node
      /\ Continue(<< >>) /\ UNCHANGED << ast, fields, m_errors >>
  BY DEF VisitBody, Doing
<1>2. Top \in TaskOf(ast)
  BY <1>1, TopTyped
<1>3. Owes(ast)[Top] = {} /\ Leaves(ast)[Top] = Top.node
  BY <1>1, <1>2 DEF Owes, Leaves
<1>4. Reported
  BY <1>1 DEF Reported
<1>5. QED
  BY <1>1, <1>3, <1>4, Concludes

LEMMA FunctionFinished ==
  ASSUME IInv, FinishFunction
  PROVE  GoodStep
<1>1. PICK f : f = Top.node
  OBVIOUS
<1>2. /\ stack # << >> /\ Top.op = "finish" /\ ast[f].kind = "Function"
      /\ m_currentFunction' = nullptr
      /\ addErrors(When(~ always_returns[Body(ast, f)] /\ ast[f].type # Void,
                        "nonReturningFunction", f))
      /\ Continue(<< >>) /\ UNCHANGED << ast, fields >>
  BY <1>1 DEF FinishFunction, Doing
<1>3. IsTree(ast) /\ IsProgram(ast) /\ f \in DOMAIN ast /\ Top \in TaskOf(ast)
  BY <1>1, <1>2, TopTyped
<1>4. Owes(ast)[Top] \cap NodesOf(ast, ExpressionKinds \cup StatementKinds) = {}
  <2>1. Owes(ast)[Top] = {f}
    BY <1>1, <1>2, FinishTop
  <2>2. QED
    BY <1>2, <2>1 DEF NodesOf, ExpressionKinds, StatementKinds, LiteralKinds
<1>5. m_currentFunction' = Leaves(ast)[Top]
  <2>1. EnclosingFunction(ast, f) = nullptr
    BY <1>2, <1>3, EnclosingTop
  <2>2. Leaves(ast)[Top] = EnclosingFunction(ast, f)
    BY <1>1, <1>2, <1>3 DEF Leaves
  <2>3. QED
    BY <1>2, <2>1, <2>2
<1>6. Reported
  <2>1. "nonReturningFunction" \in Messages
    BY DEF Messages
  <2>2. QED
    BY <1>2, <1>3, <2>1, ReportedOne
<1>7. QED
  BY <1>2, <1>4, <1>5, <1>6, Concludes

\* A check owes nothing; it reports at the node itself or at a child.
LEMMA Checked ==
  ASSUME IInv, stack # << >>, Top.op \in {"check", "argument"}, Continue(<< >>),
         UNCHANGED << ast, fields, m_currentFunction >>,
         NEW condition, NEW message \in Messages, NEW n \in DOMAIN ast,
         addErrors(When(condition, message, n))
  PROVE  GoodStep
<1>1. Top \in TaskOf(ast) /\ IsTree(ast)
  BY TopTyped
<1>2. Owes(ast)[Top] \cap NodesOf(ast, ExpressionKinds \cup StatementKinds) = {}
  BY <1>1 DEF Owes
<1>3. m_currentFunction' = Leaves(ast)[Top]
  BY SameFunction
<1>4. Reported
  BY <1>1, ReportedOne
<1>5. QED
  BY <1>2, <1>3, <1>4, Concludes

LEMMA CheckSteps ==
  ASSUME IInv, CheckCondition \/ CheckTarget \/ CheckArgument
  PROVE  GoodStep
<1>1. PICK n : n = Top.node
  OBVIOUS
<1>2. stack # << >>
  BY DEF CheckCondition, CheckTarget, CheckArgument, Doing
<1>3. IsTree(ast) /\ n \in DOMAIN ast /\ Top \in TaskOf(ast)
  BY <1>1, <1>2, TopTyped
<1>4. {"invalidCondition", "arrayAssignment", "wrongArgumentType"} \subseteq Messages
  BY DEF Messages
<1>5. CASE CheckCondition
  <2>1. /\ Top.op = "check" /\ ast[n].kind \in {"If", "While"} /\ Continue(<< >>)
        /\ UNCHANGED << ast, fields, m_currentFunction >>
        /\ addErrors(When(type[Kid(ast, n, 1)] # Bool, "invalidCondition", Kid(ast, n, 1)))
    BY <1>1, <1>5 DEF CheckCondition, Doing
  <2>2. 1 \in 1 .. Len(ast[n].kids)
    <3>1. Len(ast[n].kids) \in {2, 3}
      BY <1>3, <2>1, KidCounts, Zenon
    <3>2. \A l \in {2, 3} : 1 \in 1 .. l
      OBVIOUS
    <3>3. QED
      BY <3>1, <3>2, Zenon
  <2>3. Kid(ast, n, 1) \in DOMAIN ast
    BY <1>3, <2>2, NodeShape
  <2>4. QED
    BY <1>2, <1>4, <2>1, <2>3, Checked
<1>6. CASE CheckTarget
  <2>1. /\ Top.op = "check" /\ Continue(<< >>)
        /\ UNCHANGED << ast, fields, m_currentFunction >>
        /\ addErrors(When(type[Kid(ast, n, 1)].kind = "Array", "arrayAssignment", n))
    BY <1>1, <1>6 DEF CheckTarget, Doing
  <2>2. QED
    BY <1>2, <1>3, <1>4, <2>1, Checked
<1>7. CASE CheckArgument
  <2>1. /\ Top.op = "argument" /\ Continue(<< >>)
        /\ UNCHANGED << ast, fields, m_currentFunction >>
        /\ addErrors(When(type[Kid(ast, n, Top.index)] #
                            ParameterTypes(ast, referent[n])[Top.index],
                          "wrongArgumentType", Kid(ast, n, Top.index)))
    BY <1>1, <1>7 DEF CheckArgument, Doing
  <2>2. Top.index \in 1 .. Len(ast[n].kids)
    BY <1>1, <1>3, <2>1 DEF TaskOf
  <2>3. Kid(ast, n, Top.index) \in DOMAIN ast
    BY <1>3, <2>2, NodeShape
  <2>4. QED
    BY <1>2, <1>4, <2>1, <2>3, Checked
<1>8. QED
  BY <1>5, <1>6, <1>7

(***************************************************************************)
(* The ends of statements.                                                 *)
(***************************************************************************)

\* A task that ends node n finds what it asks of the children of n.
LEMMA KidFound ==
  ASSUME IInv, stack # << >>, Top.op = "finish", NEW i \in 1 .. Len(ast[Top.node].kids)
  PROVE  LET m == Kid(ast, Top.node, i)
         IN  /\ m \in NodesOf(ast, ExpressionKinds) => type[m] \in Type
             /\ m \in NodesOf(ast, StatementKinds) =>
                  always_returns[m] = ("falls" \notin OutcomesOf(ast)[m])
<1>1. Kid(ast, Top.node, i) \in Uses(ast)[Top]
  BY FinishTop DEF KidSet
<1>2. QED
  BY <1>1, UsedIsDone

LEMMA StatementTop ==
  ASSUME IInv, stack # << >>, Top.op = "finish", ast[Top.node].kind \in StatementKinds
  PROVE  /\ Top.node \in NodesOf(ast, StatementKinds) /\ Owes(ast)[Top] = {Top.node}
         /\ IsTree(ast) /\ Top.node \in DOMAIN ast
<1>1. IsTree(ast) /\ Top.node \in DOMAIN ast
  BY TopTyped
<1>2. QED
  BY <1>1, FinishTop DEF NodesOf

LEMMA CompoundFinished ==
  ASSUME IInv, FinishCompound
  PROVE  GoodStep
<1>1. PICK n : n = Top.node
  OBVIOUS
<1>2. PICK stmts : stmts = Statements(ast, n)
  OBVIOUS
<1>3. PICK answer : answer = (\E m \in Range(stmts) : always_returns[m])
  OBVIOUS
<1>4. /\ stack # << >> /\ Top.op = "finish" /\ ast[n].kind = "Compound"
      /\ Returns(n, answer) /\ UNCHANGED m_errors
  BY <1>1, <1>2, <1>3 DEF FinishCompound, Doing
<1>5. ast[n].kind \in StatementKinds
  BY <1>4 DEF StatementKinds
<1>6. /\ n \in NodesOf(ast, StatementKinds) /\ Owes(ast)[Top] = {n}
      /\ IsTree(ast) /\ n \in DOMAIN ast
  BY <1>1, <1>4, <1>5, StatementTop
<1>7. \A i \in DOMAIN stmts : always_returns[stmts[i]] = ("falls" \notin OutcomesOf(ast)[stmts[i]])
  <2>1. PICK l, k : l = ast[n].locals /\ k = Len(ast[n].kids) - ast[n].locals
    OBVIOUS
  <2>2. /\ DOMAIN stmts = 1 .. k
        /\ \A i \in 1 .. k : /\ stmts[i] = Kid(ast, n, l + i)
                             /\ l + i \in 1 .. Len(ast[n].kids)
    BY <1>2, <1>4, <1>6, <2>1, BlockParts
  <2>3. \A i \in DOMAIN stmts : stmts[i] \in NodesOf(ast, StatementKinds)
    BY <1>2, <1>4, <1>6, StatementsInside
  <2>4. ASSUME NEW i \in DOMAIN stmts
        PROVE  always_returns[stmts[i]] = ("falls" \notin OutcomesOf(ast)[stmts[i]])
    <3>1. stmts[i] = Kid(ast, n, l + i) /\ l + i \in 1 .. Len(ast[n].kids)
      BY <2>2
    <3>2. Kid(ast, n, l + i) \in NodesOf(ast, StatementKinds)
      BY <2>3, <3>1
    <3>3. QED
      BY <1>1, <1>4, <3>1, <3>2, KidFound
  <2>5. QED
    BY <2>4
<1>8. "falls" \in OutcomesOf(ast)[n] <=> \A i \in DOMAIN stmts : "falls" \in OutcomesOf(ast)[stmts[i]]
  BY <1>2, <1>4, <1>6, FallsThrough
<1>9. Range(stmts) = {stmts[i] : i \in DOMAIN stmts}
  BY DEF Range
<1>10. (\E m \in Range(stmts) : always_returns[m]) <=> "falls" \notin OutcomesOf(ast)[n]
  BY <1>7, <1>8, <1>9
<1>11. answer = ("falls" \notin OutcomesOf(ast)[n])
  BY <1>3, <1>10
<1>12. Reported
  BY <1>4 DEF Reported
<1>13. QED
  BY <1>1, <1>4, <1>6, <1>11, <1>12, AnswerFound

LEMMA ConditionalFinished ==
  ASSUME IInv, FinishConditional
  PROVE  GoodStep
<1>1. PICK n : n = Top.node
  OBVIOUS
<1>2. PICK kids : kids = Kids(ast, n)
  OBVIOUS
<1>3. PICK answer :
        answer = (Len(kids) = 3 /\ always_returns[kids[2]] /\ always_returns[kids[3]])
  OBVIOUS
<1>4. /\ stack # << >> /\ Top.op = "finish" /\ ast[n].kind \in {"If", "While"}
      /\ Returns(n, answer) /\ UNCHANGED m_errors
  BY <1>1, <1>2, <1>3 DEF FinishConditional, Doing
<1>5. ast[n].kind \in StatementKinds
  BY <1>4 DEF StatementKinds
<1>6. /\ n \in NodesOf(ast, StatementKinds) /\ Owes(ast)[Top] = {n}
      /\ IsTree(ast) /\ n \in DOMAIN ast
  BY <1>1, <1>4, <1>5, StatementTop
<1>7. Len(kids) = Len(ast[n].kids) /\ \A i \in 1 .. Len(ast[n].kids) : kids[i] = Kid(ast, n, i)
  BY <1>2, <1>6, KidsSequence
<1>8. (Len(kids) = 3 /\ always_returns[kids[2]] /\ always_returns[kids[3]])
        <=> "falls" \notin OutcomesOf(ast)[n]
  <2>1. CASE Len(kids) # 3
    <3>1. ast[n].kind = "While" \/ (ast[n].kind = "If" /\ Len(ast[n].kids) = 2)
      BY <1>4, <1>6, <1>7, <2>1, KidCounts
    <3>2. "falls" \in OutcomesOf(ast)[n]
      BY <1>6, <3>1, FallsThrough
    <3>3. QED
      BY <2>1, <3>2
  <2>2. CASE Len(kids) = 3
    <3>1. ast[n].kind = "If" /\ Len(ast[n].kids) = 3
      <4>1. ast[n].kind = "While" => Len(ast[n].kids) = 2
        BY <1>6, KidCounts
      <4>2. Len(ast[n].kids) = 3
        BY <1>7, <2>2
      <4>3. QED
        BY <1>4, <4>1, <4>2
    <3>2. 2 \in 1 .. Len(ast[n].kids) /\ 3 \in 1 .. Len(ast[n].kids)
      BY <3>1
    <3>3. /\ Kid(ast, n, 2) \in NodesOf(ast, StatementKinds)
          /\ Kid(ast, n, 3) \in NodesOf(ast, StatementKinds)
      BY <1>6, <3>1, StatementsInside
    <3>4. /\ always_returns[Kid(ast, n, 2)] = ("falls" \notin OutcomesOf(ast)[Kid(ast, n, 2)])
          /\ always_returns[Kid(ast, n, 3)] = ("falls" \notin OutcomesOf(ast)[Kid(ast, n, 3)])
      BY <1>1, <1>4, <3>2, <3>3, KidFound
    <3>5. "falls" \in OutcomesOf(ast)[n] <=> \/ "falls" \in OutcomesOf(ast)[Kid(ast, n, 2)]
                                            \/ "falls" \in OutcomesOf(ast)[Kid(ast, n, 3)]
      BY <1>6, <3>1, FallsThrough
    <3>6. kids[2] = Kid(ast, n, 2) /\ kids[3] = Kid(ast, n, 3)
      BY <1>7, <3>2
    <3>7. QED
      BY <2>2, <3>4, <3>5, <3>6
  <2>3. QED
    BY <2>1, <2>2
<1>9. answer = ("falls" \notin OutcomesOf(ast)[n])
  BY <1>3, <1>8
<1>10. Reported
  BY <1>4 DEF Reported
<1>11. QED
  BY <1>1, <1>4, <1>6, <1>9, <1>10, AnswerFound

LEMMA ReturnFinished ==
  ASSUME IInv, FinishReturn
  PROVE  GoodStep
<1>1. PICK n : n = Top.node
  OBVIOUS
<1>2. /\ stack # << >> /\ Top.op = "finish" /\ ast[n].kind = "Return"
      /\ \E condition : addErrors(When(condition, "badReturn", n))
      /\ Returns(n, TRUE)
  BY <1>1 DEF FinishReturn, Doing
<1>3. ast[n].kind \in StatementKinds
  BY <1>2 DEF StatementKinds
<1>4. /\ n \in NodesOf(ast, StatementKinds) /\ Owes(ast)[Top] = {n}
      /\ IsTree(ast) /\ n \in DOMAIN ast
  BY <1>1, <1>2, <1>3, StatementTop
<1>5. "falls" \notin OutcomesOf(ast)[n]
  BY <1>2, <1>4, FallsThrough
<1>6. Reported
  <2>1. "badReturn" \in Messages
    BY DEF Messages
  <2>2. QED
    BY <1>2, <1>4, <2>1, ReportedOne
<1>7. TRUE = ("falls" \notin OutcomesOf(ast)[n])
  BY <1>5
<1>8. QED
  BY <1>1, <1>2, <1>4, <1>6, <1>7, AnswerFound

LEMMA ExpressionStmtFinished ==
  ASSUME IInv, FinishExpressionStmt
  PROVE  GoodStep
<1>1. PICK n : n = Top.node
  OBVIOUS
<1>2. /\ stack # << >> /\ Top.op = "finish" /\ ast[n].kind = "ExpressionStmt"
      /\ Returns(n, FALSE) /\ UNCHANGED m_errors
  BY <1>1 DEF FinishExpressionStmt, Doing
<1>3. ast[n].kind \in StatementKinds
  BY <1>2 DEF StatementKinds
<1>4. /\ n \in NodesOf(ast, StatementKinds) /\ Owes(ast)[Top] = {n}
      /\ IsTree(ast) /\ n \in DOMAIN ast
  BY <1>1, <1>2, <1>3, StatementTop
<1>5. "falls" \in OutcomesOf(ast)[n]
  BY <1>2, <1>4, FallsThrough
<1>6. FALSE = ("falls" \notin OutcomesOf(ast)[n])
  BY <1>5
<1>7. Reported
  BY <1>2 DEF Reported
<1>8. QED
  BY <1>1, <1>2, <1>4, <1>6, <1>7, AnswerFound

(***************************************************************************)
(* The ends of expressions.                                                *)
(***************************************************************************)
LEMMA ExpressionTop ==
  ASSUME IInv, stack # << >>, ast[Top.node].kind \in ExpressionKinds,
         Top.op = "finish" \/ (Top.op = "visit" /\ Len(ast[Top.node].kids) = 0)
  PROVE  /\ Top.node \in NodesOf(ast, ExpressionKinds) /\ Owes(ast)[Top] = {Top.node}
         /\ IsTree(ast) /\ Top.node \in DOMAIN ast /\ Top.op \in {"visit", "finish"}
<1>1. IsTree(ast) /\ Top.node \in DOMAIN ast
  BY TopTyped
<1>2. QED
  BY <1>1, FinishTop, ChildlessVisit DEF NodesOf

LEMMA OperandTyped ==
  ASSUME IInv, stack # << >>, Top.op = "finish", ast[Top.node].kind \in ExpressionKinds,
         NEW i \in 1 .. Len(ast[Top.node].kids)
  PROVE  type[Kid(ast, Top.node, i)] \in Type /\ Kid(ast, Top.node, i) \in DOMAIN ast
<1>1. IsTree(ast) /\ Top.node \in DOMAIN ast
  BY TopTyped
<1>2. Kid(ast, Top.node, i) \in NodesOf(ast, ExpressionKinds)
  BY <1>1, Operands
<1>3. QED
  BY <1>2, KidFound DEF NodesOf

LEMMA ReferentTyped ==
  ASSUME IInv, NEW n \in DOMAIN ast, ast[n].kind \in UseKinds
  PROVE  /\ Decl(ast, referent[n]).type \in Type
         /\ Primitive(Decl(ast, referent[n]).type.base) \in Type
<1>1. IsProgram(ast) /\ Meaning(ast).faults = {} /\ referent = Meaning(ast).referents
  BY ProgramsAssumption DEF IInv, Linked
<1>2. n \in UsesOf(ast)
  BY DEF UsesOf
<1>3. Decl(ast, referent[n]).type \in Type
  BY <1>1, <1>2, ReferentsTyped
<1>4. QED
  BY <1>3 DEF Type, Primitive

LEMMA AssignmentFinished ==
  ASSUME IInv, FinishAssignment
  PROVE  GoodStep
<1>1. PICK n : n = Top.node
  OBVIOUS
<1>2. /\ stack # << >> /\ Top.op = "finish" /\ ast[n].kind = "Assignment"
      /\ addErrors(When(type[Kid(ast, n, 1)] # type[Kid(ast, n, 2)], "mismatchAssignment", n))
      /\ HasType(n, Void)
  BY <1>1 DEF FinishAssignment, Doing
<1>3. ast[n].kind \in ExpressionKinds
  BY <1>2 DEF ExpressionKinds
<1>4. /\ n \in NodesOf(ast, ExpressionKinds) /\ Owes(ast)[Top] = {n}
      /\ IsTree(ast) /\ n \in DOMAIN ast
  BY <1>1, <1>2, <1>3, ExpressionTop
<1>5. Reported
  <2>1. "mismatchAssignment" \in Messages
    BY DEF Messages
  <2>2. QED
    BY <1>2, <1>4, <2>1, ReportedOne
<1>6. QED
  BY <1>1, <1>2, <1>4, <1>5, BasicTypes, TypeFound

LEMMA VariableExprVisited ==
  ASSUME IInv, VisitVariableExpr
  PROVE  GoodStep
<1>1. PICK n : n = Top.node
  OBVIOUS
<1>2. /\ stack # << >> /\ Top.op = "visit" /\ ast[n].kind = "VariableExpr"
      /\ addErrors(When(IsFunction(referent[n]), "functionAsVariable", n))
      /\ HasType(n, Decl(ast, referent[n]).type)
  BY <1>1 DEF VisitVariableExpr, Visiting, Doing
<1>3. ast[n].kind \in ExpressionKinds /\ ast[n].kind \in UseKinds
  BY <1>2 DEF ExpressionKinds, UseKinds
<1>4. IsTree(ast) /\ n \in DOMAIN ast
  BY <1>1, <1>2, TopTyped
<1>5. Len(ast[n].kids) = 0
  BY <1>2, <1>4, KidCounts
<1>6. n \in NodesOf(ast, ExpressionKinds) /\ Owes(ast)[Top] = {n}
  BY <1>1, <1>2, <1>3, <1>5, ExpressionTop
<1>7. Reported
  <2>1. "functionAsVariable" \in Messages
    BY DEF Messages
  <2>2. QED
    BY <1>2, <1>4, <2>1, ReportedOne
<1>8. Decl(ast, referent[n]).type \in Type
  BY <1>3, <1>4, ReferentTyped
<1>9. QED
  BY <1>1, <1>2, <1>6, <1>7, <1>8, TypeFound

LEMMA SubscriptFinished ==
  ASSUME IInv, FinishSubscript
  PROVE  GoodStep
<1>1. PICK n : n = Top.node
  OBVIOUS
<1>2. /\ stack # << >> /\ Top.op = "finish" /\ ast[n].kind = "Subscript"
      /\ addErrors(When(type[Kid(ast, n, 1)] # Int32, "badIndex", Kid(ast, n, 1)))
      /\ HasType(n, Primitive(Decl(ast, referent[n]).type.base))
  BY <1>1 DEF FinishSubscript, Doing
<1>3. ast[n].kind \in ExpressionKinds /\ ast[n].kind \in UseKinds
  BY <1>2 DEF ExpressionKinds, UseKinds
<1>4. /\ n \in NodesOf(ast, ExpressionKinds) /\ Owes(ast)[Top] = {n}
      /\ IsTree(ast) /\ n \in DOMAIN ast
  BY <1>1, <1>2, <1>3, ExpressionTop
<1>5. Kid(ast, n, 1) \in DOMAIN ast
  <2>1. 1 \in 1 .. Len(ast[n].kids)
    <3>1. Len(ast[n].kids) = 1
      BY <1>2, <1>4, KidCounts
    <3>2. QED
      BY <3>1
  <2>2. QED
    BY <1>4, <2>1, NodeShape
<1>6. Reported
  <2>1. "badIndex" \in Messages
    BY DEF Messages
  <2>2. QED
    BY <1>2, <1>4, <1>5, <2>1, ReportedOne
<1>7. Primitive(Decl(ast, referent[n]).type.base) \in Type
  BY <1>3, <1>4, ReferentTyped
<1>8. QED
  BY <1>1, <1>2, <1>4, <1>6, <1>7, TypeFound

LEMMA CallFinished ==
  ASSUME IInv, FinishCall
  PROVE  GoodStep
<1>1. PICK n : n = Top.node
  OBVIOUS
<1>2. /\ stack # << >> /\ Top.op = "finish" /\ ast[n].kind = "Call"
      /\ HasType(n, Decl(ast, referent[n]).type) /\ UNCHANGED m_errors
  BY <1>1 DEF FinishCall, Doing
<1>3. ast[n].kind \in ExpressionKinds /\ ast[n].kind \in UseKinds
  BY <1>2 DEF ExpressionKinds, UseKinds
<1>4. /\ n \in NodesOf(ast, ExpressionKinds) /\ Owes(ast)[Top] = {n}
      /\ IsTree(ast) /\ n \in DOMAIN ast
  BY <1>1, <1>2, <1>3, ExpressionTop
<1>5. Decl(ast, referent[n]).type \in Type
  BY <1>3, <1>4, ReferentTyped
<1>6. Reported
  BY <1>2 DEF Reported
<1>7. QED
  BY <1>1, <1>2, <1>4, <1>5, <1>6, TypeFound

LEMMA ImplicitCastFinished ==
  ASSUME IInv, FinishImplicitCast
  PROVE  GoodStep
<1>1. PICK n : n = Top.node
  OBVIOUS
<1>2. /\ stack # << >> /\ Top.op = "finish" /\ ast[n].kind = "ImplicitCast"
      /\ HasType(n, type[Kid(ast, n, 1)]) /\ UNCHANGED m_errors
  BY <1>1 DEF FinishImplicitCast, Doing
<1>3. ast[n].kind \in ExpressionKinds
  BY <1>2 DEF ExpressionKinds
<1>4. /\ n \in NodesOf(ast, ExpressionKinds) /\ Owes(ast)[Top] = {n}
      /\ IsTree(ast) /\ n \in DOMAIN ast
  BY <1>1, <1>2, <1>3, ExpressionTop
<1>5. type[Kid(ast, n, 1)] \in Type
  <2>1. 1 \in 1 .. Len(ast[n].kids)
    <3>1. Len(ast[n].kids) = 1
      BY <1>2, <1>4, KidCounts
    <3>2. QED
      BY <3>1
  <2>2. QED
    BY <1>1, <1>2, <1>3, <2>1, OperandTyped
<1>6. Reported
  BY <1>2 DEF Reported
<1>7. QED
  BY <1>1, <1>2, <1>4, <1>5, <1>6, TypeFound

LEMMA ArithmeticFinished ==
  ASSUME IInv, FinishArithmetic
  PROVE  GoodStep
<1>1. PICK n : n = Top.node
  OBVIOUS
<1>2. PICK result :
        result = IF ~ NotArithmetic(left) /\ NotArithmetic(right) THEN right ELSE left
  OBVIOUS
<1>3. /\ stack # << >> /\ Top.op = "finish" /\ ast[n].kind \in {"Additive", "Multiplicative"}
      /\ \E condition : addErrors(When(condition, "invalidOperation", n))
      /\ HasType(n, result)
  BY <1>1, <1>2 DEF FinishArithmetic, Doing, invalidOperation
<1>4. ast[n].kind \in ExpressionKinds
  BY <1>3 DEF ExpressionKinds
<1>5. /\ n \in NodesOf(ast, ExpressionKinds) /\ Owes(ast)[Top] = {n}
      /\ IsTree(ast) /\ n \in DOMAIN ast
  BY <1>1, <1>3, <1>4, ExpressionTop
<1>6. left \in Type /\ right \in Type
  <2>1. 1 \in 1 .. Len(ast[n].kids) /\ 2 \in 1 .. Len(ast[n].kids)
    <3>1. Len(ast[n].kids) = 2
      BY <1>3, <1>5, KidCounts
    <3>2. QED
      BY <3>1
  <2>2. QED
    BY <1>1, <1>3, <1>4, <2>1, OperandTyped DEF left, right
<1>7. result \in Type
  BY <1>2, <1>6
<1>8. Reported
  <2>1. "invalidOperation" \in Messages
    BY DEF Messages
  <2>2. QED
    BY <1>3, <1>5, <2>1, ReportedOne
<1>9. QED
  BY <1>1, <1>3, <1>5, <1>7, <1>8, TypeFound

LEMMA RelationalFinished ==
  ASSUME IInv, FinishRelational
  PROVE  GoodStep
<1>1. PICK n : n = Top.node
  OBVIOUS
<1>2. /\ stack # << >> /\ Top.op = "finish" /\ ast[n].kind = "Relational"
      /\ \/ addErrors(When(TRUE, "invalidOperation", n))
         \/ \E condition, other : addErrors(When(condition, "invalidOperation", n) \o
                                            When(other, "invalidOperation", n))
      /\ HasType(n, Bool)
  BY <1>1 DEF FinishRelational, Doing, invalidOperation
<1>3. ast[n].kind \in ExpressionKinds
  BY <1>2 DEF ExpressionKinds
<1>4. /\ n \in NodesOf(ast, ExpressionKinds) /\ Owes(ast)[Top] = {n}
      /\ IsTree(ast) /\ n \in DOMAIN ast
  BY <1>1, <1>2, <1>3, ExpressionTop
<1>5. Reported
  <2>1. "invalidOperation" \in Messages
    BY DEF Messages
  <2>2. QED
    BY <1>2, <1>4, <2>1, ReportedOne, ReportedTwo
<1>6. QED
  BY <1>1, <1>2, <1>4, <1>5, BasicTypes, TypeFound

LEMMA LiteralVisited ==
  ASSUME IInv, VisitLiteral
  PROVE  GoodStep
<1>1. PICK n : n = Top.node
  OBVIOUS
<1>2. /\ stack # << >> /\ Top.op = "visit" /\ ast[n].kind \in LiteralKinds
      /\ HasType(n, Int32) \/ HasType(n, Float) \/ HasType(n, Bool)
      /\ UNCHANGED m_errors
  BY <1>1 DEF VisitLiteral, Visiting, Doing, LiteralKinds
<1>3. ast[n].kind \in ExpressionKinds
  BY <1>2 DEF ExpressionKinds
<1>4. IsTree(ast) /\ n \in DOMAIN ast
  BY <1>1, <1>2, TopTyped
<1>5. Len(ast[n].kids) = 0
  BY <1>2, <1>4, KidCounts
<1>6. n \in NodesOf(ast, ExpressionKinds) /\ Owes(ast)[Top] = {n}
  BY <1>1, <1>2, <1>3, <1>5, ExpressionTop
<1>7. Reported
  BY <1>2 DEF Reported
<1>8. QED
  BY <1>1, <1>2, <1>6, <1>7, BasicTypes, TypeFound

(***************************************************************************)
(* Every step is good.                                                     *)
(***************************************************************************)
LEMMA NextIsGood ==
  ASSUME IInv, Next
  PROVE  GoodStep
<1>1. ASSUME NEW kinds \in {StatementKinds, ExpressionKinds}, Visiting(kinds),
             ast[Top.node].kind \in FinishedKinds,
             Continue(VisitAll(Kids(ast, Top.node)) \o << Finish(Top.node) >>),
             UNCHANGED << ast, fields, m_errors, m_currentFunction >>
      PROVE  GoodStep
  <2>1. stack # << >> /\ Top.op = "visit" /\ ast[Top.node].kind # "Function"
    BY <1>1 DEF Visiting, Doing, StatementKinds, ExpressionKinds, LiteralKinds
  <2>2. Top.node \in DOMAIN ast
    BY <2>1, TopTyped
  <2>3. Reported
    BY <1>1 DEF Reported
  <2>4. UNCHANGED << ast, fields, m_currentFunction >>
    BY <1>1
  <2>5. QED
    BY <1>1, <2>1, <2>2, <2>3, <2>4, AllVisited
<1>2. CASE VisitStatement
  <2>1. Visiting(StatementKinds) /\ ast[Top.node].kind \in FinishedKinds
    BY <1>2 DEF VisitStatement, Visiting, Doing, StatementKinds, FinishedKinds
  <2>2. QED
    BY <1>1, <1>2, <2>1 DEF VisitStatement
<1>3. CASE VisitOperation
  <2>1. Visiting(ExpressionKinds) /\ ast[Top.node].kind \in FinishedKinds
    BY <1>3 DEF VisitOperation, Visiting, Doing, ExpressionKinds, FinishedKinds
  <2>2. QED
    BY <1>1, <1>3, <2>1 DEF VisitOperation
<1>4. CASE VisitProgram \/ VisitDeclaration \/ FinishProgram \/ VisitVariable
  BY <1>4, ProgramVisited, DeclarationVisited, ProgramFinished, VariableVisited
<1>5. CASE VisitFunction \/ VisitBody \/ FinishFunction
  BY <1>5, FunctionVisited, BodyEntered, FunctionFinished
<1>6. CASE FinishCompound \/ FinishReturn \/ FinishExpressionStmt
  BY <1>6, CompoundFinished, ReturnFinished, ExpressionStmtFinished
<1>7. CASE VisitConditional \/ FinishConditional
  BY <1>7, ConditionalVisited, ConditionalFinished
<1>8. CASE CheckCondition \/ CheckTarget \/ CheckArgument
  BY <1>8, CheckSteps
<1>9. CASE VisitAssignment \/ FinishAssignment \/ VisitVariableExpr
  BY <1>9, AssignmentVisited, AssignmentFinished, VariableExprVisited
<1>10. CASE VisitSubscript \/ FinishSubscript \/ VisitCall \/ FinishCall
  BY <1>10, SubscriptVisited, SubscriptFinished, CallVisited, CallFinished
<1>11. CASE \/ FinishImplicitCast \/ FinishArithmetic \/ FinishRelational \/ VisitLiteral
  BY <1>11, ImplicitCastFinished, ArithmeticFinished, RelationalFinished, LiteralVisited
<1>12. QED
  BY <1>2, <1>3, <1>4, <1>5, <1>6, <1>7, <1>8, <1>9, <1>10, <1>11, Zenon DEF Next

(***************************************************************************)
(* The invariant.                                                          *)
(***************************************************************************)
LEMMA InitIInv ==
  ASSUME Init
  PROVE  IInv
<1>1. /\ ast \in Programs /\ stack = << Visit(1) >> /\ type = << >>
      /\ always_returns = << >> /\ m_errors = << >> /\ m_currentFunction = nullptr
  BY DEF Init
<1>2. IsProgram(ast) /\ IsTree(ast) /\ 1 \in DOMAIN ast /\ DOMAIN ast = 1 .. Len(ast)
      /\ ast[1].span = Len(ast) /\ Len(ast) \in Nat
  BY <1>1, ProgramsAssumption DEF IsProgram, IsTree
<1>3. Linked
  BY DEF Init, Linked
<1>4. ErrorsInv
  BY <1>1 DEF ErrorsInv, InOrder
<1>5. EnclosingFunction(ast, 1) = nullptr
  BY <1>2, EnclosingTop
<1>6. /\ Visit(1) \in TaskOf(ast) /\ Owes(ast)[Visit(1)] = Subtree(ast, 1)
      /\ Inside(ast)[Visit(1)] = nullptr /\ Leaves(ast)[Visit(1)] = nullptr
  BY <1>1, <1>2, <1>5, VisitTask
<1>7. /\ stack \in Seq(TaskOf(ast)) /\ Len(stack) = 1 /\ stack[1] = Visit(1)
      /\ stack # << >> /\ 1 .. 1 = {1} /\ 2 .. 1 = {} /\ ~ 1 < 1
  BY <1>1, <1>6
<1>8. Subtree(ast, 1) = DOMAIN ast
  BY <1>2 DEF Subtree, Within
<1>9. Pending(stack, Owes(ast)) = DOMAIN ast
  BY <1>6, <1>7, <1>8 DEF Pending
<1>10. Results
  <2>1. StackInTurn(stack, Owes(ast), Uses(ast))
    BY <1>7 DEF StackInTurn
  <2>2. DOMAIN type = {} /\ DOMAIN always_returns = {}
    BY <1>1
  <2>3. \A kinds : NodesOf(ast, kinds) \ DOMAIN ast = {}
    BY DEF NodesOf
  <2>4. QED
    BY <1>9, <2>1, <2>2, <2>3 DEF Results
<1>11. InContext
  BY <1>1, <1>6, <1>7 DEF InContext, Chained
<1>12. QED
  BY <1>1, <1>3, <1>4, <1>7, <1>10, <1>11 DEF IInv

LEMMA StepIInv ==
  ASSUME IInv, [Next]_vars
  PROVE  IInv'
<1>1. CASE Next
  BY <1>1, NextIsGood, GoodStepKeeps
<1>2. CASE UNCHANGED vars
  <2>1. ast' = ast /\ stack' = stack /\ referent' = referent /\ type' = type
        /\ always_returns' = always_returns /\ m_errors' = m_errors
        /\ m_currentFunction' = m_currentFunction
    BY <1>2 DEF vars, fields
  <2>2. QED
    BY <2>1 DEF IInv, Linked, ErrorsInv, Results, InContext
<1>3. QED
  BY <1>1, <1>2

LEMMA Invariance == Spec => []IInv
<1>1. Init => IInv
  BY InitIInv
<1>2. IInv /\ [Next]_vars => IInv'
  BY StepIInv
<1>3. QED
  BY <1>1, <1>2, PTL DEF Spec

LEMMA IInvTypeOK ==
  ASSUME IInv
  PROVE  TypeOK
<1>1. ast \in Programs /\ stack \in Seq(TaskOf(ast)) /\ Linked /\ ErrorsInv /\ Results /\ InContext
  BY DEF IInv
<1>2. IsProgram(ast) /\ IsTree(ast)
  BY <1>1, ProgramsAssumption DEF IsProgram
<1>3. stack \in Seq(SemanticTask)
  <2>1. TaskOf(ast) \subseteq SemanticTask
    BY DEF TaskOf
  <2>2. QED
    BY <1>1, <2>1
<1>4. DOMAIN referent = UsesOf(ast)
  BY <1>1, <1>2, ReferentsTyped DEF Linked
<1>5. \A i \in DOMAIN m_errors : /\ m_errors[i].message \in Messages
                                 /\ m_errors[i].location \in Location
  <2>1. m_errors \in Seq(ErrorOf(ast))
    BY <1>1 DEF ErrorsInv
  <2>2. \A i \in DOMAIN m_errors : m_errors[i] \in ErrorOf(ast)
    BY <2>1
  <2>3. \A e \in ErrorOf(ast) : e.message \in Messages /\ e.location \in Location
    BY <1>1, <1>2, PlacesTyped DEF ErrorOf
  <2>4. QED
    BY <2>2, <2>3
<1>6. m_currentFunction \in {nullptr} \cup FunctionsOf(ast)
  <2>1. CASE stack = << >>
    BY <1>1, <2>1 DEF InContext, Chained
  <2>2. CASE stack # << >>
    <3>1. Top \in TaskOf(ast) /\ Inside(ast)[Top] = m_currentFunction /\ Top.node \in DOMAIN ast
      BY <2>2, TopTyped
    <3>2. CASE Top.op = "finish" /\ ast[Top.node].kind = "Function"
      BY <3>1, <3>2 DEF Inside, FunctionsOf, NodesOf
    <3>3. CASE ~ (Top.op = "finish" /\ ast[Top.node].kind = "Function")
      <4>1. m_currentFunction = EnclosingFunction(ast, Top.node)
        BY <3>1, <3>3 DEF Inside
      <4>2. QED
        BY <1>2, <4>1, EnclosingTyped
    <3>4. QED
      BY <3>2, <3>3
  <2>3. QED
    BY <2>1, <2>2
<1>7. /\ DOMAIN type \subseteq NodesOf(ast, ExpressionKinds)
      /\ \A n \in DOMAIN type : type[n] \in Type
      /\ DOMAIN always_returns \subseteq NodesOf(ast, StatementKinds)
      /\ \A n \in DOMAIN always_returns : always_returns[n] \in BOOLEAN
  BY <1>1 DEF Results
<1>8. QED
  BY <1>1, <1>3, <1>4, <1>5, <1>6, <1>7 DEF TypeOK

(***************************************************************************)
(* The results.                                                            *)
(***************************************************************************)

\* The pass keeps to the types its members declare (SemanticVisitor.hpp).
THEOREM TypeCorrectness == Spec => []TypeOK
<1>1. IInv => TypeOK
  BY IInvTypeOK
<1>2. QED
  BY <1>1, Invariance, PTL

\* After every addError the errors are in the order of the text, however it is
\* laid out in lines and columns (SemanticVisitor.cpp, addError): the
\* comparison of lines and columns is the order of the places.
THEOREM ErrorsStaySorted == Spec => []ErrorsSorted
<1>1. ASSUME IInv PROVE ErrorsSorted
  <2>1. InOrder(m_errors) /\ IsTree(ast) /\ ast \in Programs
    BY <1>1, ProgramsAssumption DEF IInv, ErrorsInv, IsProgram
  <2>2. SUFFICES ASSUME NEW i \in DOMAIN m_errors, NEW j \in DOMAIN m_errors, i < j,
                        NEW k \in 0 .. Len(ast), NEW l \in 0 .. Len(ast),
                        m_errors[i].location = LocationAt(k),
                        m_errors[j].location = LocationAt(l), l < k
                 PROVE  FALSE
    BY <2>1 DEF ErrorsSorted, IsTree
  <2>3. ~ Precedes(LocationAt(l), LocationAt(k))
    BY <2>1, <2>2 DEF InOrder
  <2>4. QED
    BY <2>1, <2>2, <2>3, LaterPlace
<1>2. QED
  BY <1>1, Invariance, PTL

\* A statement is marked as always returning exactly when control cannot fall
\* out of it (SemanticVisitor.cpp, the visits of the statements).
THEOREM AnswersAreExact == Spec => []AlwaysReturnsIsExact
<1>1. IInv => AlwaysReturnsIsExact
  BY DEF IInv, Results, AlwaysReturnsIsExact
<1>2. QED
  BY <1>1, Invariance, PTL

\* The current function is the one around whatever is visited, and none when
\* the pass has ended (SemanticVisitor.cpp, the visit of a function).
THEOREM ContextIsRight == Spec => []CurrentFunctionEncloses
<1>1. ASSUME IInv PROVE CurrentFunctionEncloses
  <2>1. CASE stack = << >>
    BY <1>1, <2>1 DEF IInv, InContext, Chained, CurrentFunctionEncloses, Finished
  <2>2. CASE stack # << >>
    <3>1. Top \in TaskOf(ast) /\ Inside(ast)[Top] = m_currentFunction
      BY <1>1, <2>2, TopTyped
    <3>2. Top.op = "visit" => m_currentFunction = EnclosingFunction(ast, Top.node)
      BY <3>1 DEF Inside
    <3>3. QED
      BY <2>2, <3>2 DEF CurrentFunctionEncloses, Finished
  <2>3. QED
    BY <2>1, <2>2
<1>2. QED
  BY <1>1, Invariance, PTL

\* Sorting neither drops nor alters an error (SemanticVisitor.cpp, addError).
THEOREM ErrorsAreKept == Spec => NoErrorLost
<1>1. ASSUME IInv, [Next]_vars PROVE [KeepErrors]_vars
  <2>1. CASE Next
    <3>1. Keeps(m_errors, m_errors')
      BY <1>1, <2>1, NextIsGood, GoodStepKeeps
    <3>2. QED
      BY <3>1 DEF Keeps, Places, KeepErrors
  <2>2. CASE UNCHANGED vars
    BY <2>2
  <2>3. QED
    BY <1>1, <2>1, <2>2
<1>2. QED
  BY <1>1, Invariance, PTL DEF Spec, NoErrorLost

\* What a visit has computed no later visit changes (SemanticVisitor.cpp).
THEOREM ResultsStay == Spec => ResultsAreFinal
<1> DEFINE Final ==
      /\ \A n \in DOMAIN type : n \in DOMAIN type' /\ type'[n] = type[n]
      /\ \A n \in DOMAIN always_returns :
           n \in DOMAIN always_returns' /\ always_returns'[n] = always_returns[n]
<1>1. ASSUME IInv, [Next]_vars PROVE [Final]_vars
  <2>1. CASE Next
    BY <1>1, <2>1, NextIsGood, GoodStepKeeps
  <2>2. CASE UNCHANGED vars
    BY <2>2
  <2>3. QED
    BY <1>1, <2>1, <2>2
<1>2. Spec => [][Final]_vars
  <2> HIDE DEF Final
  <2> QED
    BY <1>1, Invariance, PTL DEF Spec
<1>3. QED
  BY <1>2 DEF ResultsAreFinal

(***************************************************************************)
(* The verdict.  A program is judged in many places: a task of the walk    *)
(* checks one condition of the type rules, given here by the types of the  *)
(* rules themselves.                                                       *)
(***************************************************************************)
VisitHolds(t, r, n) ==
  LET decl == Decl(t, r[n])
  IN  /\ t[n].kind \in {"Variable", "Parameter", "Array"} => WellDeclared(t, n)
      /\ t[n].kind \in {"VariableExpr", "Subscript"} => decl.kind # "Function"
      /\ t[n].kind = "Subscript" => decl.type.kind = "Array"
      /\ t[n].kind = "Call" =>
           decl.kind = "Function" /\ Len(ParameterTypes(t, r[n])) = Len(t[n].kids)

CheckHolds(t, ty, n) ==
  /\ t[n].kind \in {"If", "While"} => ty[Kid(t, n, 1)] = Bool
  /\ t[n].kind = "Assignment" => ty[Kid(t, n, 1)].kind # "Array"

FinishHolds(t, ty, n) ==
  LET kid(i) == ty[Kid(t, n, i)]
      both(allowed) == kid(1) = kid(2) /\ kid(1) \in allowed
  IN  /\ t[n].kind = "Program" => t[LastKid(t, 1)].name = "main"
      /\ t[n].kind = "Function" => WellDeclared(t, n)
      /\ t[n].kind = "Return" =>
           t[EnclosingFunction(t, n)].type = IF t[n].kids = << >> THEN Void ELSE kid(1)
      /\ t[n].kind = "Assignment" => kid(1) = kid(2)
      /\ t[n].kind = "Subscript" => kid(1) = Int32
      /\ t[n].kind \in {"Additive", "Multiplicative"} => both(Arithmetic)
      /\ t[n].kind = "Relational" =>
           both(Arithmetic) \/ (both({Bool}) /\ t[n].operation \in {"EQ", "NEQ"})

Holds(t, r, k) ==
  LET ty == TypesOf(t, r)
      n == k.node
  IN  /\ k.op = "declaration" /\ t[n].name = "main" => n = LastKid(t, 1)
      /\ k.op = "visit" => VisitHolds(t, r, n)
      /\ k.op = "check" => CheckHolds(t, ty, n)
      /\ k.op = "argument" => ty[Kid(t, n, k.index)] = ParameterTypes(t, r[n])[k.index]
      /\ k.op = "finish" => FinishHolds(t, ty, n)

\* The tasks that judge node n of a program without errors.
Judges(t, n) ==
  {Visit(n), Finish(n)} \cup
  {Declaration(m) : m \in IF t[n].kind = "Program" THEN KidSet(t, n) ELSE {}} \cup
  {Check(m) : m \in {n} \cap NodesOf(t, {"If", "While", "Assignment"})} \cup
  {Argument(n, i) : i \in IF t[n].kind = "Call" THEN 1 .. Len(t[n].kids) ELSE {}}

\* The judges of a node whose end is pending have judged, or will before it.
InSession ==
  \A a \in 1 .. Len(stack) :
    stack[a].op = "finish" =>
      \A k \in Judges(ast, stack[a].node) \ {stack[a]} :
        \/ Holds(ast, referent, k)
        \/ \E b \in a + 1 .. Len(stack) : stack[b] = k

Sound ==
  /\ \A n \in DOMAIN ast \ Pending(stack, Owes(ast)) :
       \A k \in Judges(ast, n) : Holds(ast, referent, k)
  /\ InSession
  /\ type = [n \in DOMAIN type |-> TypesOf(ast, referent)[n]]

Verdict ==
  IF isValid THEN Sound
  ELSE \E n \in DOMAIN ast : \E k \in Judges(ast, n) : ~ Holds(ast, referent, k)


LEMMA LinkedFits ==
  ASSUME IInv
  PROVE  Linking(ast, referent)
<1>1. /\ IsProgram(ast)
      /\ Meaning(ast).faults = {} /\ referent = Meaning(ast).referents
  BY ProgramsAssumption DEF IInv, Linked
<1>2. QED
  BY <1>1, ReferentsLink

(***************************************************************************)
(* A program is well typed when everything that is judged of it holds.     *)
(***************************************************************************)
LEMMA JudgeCases ==
  ASSUME NEW t, NEW n \in DOMAIN t, NEW k \in Judges(t, n)
  PROVE  \/ k = Visit(n)
         \/ k = Finish(n)
         \/ /\ t[n].kind = "Program"
            /\ \E i \in 1 .. Len(t[n].kids) : k = Declaration(Kid(t, n, i))
         \/ t[n].kind \in {"If", "While", "Assignment"} /\ k = Check(n)
         \/ /\ t[n].kind = "Call"
            /\ \E i \in 1 .. Len(t[n].kids) : k = Argument(n, i)
<1>1. CASE k \in {Declaration(m) : m \in IF t[n].kind = "Program" THEN KidSet(t, n) ELSE {}}
  <2>1. PICK m \in IF t[n].kind = "Program" THEN KidSet(t, n) ELSE {} : k = Declaration(m)
    BY <1>1
  <2>2. t[n].kind = "Program" /\ m \in KidSet(t, n)
    BY <2>1
  <2>3. QED
    BY <2>1, <2>2 DEF KidSet
<1>2. CASE k \in {Check(m) : m \in {n} \cap NodesOf(t, {"If", "While", "Assignment"})}
  BY <1>2 DEF NodesOf
<1>3. CASE k \in {Argument(n, i) : i \in IF t[n].kind = "Call" THEN 1 .. Len(t[n].kids) ELSE {}}
  <2>1. PICK i \in IF t[n].kind = "Call" THEN 1 .. Len(t[n].kids) ELSE {} : k = Argument(n, i)
    BY <1>3
  <2>2. QED
    BY <2>1
<1>4. QED
  BY <1>1, <1>2, <1>3 DEF Judges

LEMMA JudgesThere ==
  ASSUME NEW t, NEW n \in DOMAIN t
  PROVE  /\ Visit(n) \in Judges(t, n) /\ Finish(n) \in Judges(t, n)
         /\ t[n].kind = "Program" =>
              \A i \in 1 .. Len(t[n].kids) : Declaration(Kid(t, n, i)) \in Judges(t, n)
         /\ t[n].kind \in {"If", "While", "Assignment"} => Check(n) \in Judges(t, n)
         /\ t[n].kind = "Call" => \A i \in 1 .. Len(t[n].kids) : Argument(n, i) \in Judges(t, n)
<1>1. Visit(n) \in Judges(t, n) /\ Finish(n) \in Judges(t, n)
  BY DEF Judges
<1>2. ASSUME t[n].kind = "Program", NEW i \in 1 .. Len(t[n].kids)
      PROVE  Declaration(Kid(t, n, i)) \in Judges(t, n)
  BY <1>2 DEF Judges, KidSet
<1>3. ASSUME t[n].kind \in {"If", "While", "Assignment"} PROVE Check(n) \in Judges(t, n)
  BY <1>3 DEF Judges, NodesOf
<1>4. ASSUME t[n].kind = "Call", NEW i \in 1 .. Len(t[n].kids)
      PROVE  Argument(n, i) \in Judges(t, n)
  BY <1>4 DEF Judges
<1>5. QED
  BY <1>1, <1>2, <1>3, <1>4

\* What the judges say, by the kind of judge.
LEMMA HoldsCases ==
  ASSUME NEW t, NEW r, NEW n
  PROVE  /\ Holds(t, r, Visit(n)) <=> VisitHolds(t, r, n)
         /\ Holds(t, r, Finish(n)) <=> FinishHolds(t, TypesOf(t, r), n)
         /\ Holds(t, r, Check(n)) <=> CheckHolds(t, TypesOf(t, r), n)
         /\ Holds(t, r, Declaration(n)) <=> (t[n].name = "main" => n = LastKid(t, 1))
         /\ Holds(t, r, EnterBody(n))
<1>1. Visit(n).op = "visit" /\ Visit(n).node = n
  BY DEF Visit
<1>2. Finish(n).op = "finish" /\ Finish(n).node = n
  BY DEF Finish
<1>3. Check(n).op = "check" /\ Check(n).node = n
  BY DEF Check
<1>4. Declaration(n).op = "declaration" /\ Declaration(n).node = n
  BY DEF Declaration
<1>5. EnterBody(n).op = "body"
  BY DEF EnterBody
<1>6. QED
  BY <1>1, <1>2, <1>3, <1>4, <1>5 DEF Holds

LEMMA ArgumentHolds ==
  ASSUME NEW t, NEW r, NEW n, NEW i
  PROVE  Holds(t, r, Argument(n, i)) <=>
           TypesOf(t, r)[Kid(t, n, i)] = ParameterTypes(t, r[n])[i]
<1>1. LET k == Argument(n, i) IN k.op = "argument" /\ k.node = n /\ k.index = i
  BY DEF Argument
<1>2. QED
  BY <1>1, Zenon DEF Holds

LEMMA OneProgram ==
  ASSUME NEW t, IsProgram(t), NEW n \in DOMAIN t, t[n].kind = "Program"
  PROVE  n = 1
<1>1. IsTree(t) /\ 1 \in DOMAIN t /\ t[1].kind = "Program"
  BY DEF IsTree, IsProgram
<1>2. ASSUME NEW i \in 1 .. Len(t[1].kids), n = Kid(t, 1, i) PROVE FALSE
  <2>1. KidsFit(t, 1)
    BY <1>1, NodeShape
  <2>2. t[n].kind \in {"Variable", "Array", "Function"}
    BY <1>1, <1>2, <2>1 DEF KidsFit
  <2>3. QED
    BY <2>2
<1>3. QED
  BY <1>2, KidsOfRoot

LEMMA RootShape ==
  ASSUME NEW t, IsProgram(t)
  PROVE  /\ 1 \in DOMAIN t /\ Len(t[1].kids) \in 1 .. Len(t[1].kids)
         /\ LastKid(t, 1) = Kid(t, 1, Len(t[1].kids))
         /\ DOMAIN Kids(t, 1) = 1 .. Len(t[1].kids)
         /\ \A i \in 1 .. Len(t[1].kids) :
              /\ Kid(t, 1, i) \in DOMAIN t
              /\ Kid(t, 1, i) = LastKid(t, 1) <=> i = Len(t[1].kids)
<1>1. IsTree(t) /\ 1 \in DOMAIN t /\ t[1].kind = "Program"
  BY DEF IsTree, IsProgram
<1>2. KidsFit(t, 1) /\ Len(t[1].kids) \in Nat
      /\ \A i \in 1 .. Len(t[1].kids) : Kid(t, 1, i) \in DOMAIN t
  BY <1>1, NodeShape
<1>3. Len(t[1].kids) > 0
  BY <1>1, <1>2 DEF KidsFit
<1>4. Len(t[1].kids) \in 1 .. Len(t[1].kids)
  BY <1>2, <1>3
<1>5. LastKid(t, 1) = Kid(t, 1, Len(t[1].kids))
  BY DEF LastKid
<1>6. \A i, j \in 1 .. Len(t[1].kids) : Kid(t, 1, i) = Kid(t, 1, j) => i = j
  BY <1>1, OneParent
<1>7. DOMAIN Kids(t, 1) = 1 .. Len(t[1].kids)
  <2>1. Kids(t, 1) \in Seq(DOMAIN t) /\ Len(Kids(t, 1)) = Len(t[1].kids)
    BY <1>1, KidsSequence
  <2>2. QED
    BY <2>1
<1>8. QED
  BY <1>1, <1>2, <1>4, <1>5, <1>6, <1>7

\* An expression that has a type: everything its kind asks for.
LEMMA TypedExpression ==
  ASSUME NEW t, NEW r, IsTree(t), Linking(t, r), NEW n \in NodesOf(t, ExpressionKinds),
         TypesOf(t, r)[n] # IllTyped
  PROVE  LET ty == TypesOf(t, r)
         IN  /\ VisitHolds(t, r, n)
             /\ CheckHolds(t, ty, n)
             /\ FinishHolds(t, ty, n)
             /\ t[n].kind = "Call" =>
                  \A i \in 1 .. Len(t[n].kids) : ty[Kid(t, n, i)] = ParameterTypes(t, r[n])[i]
<1> PICK ty : ty = TypesOf(t, r)
  OBVIOUS
<1>1. TypedByKind(t, r, ty, n) /\ TypeOf(t, r, ty, n) # IllTyped
  <2>1. ty[n] = TypeOf(t, r, ty, n)
    <3>1. ty = [m \in NodesOf(t, ExpressionKinds) |-> TypeOf(t, r, ty, m)]
      BY TypesDefined
    <3>2. QED
      BY <3>1
  <2>2. QED
    BY <2>1, TypeCases
<1>2. t[n].kind \in ExpressionKinds
  BY DEF NodesOf
<1>3. /\ VisitHolds(t, r, n)
      /\ t[n].kind = "Call" =>
           \A i \in 1 .. Len(t[n].kids) : ty[Kid(t, n, i)] = ParameterTypes(t, r[n])[i]
  <2>1. CASE t[n].kind \in {"VariableExpr", "Subscript"}
    BY <1>1, <2>1 DEF VisitHolds, TypedByKind
  <2>2. CASE t[n].kind = "Call"
    <3>1. Decl(t, r[n]).kind = "Function" /\ ArgumentTypes(t, ty, n) = ParameterTypes(t, r[n])
      BY <1>1, <2>2, Zenon DEF TypedByKind
    <3>2. DOMAIN t[n].kids = 1 .. Len(t[n].kids) /\ Len(t[n].kids) \in Nat /\ n \in UsesOf(t)
      BY <2>2, ExpressionsInside DEF UseKinds
    <3>3. ParameterTypes(t, r[n]) \in Seq(Type)
      BY <3>1, <3>2 DEF Linking
    <3>4. DOMAIN ParameterTypes(t, r[n]) = 1 .. Len(t[n].kids)
          /\ \A i \in 1 .. Len(t[n].kids) : ty[Kid(t, n, i)] = ParameterTypes(t, r[n])[i]
      BY <3>1, <3>2 DEF ArgumentTypes
    <3>5. Len(ParameterTypes(t, r[n])) = Len(t[n].kids)
      BY <3>2, <3>3, <3>4, LenProperties
    <3>6. QED
      BY <2>2, <3>1, <3>4, <3>5 DEF VisitHolds
  <2>3. CASE t[n].kind \notin {"VariableExpr", "Subscript", "Call"}
    BY <1>2, <2>3 DEF VisitHolds, ExpressionKinds, LiteralKinds
  <2>4. QED
    BY <2>1, <2>2, <2>3
<1>4. CheckHolds(t, ty, n)
  <2>1. CASE t[n].kind = "Assignment"
    BY <1>1, <2>1 DEF CheckHolds, TypedByKind
  <2>2. CASE t[n].kind # "Assignment"
    BY <1>2, <2>2 DEF CheckHolds, ExpressionKinds, LiteralKinds
  <2>3. QED
    BY <2>1, <2>2
<1>5. FinishHolds(t, ty, n)
  <2>1. CASE t[n].kind \in {"Assignment", "Subscript"}
    BY <1>1, <2>1 DEF FinishHolds, TypedByKind
  <2>2. CASE t[n].kind \in {"Additive", "Multiplicative"}
    BY <1>1, <2>2 DEF FinishHolds, TypedByKind
  <2>3. CASE t[n].kind = "Relational"
    BY <1>1, <2>3 DEF FinishHolds, TypedByKind
  <2>4. CASE t[n].kind \in {"VariableExpr", "ImplicitCast", "Call"} \cup LiteralKinds
    BY <2>4 DEF FinishHolds, LiteralKinds
  <2>5. QED
    BY <1>2, <2>1, <2>2, <2>3, <2>4 DEF ExpressionKinds
<1>6. QED
  BY <1>3, <1>4, <1>5

LEMMA WellTypedHolds ==
  ASSUME NEW t, NEW r, IsProgram(t), Linking(t, r), WellTyped(t, r),
         NEW n \in DOMAIN t, NEW k \in Judges(t, n)
  PROVE  Holds(t, r, k)
<1> PICK ty : ty = TypesOf(t, r)
  OBVIOUS
<1>1. IsTree(t) /\ t[n].kind \in NodeKinds
  <2>1. IsTree(t)
    BY DEF IsProgram
  <2>2. QED
    BY <2>1, NodeShape
<1>2. /\ \A m \in NodesOf(t, ExpressionKinds) : ty[m] # IllTyped
      /\ \A m \in NodesOf(t, {"If", "While"}) : ty[Kid(t, m, 1)] = Bool
      /\ \A m \in NodesOf(t, {"Return"}) :
           t[EnclosingFunction(t, m)].type =
             IF t[m].kids = << >> THEN Void ELSE ty[Kid(t, m, 1)]
      /\ \A d \in DeclsOf(t) : WellDeclared(t, d)
      /\ EndsWithMain(t)
  <2>1. ty = [m \in NodesOf(t, ExpressionKinds) |-> TypeOf(t, r, ty, m)]
    BY <1>1, TypesDefined
  <2>2. DOMAIN ty = NodesOf(t, ExpressionKinds)
    BY <2>1
  <2>3. QED
    BY <2>2 DEF WellTyped
<1>3. ASSUME t[n].kind \in ExpressionKinds
      PROVE  /\ VisitHolds(t, r, n) /\ CheckHolds(t, ty, n) /\ FinishHolds(t, ty, n)
             /\ t[n].kind = "Call" =>
                  \A i \in 1 .. Len(t[n].kids) : ty[Kid(t, n, i)] = ParameterTypes(t, r[n])[i]
  <2>1. n \in NodesOf(t, ExpressionKinds)
    BY <1>3 DEF NodesOf
  <2>2. QED
    BY <1>1, <1>2, <2>1, TypedExpression
<1>4. VisitHolds(t, r, n)
  <2>1. CASE t[n].kind \in DeclKinds
    <3>1. WellDeclared(t, n)
      BY <1>2, <2>1 DEF DeclsOf
    <3>2. QED
      BY <2>1, <3>1 DEF VisitHolds, DeclKinds
  <2>2. CASE t[n].kind \in {"Program"} \cup StatementKinds
    BY <2>2 DEF VisitHolds, StatementKinds
  <2>3. QED
    BY <1>1, <1>3, <2>1, <2>2 DEF NodeKinds
<1>5. CheckHolds(t, ty, n)
  <2>1. CASE t[n].kind \in {"If", "While"}
    <3>1. ty[Kid(t, n, 1)] = Bool
      BY <1>2, <2>1 DEF NodesOf
    <3>2. QED
      BY <2>1, <3>1 DEF CheckHolds
  <2>2. CASE t[n].kind = "Assignment"
    BY <1>3, <2>2 DEF ExpressionKinds
  <2>3. CASE t[n].kind \notin {"If", "While", "Assignment"}
    BY <2>3 DEF CheckHolds
  <2>4. QED
    BY <2>1, <2>2, <2>3
<1>6. ASSUME t[n].kind = "Program", NEW i \in 1 .. Len(t[n].kids)
      PROVE  /\ t[LastKid(t, 1)].name = "main"
             /\ t[Kid(t, n, i)].name = "main" => Kid(t, n, i) = LastKid(t, 1)
  <2>1. n = 1
    BY <1>6, OneProgram
  <2>2. /\ Len(t[1].kids) \in 1 .. Len(t[1].kids)
        /\ LastKid(t, 1) = Kid(t, 1, Len(t[1].kids))
        /\ DOMAIN Kids(t, 1) = 1 .. Len(t[1].kids)
        /\ \A j \in 1 .. Len(t[1].kids) : Kid(t, 1, j) = LastKid(t, 1) <=> j = Len(t[1].kids)
    BY RootShape
  <2>3. \A j \in 1 .. Len(t[1].kids) : t[Kid(t, 1, j)].name = "main" <=> j = Len(t[1].kids)
    BY <1>2, <2>2 DEF EndsWithMain
  <2>4. QED
    BY <1>6, <2>1, <2>2, <2>3
<1>7. FinishHolds(t, ty, n)
  <2>1. CASE t[n].kind = "Program"
    <3>1. t[LastKid(t, 1)].name = "main"
      <4>1. n = 1
        BY <2>1, OneProgram
      <4>2. Len(t[1].kids) \in 1 .. Len(t[1].kids)
        BY RootShape
      <4>3. QED
        BY <1>6, <2>1, <4>1, <4>2
    <3>2. QED
      BY <2>1, <3>1 DEF FinishHolds
  <2>2. CASE t[n].kind = "Function"
    <3>1. WellDeclared(t, n)
      BY <1>2, <2>2 DEF DeclsOf, DeclKinds
    <3>2. QED
      BY <2>2, <3>1 DEF FinishHolds
  <2>3. CASE t[n].kind = "Return"
    <3>1. t[EnclosingFunction(t, n)].type =
            IF t[n].kids = << >> THEN Void ELSE ty[Kid(t, n, 1)]
      BY <1>2, <2>3 DEF NodesOf
    <3>2. QED
      BY <2>3, <3>1 DEF FinishHolds
  <2>4. CASE t[n].kind \in {"Variable", "Parameter", "Array"} \cup (StatementKinds \ {"Return"})
    BY <2>4 DEF FinishHolds, StatementKinds
  <2>5. QED
    BY <1>1, <1>3, <2>1, <2>2, <2>3, <2>4 DEF NodeKinds, DeclKinds
<1>8. CASE k = Visit(n)
  BY <1>4, <1>8, HoldsCases
<1>9. CASE k = Finish(n)
  BY <1>7, <1>9, HoldsCases
<1>10. CASE t[n].kind = "Program" /\ \E i \in 1 .. Len(t[n].kids) : k = Declaration(Kid(t, n, i))
  <2>1. PICK i \in 1 .. Len(t[n].kids) : k = Declaration(Kid(t, n, i))
    BY <1>10
  <2>2. t[Kid(t, n, i)].name = "main" => Kid(t, n, i) = LastKid(t, 1)
    BY <1>6, <1>10
  <2>3. QED
    BY <2>1, <2>2, HoldsCases
<1>11. CASE k = Check(n)
  BY <1>5, <1>11, HoldsCases
<1>12. CASE t[n].kind = "Call" /\ \E i \in 1 .. Len(t[n].kids) : k = Argument(n, i)
  <2>1. PICK i \in 1 .. Len(t[n].kids) : k = Argument(n, i)
    BY <1>12
  <2>2. ty[Kid(t, n, i)] = ParameterTypes(t, r[n])[i]
    BY <1>3, <1>12 DEF ExpressionKinds
  <2>3. QED
    BY <2>1, <2>2, ArgumentHolds
<1>13. QED
  BY <1>8, <1>9, <1>10, <1>11, <1>12, JudgeCases

LEMMA HoldsWellTyped ==
  ASSUME NEW t, NEW r, IsProgram(t), Linking(t, r),
         \A n \in DOMAIN t : \A k \in Judges(t, n) : Holds(t, r, k),
         \A n \in NodesOf(t, ExpressionKinds) : TypesOf(t, r)[n] # IllTyped
  PROVE  WellTyped(t, r)
<1> PICK ty : ty = TypesOf(t, r)
  OBVIOUS
<1>1. IsTree(t)
  BY DEF IsProgram
<1>2. DOMAIN ty = NodesOf(t, ExpressionKinds)
  <2>1. ty = [m \in NodesOf(t, ExpressionKinds) |-> TypeOf(t, r, ty, m)]
    BY <1>1, TypesDefined
  <2>2. QED
    BY <2>1
<1>3. \A n \in DOMAIN t : VisitHolds(t, r, n) /\ FinishHolds(t, ty, n)
  <2>1. ASSUME NEW n \in DOMAIN t PROVE VisitHolds(t, r, n) /\ FinishHolds(t, ty, n)
    <3>1. Holds(t, r, Visit(n)) /\ Holds(t, r, Finish(n))
      BY JudgesThere
    <3>2. QED
      BY <3>1, HoldsCases
  <2>2. QED
    BY <2>1
<1>4. ASSUME NEW n \in NodesOf(t, {"If", "While"}) PROVE ty[Kid(t, n, 1)] = Bool
  <2>1. n \in DOMAIN t /\ t[n].kind \in {"If", "While"}
    BY DEF NodesOf
  <2>2. Holds(t, r, Check(n))
    BY <2>1, JudgesThere
  <2>3. CheckHolds(t, ty, n)
    BY <2>2, HoldsCases
  <2>4. QED
    BY <2>1, <2>3 DEF CheckHolds
<1>5. ASSUME NEW n \in NodesOf(t, {"Return"})
      PROVE  t[EnclosingFunction(t, n)].type =
               IF t[n].kids = << >> THEN Void ELSE ty[Kid(t, n, 1)]
  <2>1. n \in DOMAIN t /\ t[n].kind = "Return"
    BY DEF NodesOf
  <2>2. QED
    BY <1>3, <2>1 DEF FinishHolds
<1>6. ASSUME NEW d \in DeclsOf(t) PROVE WellDeclared(t, d)
  <2>1. d \in DOMAIN t /\ t[d].kind \in DeclKinds
    BY DEF DeclsOf
  <2>2. CASE t[d].kind = "Function"
    BY <1>3, <2>1, <2>2 DEF FinishHolds
  <2>3. CASE t[d].kind # "Function"
    BY <1>3, <2>1, <2>3 DEF VisitHolds, DeclKinds
  <2>4. QED
    BY <2>2, <2>3
<1>7. EndsWithMain(t)
  <2>1. 1 \in DOMAIN t /\ t[1].kind = "Program"
    BY RootShape DEF IsProgram
  <2>2. /\ Len(t[1].kids) \in 1 .. Len(t[1].kids)
        /\ LastKid(t, 1) = Kid(t, 1, Len(t[1].kids))
        /\ DOMAIN Kids(t, 1) = 1 .. Len(t[1].kids)
        /\ \A j \in 1 .. Len(t[1].kids) : Kid(t, 1, j) = LastKid(t, 1) <=> j = Len(t[1].kids)
    BY RootShape
  <2>3. t[LastKid(t, 1)].name = "main"
    BY <1>3, <2>1 DEF FinishHolds
  <2>4. ASSUME NEW j \in 1 .. Len(t[1].kids), t[Kid(t, 1, j)].name = "main"
        PROVE  Kid(t, 1, j) = LastKid(t, 1)
    <3>1. Holds(t, r, Declaration(Kid(t, 1, j)))
      BY <2>1, JudgesThere
    <3>2. QED
      BY <2>4, <3>1, HoldsCases
  <2>5. QED
    BY <2>2, <2>3, <2>4 DEF EndsWithMain
<1>8. QED
  BY <1>2, <1>4, <1>5, <1>6, <1>7 DEF WellTyped

(***************************************************************************)
(* What a step does to the verdict.                                        *)
(***************************************************************************)
Judged == (m_errors' = << >>) <=> (m_errors = << >> /\ Holds(ast, referent, Top))

\* A pending end comes after everything else that judges its node.
Scheduled(tasks) ==
  \A a \in 1 .. Len(tasks) :
    tasks[a].op = "finish" =>
      \A k \in Judges(ast, tasks[a].node) \ {tasks[a]} :
        k = Top \/ \E b \in 1 .. a - 1 : tasks[b] = k

\* A step that leaves no tasks was the last judge of what it has done.
Concluded ==
  \A n \in Owes(ast)[Top] : \A k \in Judges(ast, n) :
    k = Top \/ Holds(ast, referent, k) \/ Top.op = "finish"

TypedRight ==
  \/ type' = type
  \/ \E n, ty : /\ type' = Assigned(type, n, ty)
                /\ m_errors' = << >> => ty = TypesOf(ast, referent)[n]

LEMMA StepTasks ==
  ASSUME IInv, GoodStep, NEW S, NEW tasks \in Seq(S), Continue(tasks)
  PROVE  /\ Len(stack') = Len(stack) - 1 + Len(tasks)
         /\ \A i \in 1 .. Len(stack) - 1 : stack'[i] = stack[i]
         /\ \A i \in 1 .. Len(tasks) : stack'[Len(stack) - 1 + i] = tasks[Len(tasks) - i + 1]
         /\ tasks = << >> =>
              Pending(stack', Owes(ast)) = Pending(stack, Owes(ast)) \ Owes(ast)[Top]
         /\ tasks # << >> => Pending(stack', Owes(ast)) = Pending(stack, Owes(ast))
<1> PICK o, u : o = Owes(ast) /\ u = Uses(ast)
  OBVIOUS
<1>1. stack # << >> /\ stack \in Seq(TaskOf(ast)) /\ StackInTurn(stack, o, u)
  BY DEF GoodStep, IInv, Results
<1>2. PICK known, done :
        /\ known \in Seq(TaskOf(ast)) /\ Continue(known) /\ Replaces(known, done, o, u)
        /\ done = {} \/ known = << >>
  BY DEF GoodStep, Advance
<1>3. Pending(stack', o) = Pending(stack, o) \ done
  BY <1>1, <1>2, WalkStep
<1>4. Len(stack') = Len(stack) - 1 + Len(known)
  BY <1>1, <1>2, ContinueStack
<1>5. /\ Len(stack') = Len(stack) - 1 + Len(tasks)
      /\ \A i \in 1 .. Len(stack) - 1 : stack'[i] = stack[i]
      /\ \A i \in 1 .. Len(tasks) : stack'[Len(stack) - 1 + i] = tasks[Len(tasks) - i + 1]
  <2>1. stack \in Seq(TaskOf(ast) \cup S) /\ tasks \in Seq(TaskOf(ast) \cup S)
    BY <1>1
  <2>2. QED
    BY <1>1, <2>1, ContinueStack
<1>6. Len(known) = Len(tasks)
  <2>1. Len(stack) \in Nat /\ Len(known) \in Nat /\ Len(tasks) \in Nat
    BY <1>1, <1>2
  <2>2. QED
    BY <1>4, <1>5, <2>1
<1>7. ASSUME tasks = << >> PROVE done = o[Top]
  <2>1. known = << >>
    BY <1>2, <1>6, <1>7, EmptySeq
  <2>2. Pending(known, o) = {}
    BY <2>1 DEF Pending
  <2>3. QED
    BY <1>2, <2>2 DEF Replaces
<1>8. ASSUME tasks # << >> PROVE done = {}
  <2>1. known # << >>
    BY <1>6, <1>8, EmptySeq
  <2>2. QED
    BY <1>2, <2>1
<1>9. QED
  BY <1>3, <1>5, <1>7, <1>8

LEMMA VerdictKept ==
  ASSUME IInv, Verdict, GoodStep, NEW S, NEW tasks \in Seq(S), Continue(tasks), Judged,
         Holds(ast, referent, Top) \/ \E n \in DOMAIN ast : Top \in Judges(ast, n),
         m_errors' = << >> => Scheduled(tasks),
         tasks = << >> => Concluded,
         TypedRight
  PROVE  Verdict'
<1> PICK o : o = Owes(ast)
  OBVIOUS
<1> PICK s : s = Len(stack)
  OBVIOUS
<1> PICK l : l = Len(tasks)
  OBVIOUS
<1>1. /\ stack # << >> /\ ast' = ast /\ referent' = referent
  BY DEF GoodStep
<1>2. /\ Len(stack') = s - 1 + l
      /\ \A i \in 1 .. s - 1 : stack'[i] = stack[i]
      /\ \A i \in 1 .. l : stack'[s - 1 + i] = tasks[l - i + 1]
      /\ tasks = << >> => Pending(stack', o) = Pending(stack, o) \ o[Top]
      /\ tasks # << >> => Pending(stack', o) = Pending(stack, o)
  BY StepTasks
<1>3. s \in Nat \ {0} /\ Top = stack[s] /\ Top \in TaskOf(ast)
  BY <1>1, TopTyped
<1>4. l \in Nat
  OBVIOUS
<1>5. CASE m_errors' # << >>
  <2>1. \E n \in DOMAIN ast : \E k \in Judges(ast, n) : ~ Holds(ast, referent, k)
    BY <1>5 DEF Verdict, isValid, Judged
  <2>2. QED
    BY <1>1, <1>5, <2>1 DEF Verdict, isValid
<1>6. CASE m_errors' = << >>
  <2>1. Holds(ast, referent, Top) /\ Sound /\ Scheduled(tasks)
    BY <1>6 DEF Judged, Verdict, isValid
  <2>2. /\ \A n \in DOMAIN ast \ Pending(stack, o) :
             \A k \in Judges(ast, n) : Holds(ast, referent, k)
        /\ \A a \in 1 .. s :
             stack[a].op = "finish" =>
               \A k \in Judges(ast, stack[a].node) \ {stack[a]} :
                 Holds(ast, referent, k) \/ \E b \in a + 1 .. s : stack[b] = k
        /\ type = [n \in DOMAIN type |-> TypesOf(ast, referent)[n]]
    BY <2>1 DEF Sound, InSession
  <2>3. ASSUME NEW n \in DOMAIN ast \ Pending(stack', o), NEW k \in Judges(ast, n)
        PROVE  Holds(ast, referent, k)
    <3>1. CASE n \notin Pending(stack, o)
      BY <2>2, <3>1
    <3>2. CASE n \in Pending(stack, o)
      <4>1. tasks = << >> /\ n \in o[Top]
        BY <1>2, <2>3, <3>2
      <4>2. CASE Top.op = "finish"
        <5>1. n = Top.node
          BY <1>1, <4>1, <4>2, FinishTop
        <5>2. s \in 1 .. s /\ s + 1 .. s = {}
          BY <1>3
        <5>3. k # Top => Holds(ast, referent, k)
          BY <1>3, <2>2, <4>2, <5>1, <5>2
        <5>4. QED
          BY <2>1, <5>3
      <4>3. CASE Top.op # "finish"
        BY <2>1, <4>1, <4>3 DEF Concluded
      <4>4. QED
        BY <4>2, <4>3
    <3>3. QED
      BY <3>1, <3>2
  <2>4. ASSUME NEW a \in 1 .. Len(stack'), stack'[a].op = "finish",
               NEW k \in Judges(ast, stack'[a].node) \ {stack'[a]}
        PROVE  Holds(ast, referent, k) \/ \E b \in a + 1 .. Len(stack') : stack'[b] = k
    <3>1. CASE a \in 1 .. s - 1
      <4>1. stack'[a] = stack[a] /\ a \in 1 .. s
        <5>1. s \in Nat
          BY <1>3
        <5>2. a \in 1 .. s
          BY <3>1, <5>1
        <5>3. stack'[a] = stack[a]
          BY <1>2, <3>1, Zenon
        <5>4. QED
          BY <5>2, <5>3
      <4>2. CASE \E b \in a + 1 .. s : stack[b] = k
        <5>1. PICK b \in a + 1 .. s : stack[b] = k
          BY <4>2
        <5>2. CASE b = s
          BY <1>3, <2>1, <5>1, <5>2
        <5>3. CASE b # s
          <6>1. b \in 1 .. s - 1 /\ b \in a + 1 .. Len(stack')
            BY <1>2, <1>3, <1>4, <3>1, <5>1, <5>3
          <6>2. stack'[b] = k
            BY <1>2, <5>1, <6>1
          <6>3. QED
            BY <6>1, <6>2
        <5>4. QED
          BY <5>2, <5>3
      <4>3. QED
        BY <2>2, <2>4, <4>1, <4>2
    <3>2. CASE a \notin 1 .. s - 1
      <4>1. PICK i \in 1 .. l : a = s - 1 + i
        <5>1. a - (s - 1) \in 1 .. l /\ a = s - 1 + (a - (s - 1))
          BY <1>2, <1>3, <1>4, <3>2
        <5>2. QED
          BY <5>1
      <4>2. PICK c \in 1 .. l : c = l - i + 1
        BY <1>4, <4>1
      <4>3. stack'[a] = tasks[c]
        BY <1>2, <4>1, <4>2
      <4>4. k = Top \/ \E d \in 1 .. c - 1 : tasks[d] = k
        BY <2>1, <2>4, <4>2, <4>3 DEF Scheduled
      <4>5. CASE \E d \in 1 .. c - 1 : tasks[d] = k
        <5>1. PICK d \in 1 .. c - 1 : tasks[d] = k
          BY <4>5
        <5>2. PICK j \in 1 .. l : j = l - d + 1
          <6>1. d \in Int /\ 1 <= d /\ d <= l
            BY <1>4, <4>2, <5>1
          <6>2. l - d + 1 \in 1 .. l
            BY <1>4, <6>1
          <6>3. QED
            BY <6>2
        <5>3. l - j + 1 = d /\ i < j /\ s - 1 + j \in a + 1 .. Len(stack')
          BY <1>2, <1>3, <1>4, <4>1, <4>2, <5>1, <5>2
        <5>4. stack'[s - 1 + j] = k
          BY <1>2, <5>1, <5>2, <5>3
        <5>5. QED
          BY <5>3, <5>4
      <4>6. QED
        BY <2>1, <4>4, <4>5
    <3>3. QED
      BY <3>1, <3>2
  <2>5. type' = [n \in DOMAIN type' |-> TypesOf(ast, referent)[n]]
    <3> PICK ty : ty = TypesOf(ast, referent)
      OBVIOUS
    <3>1. type = [n \in DOMAIN type |-> ty[n]]
      BY <2>2
    <3>2. CASE type' = type
      BY <3>1, <3>2
    <3>3. ASSUME NEW q, NEW found, type' = Assigned(type, q, found),
                 m_errors' = << >> => found = ty[q]
          PROVE  type' = [n \in DOMAIN type' |-> ty[n]]
      <4>1. type' = [n \in {q} \cup DOMAIN type |-> IF n = q THEN found ELSE type[n]]
        BY <3>3 DEF Assigned
      <4>2. \A n \in {q} \cup DOMAIN type : (IF n = q THEN found ELSE type[n]) = ty[n]
        BY <1>6, <3>1, <3>3
      <4>3. type' = [n \in {q} \cup DOMAIN type |-> ty[n]]
        BY <4>1, <4>2
      <4>4. QED
        BY <4>3
    <3>4. QED
      BY <3>2, <3>3 DEF TypedRight
  <2>6. Sound'
    BY <1>1, <2>3, <2>4, <2>5 DEF Sound, InSession
  <2>7. QED
    BY <1>6, <2>6 DEF Verdict, isValid
<1>7. QED
  BY <1>5, <1>6

(***************************************************************************)
(* How the steps judge.  The errors a step adds are none exactly when what *)
(* its task judges holds.                                                  *)
(***************************************************************************)
Adds(es) == addErrors(es) \/ (es = << >> /\ m_errors' = m_errors)

LEMMA WhenNothing ==
  ASSUME IsTree(ast), NEW condition, NEW message \in Messages, NEW n \in {0} \cup DOMAIN ast
  PROVE  /\ When(condition, message, n) \in Seq(ErrorOf(ast))
         /\ When(condition, message, n) = << >> <=> ~ condition
<1>1. When(condition, message, n) \in Seq(ErrorOf(ast))
  BY WhenTyped
<1>2. << Error(message, n) >> # << >>
  OBVIOUS
<1>3. QED
  BY <1>1, <1>2 DEF When

LEMMA NothingTwice ==
  ASSUME NEW E, NEW s \in Seq(E), NEW r \in Seq(E)
  PROVE  s \o r \in Seq(E) /\ (s \o r = << >> <=> s = << >> /\ r = << >>)
<1>1. s \o r \in Seq(E) /\ Len(s \o r) = Len(s) + Len(r)
  BY ConcatProperties
<1>2. Len(s) \in Nat /\ Len(r) \in Nat
  OBVIOUS
<1>3. /\ s = << >> <=> Len(s) = 0
      /\ r = << >> <=> Len(r) = 0
      /\ s \o r = << >> <=> Len(s \o r) = 0
  BY <1>1, EmptySeq
<1>4. QED
  BY <1>1, <1>2, <1>3

LEMMA JudgedBy ==
  ASSUME IInv, NEW es \in Seq(ErrorOf(ast)), Adds(es),
         m_errors = << >> => (es = << >> <=> Holds(ast, referent, Top))
  PROVE  Judged
<1>1. m_errors' = << >> <=> m_errors = << >> /\ es = << >>
  <2>1. CASE es = << >> /\ m_errors' = m_errors
    BY <2>1
  <2>2. CASE addErrors(es)
    <3>1. m_errors \in Seq(ErrorOf(ast)) /\ InOrder(m_errors)
      BY DEF IInv, ErrorsInv
    <3>2. m_errors' \in Seq(ErrorOf(ast)) /\ Len(m_errors') = Len(m_errors) + Len(es)
      BY <2>2, <3>1, ErrorsAdded
    <3>3. /\ Len(m_errors) \in Nat /\ Len(es) \in Nat
          /\ m_errors = << >> <=> Len(m_errors) = 0
          /\ m_errors' = << >> <=> Len(m_errors') = 0
          /\ es = << >> <=> Len(es) = 0
      BY <3>1, <3>2, EmptySeq
    <3>4. QED
      BY <3>2, <3>3
  <2>3. QED
    BY <2>1, <2>2 DEF Adds
<1>2. QED
  BY <1>1 DEF Judged

\* The top task in full, by its op.
LEMMA TopIs ==
  ASSUME IInv, stack # << >>
  PROVE  /\ Top.op = "visit" => Top = Visit(Top.node)
         /\ Top.op = "finish" => Top = Finish(Top.node)
         /\ Top.op = "check" => Top = Check(Top.node)
         /\ Top.op = "declaration" => Top = Declaration(Top.node)
         /\ Top.op = "body" => Top = EnterBody(Top.node)
         /\ Top.op = "argument" => Top = Argument(Top.node, Top.index)
<1>1. Top \in SemanticTask
  BY TopTyped DEF TaskOf
<1>2. QED
  BY <1>1 DEF SemanticTask, Task, Visit, Finish, Check, Declaration, EnterBody, Argument

LEMMA EndKept ==
  ASSUME IInv, Verdict, GoodStep, Top.op = "finish", Continue(<< >>),
         NEW es \in Seq(ErrorOf(ast)), Adds(es),
         m_errors = << >> =>
           (es = << >> <=> FinishHolds(ast, TypesOf(ast, referent), Top.node)),
         TypedRight
  PROVE  Verdict'
<1>1. stack # << >>
  BY DEF GoodStep
<1>2. Top = Finish(Top.node) /\ Top.node \in DOMAIN ast
  BY <1>1, TopIs, TopTyped
<1>3. Judged
  <2>1. Holds(ast, referent, Finish(Top.node)) <=>
          FinishHolds(ast, TypesOf(ast, referent), Top.node)
    BY HoldsCases
  <2>2. QED
    BY <1>2, <2>1, JudgedBy
<1>4. Top \in Judges(ast, Top.node)
  BY <1>2, JudgesThere
<1>5. << >> \in Seq({}) /\ Concluded /\ Scheduled(<< >>)
  BY DEF Concluded, Scheduled
<1>6. QED
  BY <1>2, <1>3, <1>4, <1>5, VerdictKept

\* The visit of n is to go on with the tasks of a list, and then ends n.
Descent(n, list, es) ==
  /\ Top.op = "visit" /\ n = Top.node /\ type' = type
  /\ Continue(list \o << Finish(n) >>)
  /\ \A a \in 1 .. Len(list) : list[a].op # "finish"
  /\ es \in Seq(ErrorOf(ast)) /\ Adds(es)
  /\ m_errors = << >> => (es = << >> <=> VisitHolds(ast, referent, n))
  /\ m_errors' = << >> =>
       \A k \in Judges(ast, n) :
         k \in {Visit(n), Finish(n)} \/ \E b \in 1 .. Len(list) : list[b] = k

LEMMA DescentKept ==
  ASSUME IInv, Verdict, GoodStep, NEW n, NEW S, NEW list \in Seq(S), NEW es,
         Descent(n, list, es)
  PROVE  Verdict'
<1>0. /\ Top.op = "visit" /\ n = Top.node /\ type' = type
      /\ Continue(list \o << Finish(n) >>)
      /\ \A a \in 1 .. Len(list) : list[a].op # "finish"
      /\ es \in Seq(ErrorOf(ast)) /\ Adds(es)
      /\ m_errors = << >> => (es = << >> <=> VisitHolds(ast, referent, n))
      /\ m_errors' = << >> =>
           \A k \in Judges(ast, n) :
             k \in {Visit(n), Finish(n)} \/ \E b \in 1 .. Len(list) : list[b] = k
  BY DEF Descent
<1>1. stack # << >>
  BY DEF GoodStep
<1>2. Top = Visit(n) /\ n \in DOMAIN ast
  BY <1>0, <1>1, TopIs, TopTyped
<1>3. Judged
  <2>1. Holds(ast, referent, Visit(n)) <=> VisitHolds(ast, referent, n)
    BY HoldsCases
  <2>2. QED
    BY <1>0, <1>2, <2>1, JudgedBy
<1>4. Top \in Judges(ast, n)
  BY <1>2, JudgesThere
<1> PICK tasks : tasks = list \o << Finish(n) >>
  OBVIOUS
<1>5. /\ tasks \in Seq(S \cup {Finish(n)}) /\ Len(tasks) = Len(list) + 1 /\ Len(list) \in Nat
      /\ \A a \in 1 .. Len(list) : tasks[a] = list[a]
      /\ tasks[Len(list) + 1] = Finish(n)
  <2>1. list \in Seq(S \cup {Finish(n)})
    OBVIOUS
  <2>2. QED
    BY <2>1, OneMore
<1>6. ASSUME m_errors' = << >> PROVE Scheduled(tasks)
  <2>1. SUFFICES ASSUME NEW a \in 1 .. Len(tasks), tasks[a].op = "finish",
                        NEW k \in Judges(ast, tasks[a].node) \ {tasks[a]}
                 PROVE  k = Top \/ \E b \in 1 .. a - 1 : tasks[b] = k
    BY DEF Scheduled
  <2>2. a = Len(list) + 1
    <3>1. a \in 1 .. Len(list) \/ a = Len(list) + 1
      BY <1>5
    <3>2. QED
      BY <1>0, <1>5, <2>1, <3>1
  <2>3. tasks[a] = Finish(n) /\ Finish(n).node = n
    BY <1>5, <2>2 DEF Finish
  <2>4. k \in Judges(ast, n) /\ k # Finish(n)
    BY <2>3
  <2>5. CASE \E b \in 1 .. Len(list) : list[b] = k
    <3>1. PICK b \in 1 .. Len(list) : list[b] = k
      BY <2>5
    <3>2. tasks[b] = k /\ b \in 1 .. a - 1
      BY <1>5, <2>2, <3>1
    <3>3. QED
      BY <3>2
  <2>6. QED
    BY <1>0, <1>2, <1>6, <2>4, <2>5
<1>7. tasks # << >>
  <2>1. Len(tasks) # 0
    BY <1>5
  <2>2. QED
    BY <2>1
<1>8. Continue(tasks) /\ TypedRight
  BY <1>0 DEF TypedRight
<1>9. QED
  BY <1>2, <1>3, <1>4, <1>5, <1>6, <1>7, <1>8, VerdictKept

\* The visit of a node without children, judged by its visit alone.
LEMMA LeafKept ==
  ASSUME IInv, Verdict, GoodStep, Top.op = "visit", Continue(<< >>), NEW n, n = Top.node,
         ast[n].kind \in {"Variable", "Parameter", "Array", "VariableExpr"} \cup LiteralKinds,
         NEW es \in Seq(ErrorOf(ast)), Adds(es),
         m_errors = << >> => (es = << >> <=> VisitHolds(ast, referent, n)),
         TypedRight
  PROVE  Verdict'
<1>1. stack # << >>
  BY DEF GoodStep
<1>2. Top = Visit(n) /\ n \in DOMAIN ast /\ IsTree(ast)
  BY <1>1, TopIs, TopTyped
<1>3. Judged
  <2>1. Holds(ast, referent, Visit(n)) <=> VisitHolds(ast, referent, n)
    BY HoldsCases
  <2>2. QED
    BY <1>2, <2>1, JudgedBy
<1>4. Top \in Judges(ast, n)
  BY <1>2, JudgesThere
<1>5. Owes(ast)[Top] = {n}
  <2>1. Len(ast[n].kids) = 0
    BY <1>2, KidCounts
  <2>2. QED
    BY <1>1, <2>1, ChildlessVisit
<1>6. Holds(ast, referent, Finish(n))
  <2>1. FinishHolds(ast, TypesOf(ast, referent), n)
    BY DEF FinishHolds, LiteralKinds
  <2>2. QED
    BY <2>1, HoldsCases
<1>7. Concluded
  <2>1. \A k \in Judges(ast, n) : k = Visit(n) \/ k = Finish(n)
    BY <1>2, JudgeCases DEF LiteralKinds
  <2>2. QED
    BY <1>2, <1>5, <1>6, <2>1 DEF Concluded
<1>8. << >> \in Seq({}) /\ Scheduled(<< >>)
  BY DEF Scheduled
<1>9. QED
  BY <1>2, <1>3, <1>4, <1>7, <1>8, VerdictKept

\* A check, of the node itself, of an argument, or of a declaration.
LEMMA CheckKept ==
  ASSUME IInv, Verdict, GoodStep, Top.op \in {"check", "argument"}, Continue(<< >>),
         UNCHANGED type,
         NEW es \in Seq(ErrorOf(ast)), Adds(es),
         m_errors = << >> => (es = << >> <=> Holds(ast, referent, Top))
  PROVE  Verdict'
<1>1. stack # << >>
  BY DEF GoodStep
<1> PICK n : n = Top.node
  OBVIOUS
<1>2. /\ Top \in TaskOf(ast) /\ n \in DOMAIN ast
      /\ Top.op = "check" => Top = Check(n)
      /\ Top.op = "argument" => Top = Argument(n, Top.index)
  BY <1>1, TopIs, TopTyped
<1>3. Judged
  BY JudgedBy
<1>4. Top \in Judges(ast, n)
  <2>1. CASE Top.op = "check"
    <3>1. ast[n].kind \in {"If", "While", "Assignment"}
      BY <1>2, <2>1 DEF TaskOf
    <3>2. QED
      BY <1>2, <2>1, <3>1, JudgesThere
  <2>2. CASE Top.op = "argument"
    <3>1. ast[n].kind = "Call" /\ Top.index \in 1 .. Len(ast[n].kids)
      BY <1>2, <2>2 DEF TaskOf
    <3>2. QED
      BY <1>2, <2>2, <3>1, JudgesThere
  <2>3. QED
    BY <2>1, <2>2
<1>5. Concluded
  <2>1. Owes(ast)[Top] = {}
    BY <1>2 DEF Owes
  <2>2. QED
    BY <2>1 DEF Concluded
<1>6. << >> \in Seq({}) /\ Scheduled(<< >>) /\ TypedRight
  BY DEF Scheduled, TypedRight
<1>7. QED
  BY <1>2, <1>3, <1>4, <1>5, <1>6, VerdictKept

\* While there is no error, the pass knows the types of the rules.
LEMMA RightType ==
  ASSUME IInv, Verdict, m_errors = << >>, stack # << >>, NEW m \in Uses(ast)[Top],
         m \in NodesOf(ast, ExpressionKinds)
  PROVE  type[m] = TypesOf(ast, referent)[m] /\ type[m] \in Type
<1>1. m \in DOMAIN type /\ type[m] \in Type
  BY UsedIsDone
<1> PICK ty : ty = TypesOf(ast, referent)
  OBVIOUS
<1>2. type = [n \in DOMAIN type |-> ty[n]]
  BY DEF Verdict, isValid, Sound
<1>3. type[m] = ty[m]
  BY <1>1, <1>2
<1>4. QED
  BY <1>1, <1>3

LEMMA RightKid ==
  ASSUME IInv, Verdict, m_errors = << >>, stack # << >>, Top.op = "finish",
         NEW i \in 1 .. Len(ast[Top.node].kids),
         ast[Top.node].kind \in {"Return"} \cup ExpressionKinds
  PROVE  LET m == Kid(ast, Top.node, i)
         IN  type[m] = TypesOf(ast, referent)[m] /\ type[m] \in Type
<1>1. Kid(ast, Top.node, i) \in Uses(ast)[Top]
  BY FinishTop DEF KidSet
<1>2. Kid(ast, Top.node, i) \in NodesOf(ast, ExpressionKinds)
  BY TopTyped, Operands
<1>3. QED
  BY <1>1, <1>2, RightType

\* What was judged before the end of a node.
LEMMA OthersHold ==
  ASSUME IInv, Verdict, m_errors = << >>, stack # << >>, Top.op = "finish",
         NEW n, n = Top.node
  PROVE  /\ VisitHolds(ast, referent, n)
         /\ ast[n].kind = "Assignment" => CheckHolds(ast, TypesOf(ast, referent), n)
         /\ ast[n].kind = "Call" =>
              \A i \in 1 .. Len(ast[n].kids) :
                TypesOf(ast, referent)[Kid(ast, n, i)] = ParameterTypes(ast, referent[n])[i]
<1>1. Top = Finish(n) /\ n \in DOMAIN ast /\ Top = stack[Len(stack)] /\ Len(stack) \in Nat \ {0}
  BY TopIs, TopTyped
<1>2. InSession
  BY DEF Verdict, isValid, Sound
<1>3. Len(stack) \in 1 .. Len(stack) /\ Len(stack) + 1 .. Len(stack) = {}
  BY <1>1
<1>4. \A k \in Judges(ast, n) \ {Top} : Holds(ast, referent, k)
  BY <1>1, <1>2, <1>3 DEF InSession
<1>5. VisitHolds(ast, referent, n)
  <2>1. Visit(n) # Top /\ Visit(n) \in Judges(ast, n)
    BY <1>1, JudgesThere DEF Visit
  <2>2. QED
    BY <1>4, <2>1, HoldsCases
<1>6. ASSUME ast[n].kind = "Assignment" PROVE CheckHolds(ast, TypesOf(ast, referent), n)
  <2>1. Check(n) # Top /\ Check(n) \in Judges(ast, n)
    BY <1>1, <1>6, JudgesThere DEF Check
  <2>2. QED
    BY <1>4, <2>1, HoldsCases
<1>7. ASSUME ast[n].kind = "Call", NEW i \in 1 .. Len(ast[n].kids)
      PROVE  TypesOf(ast, referent)[Kid(ast, n, i)] = ParameterTypes(ast, referent[n])[i]
  <2>1. Argument(n, i) # Top /\ Argument(n, i) \in Judges(ast, n)
    BY <1>1, <1>7, JudgesThere DEF Argument
  <2>2. Holds(ast, referent, Argument(n, i))
    BY <1>4, <2>1
  <2>3. QED
    BY <2>2, ArgumentHolds
<1>8. QED
  BY <1>5, <1>6, <1>7

\* The type of an expression by the rules.
LEMMA TypeByRules ==
  ASSUME IInv, NEW n \in NodesOf(ast, ExpressionKinds)
  PROVE  /\ TypedByKind(ast, referent, TypesOf(ast, referent), n)
         /\ TypeOf(ast, referent, TypesOf(ast, referent), n) = TypesOf(ast, referent)[n]
<1> PICK ty : ty = TypesOf(ast, referent)
  OBVIOUS
<1>1. IsTree(ast)
  BY ProgramsAssumption DEF IInv, IsProgram
<1>2. ty = [m \in NodesOf(ast, ExpressionKinds) |-> TypeOf(ast, referent, ty, m)]
  BY <1>1, LinkedFits, TypesDefined
<1>3. ty[n] = TypeOf(ast, referent, ty, n)
  BY <1>2
<1>4. QED
  BY <1>3, TypeCases

(***************************************************************************)
(* The verdict, action by action: the declarations.                        *)
(***************************************************************************)
LEMMA ProgramVisitJudged ==
  ASSUME IInv, Verdict, VisitProgram
  PROVE  Verdict'
<1> PICK n : n = Top.node
  OBVIOUS
<1> PICK list : list = [i \in DOMAIN Kids(ast, n) |-> Declaration(Kids(ast, n)[i])]
  OBVIOUS
<1>1. /\ stack # << >> /\ Top.op = "visit" /\ ast[n].kind = "Program"
      /\ Continue(list \o << Finish(n) >>)
      /\ UNCHANGED << ast, fields, m_errors, m_currentFunction >>
  BY DEF VisitProgram, Visiting, Doing
<1>2. n \in DOMAIN ast /\ IsTree(ast)
  BY <1>1, TopTyped
<1> PICK l : l = Len(ast[n].kids)
  OBVIOUS
<1>3. /\ list \in Seq({Declaration(Kid(ast, n, i)) : i \in 1 .. l}) /\ Len(list) = l
      /\ \A i \in 1 .. l : list[i] = Declaration(Kid(ast, n, i))
  <2>1. /\ l \in Nat /\ DOMAIN Kids(ast, n) = 1 .. l
        /\ \A i \in 1 .. l : Kids(ast, n)[i] = Kid(ast, n, i)
    BY <1>2, KidsSequence
  <2>2. list = [i \in 1 .. l |-> Declaration(Kid(ast, n, i))]
    BY <2>1
  <2>3. QED
    BY <2>1, <2>2
<1>4. \A a \in 1 .. Len(list) : list[a].op # "finish"
  BY <1>3 DEF Declaration
<1>5. \A k \in Judges(ast, n) :
        k \in {Visit(n), Finish(n)} \/ \E b \in 1 .. Len(list) : list[b] = k
  <2>1. \A k \in Judges(ast, n) :
          \/ k \in {Visit(n), Finish(n)}
          \/ \E i \in 1 .. Len(ast[n].kids) : k = Declaration(Kid(ast, n, i))
    BY <1>1, <1>2, JudgeCases
  <2>2. TAKE k \in Judges(ast, n)
  <2>3. CASE \E i \in 1 .. Len(ast[n].kids) : k = Declaration(Kid(ast, n, i))
    <3>1. PICK i \in 1 .. l : k = Declaration(Kid(ast, n, i))
      BY <2>3
    <3>2. i \in 1 .. Len(list) /\ list[i] = k
      BY <1>3, <3>1
    <3>3. QED
      BY <3>2
  <2>4. QED
    BY <2>1, <2>3
<1>6. << >> \in Seq(ErrorOf(ast)) /\ Adds(<< >>) /\ VisitHolds(ast, referent, n)
  BY <1>1 DEF Adds, VisitHolds
<1>7. GoodStep /\ UNCHANGED type
  BY <1>1, ProgramVisited DEF fields
<1>8. PICK S : list \in Seq(S)
  BY <1>3
<1>9. Continue(list \o << Finish(n) >>) /\ Top.op = "visit"
  BY <1>1
<1>10. Descent(n, list, << >>)
  BY <1>4, <1>5, <1>6, <1>7, <1>9 DEF Descent
<1>11. QED
  BY <1>7, <1>8, <1>10, DescentKept

LEMMA DeclarationJudged ==
  ASSUME IInv, Verdict, VisitDeclaration
  PROVE  Verdict'
<1> PICK d : d = Top.node
  OBVIOUS
<1> PICK es : es = When(ast[d].name = "main" /\ d # LastKid(ast, 1), "earlyMain", d)
  OBVIOUS
<1>1. /\ stack # << >> /\ Top.op = "declaration" /\ addErrors(es)
      /\ Continue(<< Visit(d) >>)
      /\ UNCHANGED << ast, fields, m_currentFunction >>
  BY DEF VisitDeclaration, Doing
<1>2. d \in DOMAIN ast /\ IsTree(ast) /\ IsProgram(ast) /\ Top \in TaskOf(ast) /\ Top = Declaration(d)
  BY <1>1, TopIs, TopTyped
<1>3. /\ es \in Seq(ErrorOf(ast))
      /\ es = << >> <=> ~ (ast[d].name = "main" /\ d # LastKid(ast, 1))
  <2>1. "earlyMain" \in Messages
    BY DEF Messages
  <2>2. QED
    BY <1>2, <2>1, WhenNothing
<1>4. es = << >> <=> Holds(ast, referent, Top)
  <2>1. Holds(ast, referent, Declaration(d)) <=> (ast[d].name = "main" => d = LastKid(ast, 1))
    BY HoldsCases
  <2>2. QED
    BY <1>2, <1>3, <2>1
<1>5. Judged
  BY <1>1, <1>3, <1>4, JudgedBy DEF Adds
<1>6. \E n \in DOMAIN ast : Top \in Judges(ast, n)
  <2>1. PICK i \in 1 .. Len(ast[1].kids) : d = Kid(ast, 1, i)
    BY <1>1, <1>2 DEF TaskOf
  <2>2. 1 \in DOMAIN ast /\ ast[1].kind = "Program"
    BY <1>2, RootShape DEF IsProgram
  <2>3. Top \in Judges(ast, 1)
    BY <1>2, <2>1, <2>2, JudgesThere
  <2>4. QED
    BY <2>2, <2>3
<1> PICK tasks : tasks = << Visit(d) >>
  OBVIOUS
<1>7. tasks \in Seq({Visit(d)}) /\ tasks # << >> /\ Scheduled(tasks)
  <2>1. \A a \in 1 .. Len(tasks) : tasks[a] = Visit(d)
    OBVIOUS
  <2>2. Visit(d).op # "finish"
    BY DEF Visit
  <2>3. QED
    BY <2>1, <2>2 DEF Scheduled
<1>8. GoodStep /\ TypedRight
  BY <1>1, DeclarationVisited DEF TypedRight, fields
<1>9. Continue(tasks)
  BY <1>1
<1>10. QED
  BY <1>5, <1>6, <1>7, <1>8, <1>9, VerdictKept

LEMMA ProgramEndJudged ==
  ASSUME IInv, Verdict, FinishProgram
  PROVE  Verdict'
<1> PICK es : es = When(ast[LastKid(ast, 1)].name # "main", "missingMain", 0)
  OBVIOUS
<1> PICK n : n = Top.node
  OBVIOUS
<1>1. /\ stack # << >> /\ Top.op = "finish" /\ ast[n].kind = "Program"
      /\ addErrors(es) /\ Continue(<< >>)
      /\ UNCHANGED << ast, fields, m_currentFunction >>
  BY DEF FinishProgram, Doing
<1>2. IsTree(ast)
  BY <1>1, TopTyped
<1>3. es \in Seq(ErrorOf(ast)) /\ (es = << >> <=> ast[LastKid(ast, 1)].name = "main")
  <2>1. "missingMain" \in Messages
    BY DEF Messages
  <2>2. QED
    BY <1>2, <2>1, WhenNothing
<1>4. es = << >> <=> FinishHolds(ast, TypesOf(ast, referent), n)
  BY <1>1, <1>3 DEF FinishHolds
<1>5. GoodStep /\ TypedRight /\ Adds(es)
  BY <1>1, ProgramFinished DEF TypedRight, fields, Adds
<1>6. QED
  BY <1>1, <1>3, <1>4, <1>5, EndKept

LEMMA VariableJudged ==
  ASSUME IInv, Verdict, VisitVariable
  PROVE  Verdict'
<1> PICK d : d = Top.node
  OBVIOUS
<1>1. PICK message \in Messages :
        /\ stack # << >> /\ Top.op = "visit" /\ ast[d].kind \in {"Variable", "Parameter", "Array"}
        /\ addErrors(When(ast[d].type.base = "Void", message, d) \o
                     When(ast[d].kind = "Array" /\ ast[d].size <= 0,
                          "nonPositiveArraySize", d))
        /\ Continue(<< >>) /\ UNCHANGED << ast, fields, m_currentFunction >>
  <2>1. (IF ast[d].kind = "Parameter" THEN "voidParam" ELSE "voidVariable") \in Messages
    BY DEF Messages
  <2>2. QED
    BY <2>1 DEF VisitVariable, Visiting, Doing
<1> PICK es : es = When(ast[d].type.base = "Void", message, d) \o
                   When(ast[d].kind = "Array" /\ ast[d].size <= 0, "nonPositiveArraySize", d)
  OBVIOUS
<1>2. IsTree(ast) /\ d \in DOMAIN ast
  BY <1>1, TopTyped
<1>3. /\ es \in Seq(ErrorOf(ast))
      /\ es = << >> <=> /\ ast[d].type.base # "Void"
                        /\ ~ (ast[d].kind = "Array" /\ ast[d].size <= 0)
  <2>1. "nonPositiveArraySize" \in Messages
    BY DEF Messages
  <2>2. /\ When(ast[d].type.base = "Void", message, d) \in Seq(ErrorOf(ast))
        /\ When(ast[d].type.base = "Void", message, d) = << >> <=> ~ ast[d].type.base = "Void"
    BY <1>2, WhenNothing
  <2>3. /\ When(ast[d].kind = "Array" /\ ast[d].size <= 0, "nonPositiveArraySize", d)
             \in Seq(ErrorOf(ast))
        /\ When(ast[d].kind = "Array" /\ ast[d].size <= 0, "nonPositiveArraySize", d) = << >>
             <=> ~ (ast[d].kind = "Array" /\ ast[d].size <= 0)
    BY <1>2, <2>1, WhenNothing
  <2>4. QED
    BY <2>2, <2>3, NothingTwice
<1>4. es = << >> <=> VisitHolds(ast, referent, d)
  <2>1. ast[d].kind = "Array" => ast[d].size \in Int
    BY <1>2 DEF IsTree
  <2>2. ast[d].kind = "Array" => (~ ast[d].size <= 0 <=> ast[d].size > 0)
    BY <2>1
  <2>3. VisitHolds(ast, referent, d) <=> WellDeclared(ast, d)
    BY <1>1 DEF VisitHolds
  <2>4. WellDeclared(ast, d) <=> /\ ast[d].type.base # "Void"
                                 /\ ast[d].kind = "Array" => ast[d].size > 0
    BY <1>1 DEF WellDeclared
  <2>5. QED
    BY <1>3, <2>2, <2>3, <2>4
<1>5. GoodStep /\ TypedRight /\ Adds(es)
  BY <1>1, VariableVisited DEF TypedRight, fields, Adds
<1>6. ast[d].kind \in {"Variable", "Parameter", "Array", "VariableExpr"} \cup LiteralKinds
  BY <1>1
<1>7. QED
  BY <1>1, <1>3, <1>4, <1>5, <1>6, LeafKept

LEMMA FunctionVisitJudged ==
  ASSUME IInv, Verdict, VisitFunction
  PROVE  Verdict'
<1> PICK f : f = Top.node
  OBVIOUS
<1> PICK params : params = VisitAll(Parameters(ast, f))
  OBVIOUS
<1> PICK a : a = EnterBody(f)
  OBVIOUS
<1> PICK b : b = Visit(Body(ast, f))
  OBVIOUS
<1>1. /\ stack # << >> /\ Top.op = "visit" /\ ast[f].kind = "Function"
      /\ Continue(params \o << a, b, Finish(f) >>)
      /\ type' = type /\ m_errors' = m_errors
  BY DEF VisitFunction, Visiting, Doing, fields
<1>2. f \in DOMAIN ast /\ IsTree(ast)
  BY <1>1, TopTyped
<1>3. PICK l \in Nat : /\ params \in Seq({Visit(m) : m \in DeclsOf(ast)}) /\ Len(params) = l
                       /\ \A i \in 1 .. l : params[i].op = "visit"
  <2>1. Parameters(ast, f) \in Seq(DeclsOf(ast))
    BY <1>1, <1>2, FunctionParts
  <2>2. PICK l \in Nat : DOMAIN Parameters(ast, f) = 1 .. l
    BY <2>1
  <2>3. params = [i \in 1 .. l |-> Visit(Parameters(ast, f)[i])]
    BY <2>2 DEF VisitAll
  <2>4. params \in Seq({Visit(m) : m \in DeclsOf(ast)}) /\ Len(params) = l
    BY <2>1, <2>2, <2>3
  <2>5. \A i \in 1 .. l : params[i].op = "visit"
    BY <2>3 DEF Visit
  <2>6. QED
    BY <2>4, <2>5
<1>4. PICK S : params \in Seq(S) /\ a \in S /\ b \in S /\ Finish(f) \in S
  <2> PICK T : T = {Visit(m) : m \in DeclsOf(ast)}
    OBVIOUS
  <2>1. params \in Seq(T \cup {a, b, Finish(f)})
    BY <1>3
  <2>2. QED
    BY <2>1
<1> PICK list : list = params \o << a, b >>
  OBVIOUS
<1>5. /\ list \in Seq(S)
      /\ \A i \in 1 .. Len(list) : list[i].op # "finish"
  <2>1. << a, b >> \in Seq(S) /\ Len(<< a, b >>) = 2
        /\ << a, b >>[1] = a /\ << a, b >>[2] = b
    BY <1>4
  <2> PICK pair : pair = << a, b >>
    OBVIOUS
  <2>2. /\ list \in Seq(S) /\ Len(list) = l + 2
        /\ \A i \in 1 .. l + 2 : list[i] = IF i <= l THEN params[i] ELSE pair[i - l]
    BY <1>3, <1>4, <2>1, ConcatProperties
  <2>3. \A i \in 1 .. l + 2 : i \in 1 .. l \/ (~ i <= l /\ i - l = 1) \/ (~ i <= l /\ i - l = 2)
    OBVIOUS
  <2>4. a.op # "finish" /\ b.op # "finish"
    BY DEF EnterBody, Visit
  <2>5. \A i \in 1 .. l : i <= l
    OBVIOUS
  <2>6. QED
    BY <1>3, <2>1, <2>2, <2>3, <2>4, <2>5
<1>6. params \o << a, b, Finish(f) >> = list \o << Finish(f) >>
  <2>1. << a, b >> \in Seq(S) /\ << Finish(f) >> \in Seq(S)
    BY <1>4
  <2>2. list \o << Finish(f) >> = params \o (<< a, b >> \o << Finish(f) >>)
    BY <1>4, <2>1, ConcatAssociative
  <2>3. << a, b >> \o << Finish(f) >> = << a, b, Finish(f) >>
    BY ThreeInARow
  <2>4. QED
    BY <2>2, <2>3
<1>7. \A k \in Judges(ast, f) : k \in {Visit(f), Finish(f)}
  BY <1>1, <1>2, JudgeCases
<1>8. << >> \in Seq(ErrorOf(ast)) /\ Adds(<< >>) /\ VisitHolds(ast, referent, f)
  BY <1>1 DEF Adds, VisitHolds
<1>9. Continue(list \o << Finish(f) >>)
  BY <1>1, <1>6
<1>10. Descent(f, list, << >>)
  BY <1>1, <1>5, <1>7, <1>8, <1>9 DEF Descent
<1>11. QED
  BY <1>5, <1>10, FunctionVisited, DescentKept

LEMMA BodyJudged ==
  ASSUME IInv, Verdict, VisitBody
  PROVE  Verdict'
<1>1. /\ stack # << >> /\ Top.op = "body" /\ Continue(<< >>)
      /\ type' = type /\ m_errors' = m_errors
  BY DEF VisitBody, Doing, fields
<1>2. Holds(ast, referent, Top)
  <2>1. Top = EnterBody(Top.node)
    BY <1>1, TopIs
  <2>2. QED
    BY <2>1, HoldsCases
<1>3. Judged /\ TypedRight
  BY <1>1, <1>2 DEF Judged, TypedRight
<1>4. Concluded
  <2>1. Top \in TaskOf(ast)
    BY <1>1, TopTyped
  <2>2. Owes(ast)[Top] = {}
    BY <1>1, <2>1 DEF Owes
  <2>3. QED
    BY <2>2 DEF Concluded
<1>5. << >> \in Seq({}) /\ Scheduled(<< >>)
  BY DEF Scheduled
<1>6. QED
  BY <1>1, <1>2, <1>3, <1>4, <1>5, BodyEntered, VerdictKept

LEMMA FunctionEndJudged ==
  ASSUME IInv, Verdict, FinishFunction
  PROVE  Verdict'
<1> PICK f : f = Top.node
  OBVIOUS
<1> PICK es : es = When(~ always_returns[Body(ast, f)] /\ ast[f].type # Void,
                        "nonReturningFunction", f)
  OBVIOUS
<1>1. /\ stack # << >> /\ Top.op = "finish" /\ ast[f].kind = "Function"
      /\ addErrors(es) /\ Continue(<< >>) /\ type' = type
  BY DEF FinishFunction, Doing, fields
<1>2. f \in DOMAIN ast /\ IsTree(ast)
  BY <1>1, TopTyped
<1>3. /\ es \in Seq(ErrorOf(ast))
      /\ es = << >> <=> ~ (~ always_returns[Body(ast, f)] /\ ast[f].type # Void)
  <2>1. "nonReturningFunction" \in Messages
    BY DEF Messages
  <2>2. QED
    BY <1>2, <2>1, WhenNothing
<1>4. always_returns[Body(ast, f)] = ("falls" \notin OutcomesOf(ast)[Body(ast, f)])
  <2>1. f \in FunctionsOf(ast)
    BY <1>1, <1>2 DEF FunctionsOf, NodesOf
  <2>2. /\ Len(ast[f].kids) \in 1 .. Len(ast[f].kids)
        /\ Body(ast, f) = Kid(ast, f, Len(ast[f].kids))
        /\ Body(ast, f) \in NodesOf(ast, StatementKinds)
    BY <1>2, <2>1, BodyShape DEF NodesOf, StatementKinds
  <2>3. QED
    BY <1>1, <2>2, KidFound
<1>5. es = << >> <=> FinishHolds(ast, TypesOf(ast, referent), f)
  <2>1. FinishHolds(ast, TypesOf(ast, referent), f) <=> WellDeclared(ast, f)
    BY <1>1 DEF FinishHolds
  <2>2. WellDeclared(ast, f) <=>
          ast[f].type = Void \/ "falls" \notin OutcomesOf(ast)[Body(ast, f)]
    BY <1>1 DEF WellDeclared
  <2>3. QED
    BY <1>3, <1>4, <2>1, <2>2
<1>6. TypedRight /\ Adds(es)
  BY <1>1 DEF TypedRight, Adds
<1>7. QED
  BY <1>1, <1>3, <1>5, <1>6, FunctionFinished, EndKept

(***************************************************************************)
(* The statements.                                                         *)
(***************************************************************************)

\* A visit that goes on with all of the children.
LEMMA AllKept ==
  ASSUME IInv, Verdict, GoodStep, Top.op = "visit", NEW n, n = Top.node, type' = type,
         Continue(VisitAll(Kids(ast, n)) \o << Finish(n) >>),
         ast[n].kind \notin {"Program", "If", "While", "Assignment"},
         ast[n].kind = "Call" => m_errors' # << >>,
         NEW es \in Seq(ErrorOf(ast)), Adds(es),
         m_errors = << >> => (es = << >> <=> VisitHolds(ast, referent, n))
  PROVE  Verdict'
<1>1. stack # << >>
  BY DEF GoodStep
<1>2. n \in DOMAIN ast /\ IsTree(ast)
  BY <1>1, TopTyped
<1> PICK list : list = VisitAll(Kids(ast, n))
  OBVIOUS
<1>3. PICK S : list \in Seq(S) /\ \A i \in 1 .. Len(list) : list[i].op # "finish"
  <2>1. Kids(ast, n) \in Seq(DOMAIN ast)
    BY <1>2, KidsSequence
  <2>2. PICK l \in Nat : DOMAIN Kids(ast, n) = 1 .. l
    BY <2>1
  <2>3. list = [i \in 1 .. l |-> Visit(Kids(ast, n)[i])]
    BY <2>2 DEF VisitAll
  <2>4. list \in Seq({Visit(m) : m \in DOMAIN ast}) /\ Len(list) = l
    BY <2>1, <2>2, <2>3
  <2>5. \A i \in 1 .. l : list[i].op # "finish"
    BY <2>3 DEF Visit
  <2>6. QED
    BY <2>4, <2>5
<1>4. m_errors' = << >> => \A k \in Judges(ast, n) : k \in {Visit(n), Finish(n)}
  BY <1>2, JudgeCases
<1>5. Continue(list \o << Finish(n) >>)
  OBVIOUS
<1>6. Descent(n, list, es)
  BY <1>3, <1>4, <1>5 DEF Descent
<1>7. QED
  BY <1>3, <1>6, DescentKept

LEMMA StatementVisitJudged ==
  ASSUME IInv, Verdict, VisitStatement
  PROVE  Verdict'
<1> PICK n : n = Top.node
  OBVIOUS
<1>1. /\ stack # << >> /\ Top.op = "visit" /\ ast[n].kind \in {"Compound", "Return", "ExpressionStmt"}
      /\ Continue(VisitAll(Kids(ast, n)) \o << Finish(n) >>)
      /\ type' = type /\ m_errors' = m_errors
  BY DEF VisitStatement, Visiting, Doing, fields
<1>2. << >> \in Seq(ErrorOf(ast)) /\ Adds(<< >>) /\ VisitHolds(ast, referent, n)
  BY <1>1 DEF Adds, VisitHolds
<1>3. GoodStep
  BY NextIsGood DEF Next
<1>4. ast[n].kind \notin {"Program", "If", "While", "Assignment", "Call"}
  BY <1>1
<1>5. QED
  BY <1>1, <1>2, <1>3, <1>4, AllKept

LEMMA ConditionalVisitJudged ==
  ASSUME IInv, Verdict, VisitConditional
  PROVE  Verdict'
<1> PICK n : n = Top.node
  OBVIOUS
<1> PICK kids : kids = Kids(ast, n)
  OBVIOUS
<1> PICK rest : rest = VisitAll(Tail(kids))
  OBVIOUS
<1> PICK first : first = Visit(Head(kids))
  OBVIOUS
<1> PICK begun : begun = << first, Check(n) >>
  OBVIOUS
<1>1. /\ stack # << >> /\ Top.op = "visit" /\ ast[n].kind \in {"If", "While"}
      /\ Continue((begun \o rest) \o << Finish(n) >>)
      /\ type' = type /\ m_errors' = m_errors
  BY DEF VisitConditional, Visiting, Doing, fields
<1>2. n \in DOMAIN ast /\ IsTree(ast)
  BY <1>1, TopTyped
<1>3. PICK l \in Nat : /\ rest \in Seq({Visit(m) : m \in DOMAIN ast}) /\ Len(rest) = l
                       /\ \A i \in 1 .. l : rest[i].op = "visit"
  <2>1. kids \in Seq(DOMAIN ast) /\ Len(kids) = Len(ast[n].kids) /\ Len(ast[n].kids) # 0
    BY <1>1, <1>2, KidsSequence, KidCounts
  <2>2. Tail(kids) \in Seq(DOMAIN ast)
    <3>1. kids # << >>
      BY <2>1
    <3>2. QED
      BY <2>1, <3>1, HeadTailProperties
  <2> PICK tail : tail = Tail(kids)
    OBVIOUS
  <2>3. PICK l \in Nat : DOMAIN tail = 1 .. l /\ tail \in Seq(DOMAIN ast)
    BY <2>2
  <2>4. rest = [i \in 1 .. l |-> Visit(tail[i])]
    BY <2>3 DEF VisitAll
  <2>5. rest \in Seq({Visit(m) : m \in DOMAIN ast}) /\ Len(rest) = l
    BY <2>3, <2>4
  <2>6. \A i \in 1 .. l : rest[i].op = "visit"
    BY <2>4 DEF Visit
  <2>7. QED
    BY <2>5, <2>6
<1>4. PICK S : rest \in Seq(S) /\ first \in S /\ Check(n) \in S
  <2> PICK T : T = {Visit(m) : m \in DOMAIN ast}
    OBVIOUS
  <2>1. rest \in Seq(T \cup {first, Check(n)})
    BY <1>3
  <2>2. QED
    BY <2>1
<1> PICK list : list = begun \o rest
  OBVIOUS
<1>5. /\ list \in Seq(S) /\ 2 \in 1 .. Len(list) /\ list[2] = Check(n)
      /\ \A i \in 1 .. Len(list) : list[i].op # "finish"
  <2>1. begun \in Seq(S) /\ Len(begun) = 2 /\ begun[1] = first /\ begun[2] = Check(n)
    BY <1>4
  <2>2. /\ list \in Seq(S) /\ Len(list) = 2 + l
        /\ \A i \in 1 .. 2 + l : list[i] = IF i <= 2 THEN begun[i] ELSE rest[i - 2]
    BY <1>3, <1>4, <2>1, ConcatProperties
  <2>3. \A i \in 1 .. 2 + l : i = 1 \/ i = 2 \/ (~ i <= 2 /\ i - 2 \in 1 .. l)
    OBVIOUS
  <2>4. first.op # "finish" /\ Check(n).op # "finish"
    BY DEF Check, Visit
  <2>5. 1 <= 2 /\ 2 <= 2 /\ 2 \in 1 .. 2 + l
    OBVIOUS
  <2>6. QED
    BY <1>3, <2>1, <2>2, <2>3, <2>4, <2>5
<1>6. \A k \in Judges(ast, n) :
        k \in {Visit(n), Finish(n)} \/ \E b \in 1 .. Len(list) : list[b] = k
  <2>1. \A k \in Judges(ast, n) : k \in {Visit(n), Finish(n)} \/ k = Check(n)
    BY <1>1, <1>2, JudgeCases
  <2>2. QED
    BY <1>5, <2>1
<1>7. << >> \in Seq(ErrorOf(ast)) /\ Adds(<< >>) /\ VisitHolds(ast, referent, n)
  BY <1>1 DEF Adds, VisitHolds
<1>8. Continue(list \o << Finish(n) >>)
  BY <1>1
<1>9. Descent(n, list, << >>)
  BY <1>1, <1>5, <1>6, <1>7, <1>8 DEF Descent
<1>10. QED
  BY <1>5, <1>9, ConditionalVisited, DescentKept

LEMMA ConditionJudged ==
  ASSUME IInv, Verdict, CheckCondition
  PROVE  Verdict'
<1> PICK n : n = Top.node
  OBVIOUS
<1> PICK c : c = Kid(ast, n, 1)
  OBVIOUS
<1> PICK es : es = When(type[c] # Bool, "invalidCondition", c)
  OBVIOUS
<1>1. /\ stack # << >> /\ Top.op = "check" /\ ast[n].kind \in {"If", "While"}
      /\ addErrors(es) /\ Continue(<< >>) /\ type' = type
  BY DEF CheckCondition, Doing, fields
<1>2. n \in DOMAIN ast /\ IsTree(ast) /\ Top = Check(n) /\ Top \in TaskOf(ast)
  BY <1>1, TopTyped, TopIs
<1>3. c \in NodesOf(ast, ExpressionKinds) /\ c \in DOMAIN ast
  <2>1. Len(ast[n].kids) \in {2, 3}
    BY <1>1, <1>2, KidCounts, Zenon
  <2>2. \A l \in {2, 3} : 1 \in 1 .. l
    OBVIOUS
  <2>3. 1 \in 1 .. Len(ast[n].kids)
    BY <2>1, <2>2, Zenon
  <2>4. QED
    BY <1>1, <1>2, <2>3, Operands DEF NodesOf
<1>4. es \in Seq(ErrorOf(ast)) /\ (es = << >> <=> type[c] = Bool)
  <2>1. "invalidCondition" \in Messages
    BY DEF Messages
  <2>2. QED
    BY <1>2, <1>3, <2>1, WhenNothing
<1>5. ASSUME m_errors = << >> PROVE es = << >> <=> Holds(ast, referent, Top)
  <2>1. c \in Uses(ast)[Top]
    BY <1>1, <1>2 DEF Uses
  <2>2. type[c] = TypesOf(ast, referent)[c]
    BY <1>1, <1>3, <1>5, <2>1, RightType
  <2>3. Holds(ast, referent, Check(n)) <=> CheckHolds(ast, TypesOf(ast, referent), n)
    BY HoldsCases
  <2>4. CheckHolds(ast, TypesOf(ast, referent), n) <=> TypesOf(ast, referent)[c] = Bool
    BY <1>1 DEF CheckHolds
  <2>5. QED
    BY <1>2, <1>4, <2>2, <2>3, <2>4
<1>6. GoodStep /\ Adds(es)
  BY <1>1, CheckSteps DEF Adds
<1>7. Top.op \in {"check", "argument"}
  BY <1>1
<1>8. QED
  BY <1>1, <1>4, <1>5, <1>6, <1>7, CheckKept

\* The ends that judge nothing and find no type.
LEMMA PlainEnd ==
  ASSUME IInv, Verdict, GoodStep, Top.op = "finish", Continue(<< >>),
         ast[Top.node].kind \in {"Compound", "If", "While", "ExpressionStmt"},
         type' = type, m_errors' = m_errors
  PROVE  Verdict'
<1>1. FinishHolds(ast, TypesOf(ast, referent), Top.node)
  BY DEF FinishHolds
<1>2. << >> \in Seq(ErrorOf(ast)) /\ Adds(<< >>) /\ TypedRight
  BY DEF Adds, TypedRight
<1>3. QED
  BY <1>1, <1>2, EndKept

LEMMA StatementEndsJudged ==
  ASSUME IInv, Verdict, FinishCompound \/ FinishConditional \/ FinishExpressionStmt
  PROVE  Verdict'
<1>1. /\ Top.op = "finish" /\ Continue(<< >>)
      /\ ast[Top.node].kind \in {"Compound", "If", "While", "ExpressionStmt"}
      /\ type' = type /\ m_errors' = m_errors
  BY DEF FinishCompound, FinishConditional, FinishExpressionStmt, Doing, Returns
<1>2. GoodStep
  BY CompoundFinished, ConditionalFinished, ExpressionStmtFinished
<1>3. QED
  BY <1>1, <1>2, PlainEnd

LEMMA ReturnJudged ==
  ASSUME IInv, Verdict, FinishReturn
  PROVE  Verdict'
<1> PICK n : n = Top.node
  OBVIOUS
<1> PICK returned : returned = IF ast[n].kids = << >> THEN Void ELSE type[Kid(ast, n, 1)]
  OBVIOUS
<1> PICK es : es = When(ast[m_currentFunction].type # returned, "badReturn", n)
  OBVIOUS
<1>1. /\ stack # << >> /\ Top.op = "finish" /\ ast[n].kind = "Return"
      /\ addErrors(es) /\ Continue(<< >>) /\ type' = type
  BY DEF FinishReturn, Doing, Returns
<1>2. /\ n \in DOMAIN ast /\ IsTree(ast) /\ Top \in TaskOf(ast)
      /\ Inside(ast)[Top] = m_currentFunction
  BY <1>1, TopTyped
<1>3. es \in Seq(ErrorOf(ast)) /\ (es = << >> <=> ast[m_currentFunction].type = returned)
  <2>1. "badReturn" \in Messages
    BY DEF Messages
  <2>2. QED
    BY <1>2, <2>1, WhenNothing
<1>4. m_currentFunction = EnclosingFunction(ast, n)
  BY <1>1, <1>2 DEF Inside
<1>5. ASSUME m_errors = << >>
      PROVE  es = << >> <=> FinishHolds(ast, TypesOf(ast, referent), n)
  <2> PICK ty : ty = TypesOf(ast, referent)
    OBVIOUS
  <2>1. ast[n].kids # << >> => type[Kid(ast, n, 1)] = ty[Kid(ast, n, 1)]
    <3>1. SUFFICES ASSUME ast[n].kids # << >> PROVE type[Kid(ast, n, 1)] = ty[Kid(ast, n, 1)]
      OBVIOUS
    <3>2. ast[n].kids \in Seq(Nat \ {0})
      BY <1>2, NodeShape
    <3>3. 1 \in 1 .. Len(ast[n].kids)
      BY <3>1, <3>2
    <3>4. QED
      BY <1>1, <1>5, <3>3, RightKid
  <2>2. FinishHolds(ast, ty, n) <=>
          ast[EnclosingFunction(ast, n)].type =
            IF ast[n].kids = << >> THEN Void ELSE ty[Kid(ast, n, 1)]
    BY <1>1 DEF FinishHolds
  <2>3. QED
    BY <1>3, <1>4, <2>1, <2>2
<1>6. TypedRight /\ Adds(es)
  BY <1>1 DEF TypedRight, Adds
<1>7. QED
  BY <1>1, <1>3, <1>5, <1>6, ReturnFinished, EndKept

(***************************************************************************)
(* The expressions.                                                        *)
(***************************************************************************)
LEMMA TypedEnd ==
  ASSUME IInv, Verdict, GoodStep, Top.op = "finish", NEW n, n = Top.node,
         NEW found, HasType(n, found),
         NEW es \in Seq(ErrorOf(ast)), Adds(es),
         m_errors = << >> => (es = << >> <=> FinishHolds(ast, TypesOf(ast, referent), n)),
         m_errors = << >> /\ FinishHolds(ast, TypesOf(ast, referent), n) =>
           found = TypesOf(ast, referent)[n]
  PROVE  Verdict'
<1>1. stack # << >>
  BY DEF GoodStep
<1>2. Top = Finish(n)
  BY <1>1, TopIs
<1>3. Holds(ast, referent, Top) <=> FinishHolds(ast, TypesOf(ast, referent), n)
  BY <1>2, HoldsCases
<1>4. Judged
  BY <1>3, JudgedBy
<1>5. TypedRight /\ Continue(<< >>)
  BY <1>3, <1>4 DEF Judged, TypedRight, HasType
<1>6. QED
  BY <1>5, EndKept

LEMMA TypedLeaf ==
  ASSUME IInv, Verdict, GoodStep, Top.op = "visit", NEW n, n = Top.node,
         ast[n].kind \in {"VariableExpr"} \cup LiteralKinds,
         NEW found, HasType(n, found),
         NEW es \in Seq(ErrorOf(ast)), Adds(es),
         m_errors = << >> => (es = << >> <=> VisitHolds(ast, referent, n)),
         VisitHolds(ast, referent, n) => found = TypesOf(ast, referent)[n]
  PROVE  Verdict'
<1>1. stack # << >>
  BY DEF GoodStep
<1>2. Top = Visit(n)
  BY <1>1, TopIs
<1>3. Holds(ast, referent, Top) <=> VisitHolds(ast, referent, n)
  BY <1>2, HoldsCases
<1>4. Judged
  BY <1>3, JudgedBy
<1>5. TypedRight /\ Continue(<< >>)
  BY <1>3, <1>4 DEF Judged, TypedRight, HasType
<1>6. ast[n].kind \in {"Variable", "Parameter", "Array", "VariableExpr"} \cup LiteralKinds
  OBVIOUS
<1>7. QED
  BY <1>5, <1>6, LeafKept

LEMMA AssignmentVisitJudged ==
  ASSUME IInv, Verdict, VisitAssignment
  PROVE  Verdict'
<1> PICK n : n = Top.node
  OBVIOUS
<1> PICK a : a = Visit(Kid(ast, n, 1))
  OBVIOUS
<1> PICK c : c = Visit(Kid(ast, n, 2))
  OBVIOUS
<1> PICK list : list = << a, Check(n), c >>
  OBVIOUS
<1>1. /\ stack # << >> /\ Top.op = "visit" /\ ast[n].kind = "Assignment"
      /\ Continue(<< a, Check(n), c, Finish(n) >>)
      /\ type' = type /\ m_errors' = m_errors
  BY DEF VisitAssignment, Visiting, Doing, fields
<1>2. n \in DOMAIN ast
  BY <1>1, TopTyped
<1>3. /\ list \in Seq({a, Check(n), c}) /\ Len(list) = 3
      /\ list[1] = a /\ list[2] = Check(n) /\ list[3] = c
  OBVIOUS
<1>4. \A i \in 1 .. Len(list) : list[i].op # "finish"
  <2>1. \A i \in 1 .. 3 : i = 1 \/ i = 2 \/ i = 3
    OBVIOUS
  <2>2. a.op # "finish" /\ Check(n).op # "finish" /\ c.op # "finish"
    BY DEF Visit, Check
  <2>3. QED
    BY <1>3, <2>1, <2>2
<1>5. \A k \in Judges(ast, n) :
        k \in {Visit(n), Finish(n)} \/ \E b \in 1 .. Len(list) : list[b] = k
  <2>1. \A k \in Judges(ast, n) : k \in {Visit(n), Finish(n)} \/ k = Check(n)
    BY <1>1, <1>2, JudgeCases
  <2>2. 2 \in 1 .. Len(list)
    BY <1>3
  <2>3. QED
    BY <1>3, <2>1, <2>2
<1>6. << >> \in Seq(ErrorOf(ast)) /\ Adds(<< >>) /\ VisitHolds(ast, referent, n)
  BY <1>1 DEF Adds, VisitHolds
<1>7. Continue(list \o << Finish(n) >>)
  <2>1. list \o << Finish(n) >> = << a, Check(n), c, Finish(n) >>
    BY FourInARow
  <2>2. QED
    BY <1>1, <2>1
<1>8. Descent(n, list, << >>)
  BY <1>1, <1>4, <1>5, <1>6, <1>7 DEF Descent
<1>9. QED
  BY <1>3, <1>8, AssignmentVisited, DescentKept

LEMMA TargetJudged ==
  ASSUME IInv, Verdict, CheckTarget
  PROVE  Verdict'
<1> PICK n : n = Top.node
  OBVIOUS
<1> PICK c : c = Kid(ast, n, 1)
  OBVIOUS
<1> PICK es : es = When(type[c].kind = "Array", "arrayAssignment", n)
  OBVIOUS
<1>1. /\ stack # << >> /\ Top.op = "check" /\ ast[n].kind = "Assignment"
      /\ addErrors(es) /\ Continue(<< >>) /\ type' = type
  BY DEF CheckTarget, Doing, fields
<1>2. n \in DOMAIN ast /\ IsTree(ast) /\ Top = Check(n) /\ Top \in TaskOf(ast)
  BY <1>1, TopTyped, TopIs
<1>3. c \in NodesOf(ast, ExpressionKinds)
  <2>1. Len(ast[n].kids) = 2
    BY <1>1, <1>2, KidCounts
  <2>2. 1 \in 1 .. Len(ast[n].kids)
    BY <2>1
  <2>3. QED
    BY <1>1, <1>2, <2>2, Operands DEF ExpressionKinds
<1>4. es \in Seq(ErrorOf(ast)) /\ (es = << >> <=> type[c].kind # "Array")
  <2>1. "arrayAssignment" \in Messages
    BY DEF Messages
  <2>2. QED
    BY <1>2, <2>1, WhenNothing
<1>5. ASSUME m_errors = << >> PROVE es = << >> <=> Holds(ast, referent, Top)
  <2>1. c \in Uses(ast)[Top]
    BY <1>1, <1>2 DEF Uses
  <2>2. type[c] = TypesOf(ast, referent)[c]
    BY <1>1, <1>3, <1>5, <2>1, RightType
  <2>3. Holds(ast, referent, Check(n)) <=> CheckHolds(ast, TypesOf(ast, referent), n)
    BY HoldsCases
  <2>4. CheckHolds(ast, TypesOf(ast, referent), n) <=> TypesOf(ast, referent)[c].kind # "Array"
    BY <1>1 DEF CheckHolds
  <2>5. QED
    BY <1>2, <1>4, <2>2, <2>3, <2>4
<1>6. GoodStep /\ Adds(es)
  BY <1>1, CheckSteps DEF Adds
<1>7. Top.op \in {"check", "argument"}
  BY <1>1
<1>8. QED
  BY <1>1, <1>4, <1>5, <1>6, <1>7, CheckKept

LEMMA AssignmentEndJudged ==
  ASSUME IInv, Verdict, FinishAssignment
  PROVE  Verdict'
<1> PICK n : n = Top.node
  OBVIOUS
<1> PICK a, b : a = Kid(ast, n, 1) /\ b = Kid(ast, n, 2)
  OBVIOUS
<1> PICK ty : ty = TypesOf(ast, referent)
  OBVIOUS
<1> PICK es : es = When(type[a] # type[b], "mismatchAssignment", n)
  OBVIOUS
<1>1. /\ stack # << >> /\ Top.op = "finish" /\ ast[n].kind = "Assignment"
      /\ addErrors(es) /\ HasType(n, Void)
  BY DEF FinishAssignment, Doing
<1>2. n \in DOMAIN ast /\ IsTree(ast) /\ n \in NodesOf(ast, ExpressionKinds)
  BY <1>1, TopTyped DEF NodesOf, ExpressionKinds
<1>3. es \in Seq(ErrorOf(ast)) /\ (es = << >> <=> type[a] = type[b])
  <2>1. "mismatchAssignment" \in Messages
    BY DEF Messages
  <2>2. QED
    BY <1>2, <2>1, WhenNothing
<1>4. ASSUME m_errors = << >>
      PROVE  type[a] = ty[a] /\ type[b] = ty[b] /\ ty[a] \in Type
  <2>1. 1 \in 1 .. Len(ast[n].kids) /\ 2 \in 1 .. Len(ast[n].kids)
    BY <1>1, <1>2, ExpressionsInside
  <2>2. QED
    BY <1>1, <1>4, <2>1, RightKid DEF ExpressionKinds
<1>5. FinishHolds(ast, ty, n) <=> ty[a] = ty[b]
  BY <1>1 DEF FinishHolds
<1>6. ASSUME m_errors = << >>, FinishHolds(ast, ty, n) PROVE Void = ty[n]
  <2>1. ty[a].kind # "Array"
    <3>1. CheckHolds(ast, ty, n)
      BY <1>1, <1>6, OthersHold
    <3>2. QED
      BY <1>1, <3>1 DEF CheckHolds
  <2>2. ty[a].kind = "Primitive" /\ ty[a] = ty[b] /\ ty[a] \in Type
    BY <1>4, <1>5, <1>6, <2>1 DEF Type
  <2>3. TypedByKind(ast, referent, ty, n) /\ TypeOf(ast, referent, ty, n) = ty[n]
    BY <1>2, TypeByRules
  <2>4. TypeOf(ast, referent, ty, n) = Void
    BY <1>1, <2>2, <2>3 DEF TypedByKind
  <2>5. QED
    BY <2>3, <2>4
<1>7. Adds(es)
  BY <1>1 DEF Adds
<1>8. QED
  BY <1>1, <1>3, <1>4, <1>5, <1>6, <1>7, AssignmentFinished, TypedEnd

LEMMA VariableExprJudged ==
  ASSUME IInv, Verdict, VisitVariableExpr
  PROVE  Verdict'
<1> PICK n : n = Top.node
  OBVIOUS
<1> PICK decl : decl = Decl(ast, referent[n])
  OBVIOUS
<1> PICK es : es = When(decl.kind = "Function", "functionAsVariable", n)
  OBVIOUS
<1>1. /\ stack # << >> /\ Top.op = "visit" /\ ast[n].kind = "VariableExpr"
      /\ addErrors(es) /\ HasType(n, decl.type)
  BY DEF VisitVariableExpr, Visiting, Doing, IsFunction
<1>2. n \in DOMAIN ast /\ IsTree(ast) /\ n \in NodesOf(ast, ExpressionKinds)
  BY <1>1, TopTyped DEF NodesOf, ExpressionKinds
<1>3. es \in Seq(ErrorOf(ast)) /\ (es = << >> <=> decl.kind # "Function")
  <2>1. "functionAsVariable" \in Messages
    BY DEF Messages
  <2>2. QED
    BY <1>2, <2>1, WhenNothing
<1>4. VisitHolds(ast, referent, n) <=> decl.kind # "Function"
  BY <1>1 DEF VisitHolds
<1>5. ASSUME decl.kind # "Function" PROVE decl.type = TypesOf(ast, referent)[n]
  <2> PICK ty : ty = TypesOf(ast, referent)
    OBVIOUS
  <2>1. TypedByKind(ast, referent, ty, n) /\ TypeOf(ast, referent, ty, n) = ty[n]
    BY <1>2, TypeByRules
  <2>2. TypeOf(ast, referent, ty, n) = decl.type
    BY <1>1, <1>5, <2>1 DEF TypedByKind
  <2>3. QED
    BY <2>1, <2>2
<1>6. Adds(es)
  BY <1>1 DEF Adds
<1>7. ast[n].kind \in {"VariableExpr"} \cup LiteralKinds
  BY <1>1
<1>8. QED
  BY <1>1, <1>3, <1>4, <1>5, <1>6, <1>7, VariableExprVisited, TypedLeaf

LEMMA SubscriptVisitJudged ==
  ASSUME IInv, Verdict, VisitSubscript
  PROVE  Verdict'
<1> PICK n : n = Top.node
  OBVIOUS
<1> PICK decl : decl = Decl(ast, referent[n])
  OBVIOUS
<1> PICK a : a = Visit(Kid(ast, n, 1))
  OBVIOUS
<1> PICK es : es = When(decl.kind = "Function", "functionAsVariable", n) \o
                   When(decl.type.kind # "Array", "indexNonArray", n)
  OBVIOUS
<1>1. /\ stack # << >> /\ Top.op = "visit" /\ ast[n].kind = "Subscript"
      /\ addErrors(es) /\ Continue(<< a, Finish(n) >>) /\ type' = type
  BY DEF VisitSubscript, Visiting, Doing, IsFunction, fields
<1>2. n \in DOMAIN ast /\ IsTree(ast)
  BY <1>1, TopTyped
<1>3. /\ es \in Seq(ErrorOf(ast))
      /\ es = << >> <=> decl.kind # "Function" /\ decl.type.kind = "Array"
  <2>1. "functionAsVariable" \in Messages /\ "indexNonArray" \in Messages
    BY DEF Messages
  <2>2. /\ When(decl.kind = "Function", "functionAsVariable", n) \in Seq(ErrorOf(ast))
        /\ When(decl.kind = "Function", "functionAsVariable", n) = << >> <=>
             ~ decl.kind = "Function"
    BY <1>2, <2>1, WhenNothing
  <2>3. /\ When(decl.type.kind # "Array", "indexNonArray", n) \in Seq(ErrorOf(ast))
        /\ When(decl.type.kind # "Array", "indexNonArray", n) = << >> <=>
             ~ decl.type.kind # "Array"
    BY <1>2, <2>1, WhenNothing
  <2>4. QED
    BY <2>2, <2>3, NothingTwice
<1>4. VisitHolds(ast, referent, n) <=> decl.kind # "Function" /\ decl.type.kind = "Array"
  BY <1>1 DEF VisitHolds
<1> PICK list : list = << a >>
  OBVIOUS
<1>5. list \in Seq({a}) /\ \A i \in 1 .. Len(list) : list[i].op # "finish"
  <2>1. list \in Seq({a}) /\ \A i \in 1 .. Len(list) : list[i] = a
    OBVIOUS
  <2>2. a.op # "finish"
    BY DEF Visit
  <2>3. QED
    BY <2>1, <2>2
<1>6. \A k \in Judges(ast, n) : k \in {Visit(n), Finish(n)}
  BY <1>1, <1>2, JudgeCases
<1>7. Continue(list \o << Finish(n) >>)
  <2>1. list \o << Finish(n) >> = << a, Finish(n) >>
    BY TwoInARow
  <2>2. QED
    BY <1>1, <2>1
<1>8. Adds(es)
  BY <1>1 DEF Adds
<1>9. Descent(n, list, es)
  BY <1>1, <1>3, <1>4, <1>5, <1>6, <1>7, <1>8 DEF Descent
<1>10. QED
  BY <1>5, <1>9, SubscriptVisited, DescentKept

LEMMA SubscriptEndJudged ==
  ASSUME IInv, Verdict, FinishSubscript
  PROVE  Verdict'
<1> PICK n : n = Top.node
  OBVIOUS
<1> PICK a : a = Kid(ast, n, 1)
  OBVIOUS
<1> PICK ty : ty = TypesOf(ast, referent)
  OBVIOUS
<1> PICK decl : decl = Decl(ast, referent[n])
  OBVIOUS
<1> PICK found : found = Primitive(decl.type.base)
  OBVIOUS
<1> PICK es : es = When(type[a] # Int32, "badIndex", a)
  OBVIOUS
<1>1. /\ stack # << >> /\ Top.op = "finish" /\ ast[n].kind = "Subscript"
      /\ addErrors(es) /\ HasType(n, found)
  BY DEF FinishSubscript, Doing
<1>2. n \in DOMAIN ast /\ IsTree(ast) /\ n \in NodesOf(ast, ExpressionKinds)
  BY <1>1, TopTyped DEF NodesOf, ExpressionKinds
<1>3. 1 \in 1 .. Len(ast[n].kids) /\ a \in DOMAIN ast
  <2>1. 1 \in 1 .. Len(ast[n].kids)
    BY <1>1, <1>2, ExpressionsInside
  <2>2. QED
    BY <1>2, <2>1, NodeShape
<1>4. es \in Seq(ErrorOf(ast)) /\ (es = << >> <=> type[a] = Int32)
  <2>1. "badIndex" \in Messages
    BY DEF Messages
  <2>2. QED
    BY <1>2, <1>3, <2>1, WhenNothing
<1>5. m_errors = << >> => type[a] = ty[a]
  BY <1>1, <1>3, RightKid DEF ExpressionKinds
<1>6. FinishHolds(ast, ty, n) <=> ty[a] = Int32
  BY <1>1 DEF FinishHolds
<1>7. ASSUME m_errors = << >>, FinishHolds(ast, ty, n) PROVE found = ty[n]
  <2>1. decl.kind # "Function" /\ decl.type.kind = "Array"
    <3>1. VisitHolds(ast, referent, n)
      BY <1>1, <1>7, OthersHold
    <3>2. QED
      BY <1>1, <3>1 DEF VisitHolds
  <2>2. TypedByKind(ast, referent, ty, n) /\ TypeOf(ast, referent, ty, n) = ty[n]
    BY <1>2, TypeByRules
  <2>3. TypeOf(ast, referent, ty, n) = found
    BY <1>1, <1>6, <1>7, <2>1, <2>2 DEF TypedByKind
  <2>4. QED
    BY <2>2, <2>3
<1>8. Adds(es)
  BY <1>1 DEF Adds
<1>9. QED
  BY <1>1, <1>4, <1>5, <1>6, <1>7, <1>8, SubscriptFinished, TypedEnd

LEMMA CallVisitJudged ==
  ASSUME IInv, Verdict, VisitCall
  PROVE  Verdict'
<1> PICK n : n = Top.node
  OBVIOUS
<1> PICK args : args = Kids(ast, n)
  OBVIOUS
<1> PICK fits : fits <=> /\ IsFunction(referent[n])
                           /\ Len(ParameterTypes(ast, referent[n])) = Len(args)
  OBVIOUS
<1> PICK compared : compared = [k \in 1 .. 2 * Len(args) |->
                                  IF k % 2 = 1 THEN Visit(args[(k + 1) \div 2])
                                               ELSE Argument(n, (k + 1) \div 2)]
  OBVIOUS
<1>1. /\ stack # << >> /\ Top.op = "visit" /\ ast[n].kind = "Call" /\ type' = type
      /\ \/ /\ ~ fits
            /\ \E message \in Messages : addErrors(<< Error(message, n) >>)
            /\ Continue(VisitAll(args) \o << Finish(n) >>)
         \/ fits /\ Continue(compared \o << Finish(n) >>) /\ m_errors' = m_errors
  BY DEF VisitCall, Visiting, Doing, Messages, fields
<1>2. n \in DOMAIN ast /\ IsTree(ast)
  BY <1>1, TopTyped
<1> PICK l : l = Len(ast[n].kids)
  OBVIOUS
<1>3. l \in Nat /\ Len(args) = l
  BY <1>2, KidsSequence
<1>4. VisitHolds(ast, referent, n) <=> fits
  BY <1>1, <1>3 DEF VisitHolds, IsFunction
<1>5. GoodStep
  BY CallVisited
<1>6. CASE ~ fits
  <2>1. PICK message \in Messages : addErrors(<< Error(message, n) >>)
    BY <1>1, <1>6
  <2> PICK es : es = << Error(message, n) >>
    OBVIOUS
  <2>2. es \in Seq(ErrorOf(ast)) /\ es # << >> /\ Adds(es)
    <3>1. When(TRUE, message, n) = es
      BY DEF When
    <3>2. When(TRUE, message, n) \in Seq(ErrorOf(ast))
      BY <1>2, WhenTyped
    <3>3. es # << >>
      OBVIOUS
    <3>4. Adds(es)
      BY <2>1 DEF Adds
    <3>5. QED
      BY <3>1, <3>2, <3>3, <3>4
  <2>3. m_errors' # << >>
    <3>1. m_errors \in Seq(ErrorOf(ast)) /\ InOrder(m_errors)
      BY DEF IInv, ErrorsInv
    <3>2. m_errors' \in Seq(ErrorOf(ast)) /\ Len(m_errors') = Len(m_errors) + Len(es)
      BY <2>1, <2>2, <3>1, ErrorsAdded
    <3>3. Len(m_errors) \in Nat /\ Len(es) = 1
      BY <3>1
    <3>4. QED
      BY <3>2, <3>3
  <2>4. Continue(VisitAll(Kids(ast, n)) \o << Finish(n) >>)
    BY <1>1, <1>6
  <2>5. ast[n].kind \notin {"Program", "If", "While", "Assignment"}
    BY <1>1
  <2>6. QED
    BY <1>1, <1>4, <1>5, <1>6, <2>2, <2>3, <2>4, <2>5, AllKept
<1>7. CASE fits
  <2>1. PICK m \in Nat : m = 2 * l
    BY <1>3
  <2>2. \A k \in 1 .. m : compared[k] = IF k % 2 = 1 THEN Visit(args[(k + 1) \div 2])
                                                   ELSE Argument(n, (k + 1) \div 2)
    BY <1>3, <2>1
  <2>3. compared = [k \in 1 .. m |-> compared[k]]
    BY <1>3, <2>1
  <2>4. PICK S : compared \in Seq(S)
    <3>1. compared \in Seq({compared[k] : k \in 1 .. m})
      <4> PICK T : T = {compared[k] : k \in 1 .. m}
        OBVIOUS
      <4>1. \A k \in 1 .. m : compared[k] \in T
        OBVIOUS
      <4>2. QED
        BY <2>3, <4>1
    <3>2. QED
      BY <3>1
  <2>5. Len(compared) = m
    BY <2>3
  <2>6. \A k \in 1 .. m : compared[k].op # "finish"
    <3>1. (\A x : Visit(x).op # "finish") /\ (\A i : Argument(n, i).op # "finish")
      BY DEF Visit, Argument
    <3>2. QED
      BY <2>2, <3>1
  <2>7. \A k \in Judges(ast, n) :
          k \in {Visit(n), Finish(n)} \/ \E b \in 1 .. m : compared[b] = k
    <3>1. SUFFICES ASSUME NEW k \in Judges(ast, n), k \notin {Visit(n), Finish(n)}
                   PROVE  \E b \in 1 .. m : compared[b] = k
      OBVIOUS
    <3>2. PICK i \in 1 .. l : k = Argument(n, i)
      BY <1>1, <1>2, <3>1, JudgeCases
    <3>3. 2 * i \in 1 .. m /\ (2 * i) % 2 # 1 /\ (2 * i + 1) \div 2 = i
      <4>1. i \in Int /\ 1 <= i /\ i <= l
        BY <1>3
      <4>2. 2 * i \in 1 .. m
        BY <1>3, <2>1, <4>1
      <4>3. (2 * i) % 2 # 1
        BY <4>1
      <4>4. (2 * i + 1) \div 2 = i
        BY <4>1
      <4>5. QED
        BY <4>2, <4>3, <4>4
    <3>4. compared[2 * i] = k
      BY <2>2, <3>2, <3>3
    <3>5. QED
      BY <3>3, <3>4
  <2>8. << >> \in Seq(ErrorOf(ast)) /\ Adds(<< >>) /\ Continue(compared \o << Finish(n) >>)
    BY <1>1, <1>7 DEF Adds
  <2>9. Descent(n, compared, << >>)
    BY <1>1, <1>4, <1>7, <2>5, <2>6, <2>7, <2>8 DEF Descent
  <2>10. QED
    BY <1>5, <2>4, <2>9, DescentKept
<1>8. QED
  BY <1>6, <1>7

LEMMA ArgumentJudged ==
  ASSUME IInv, Verdict, CheckArgument
  PROVE  Verdict'
<1> PICK n, i : n = Top.node /\ i = Top.index
  OBVIOUS
<1> PICK c : c = Kid(ast, n, i)
  OBVIOUS
<1> PICK expected : expected = ParameterTypes(ast, referent[n])[i]
  OBVIOUS
<1> PICK es : es = When(type[c] # expected, "wrongArgumentType", c)
  OBVIOUS
<1>1. /\ stack # << >> /\ Top.op = "argument" /\ ast[n].kind = "Call"
      /\ addErrors(es) /\ Continue(<< >>) /\ type' = type
  BY DEF CheckArgument, Doing, fields
<1>2. n \in DOMAIN ast /\ IsTree(ast) /\ Top = Argument(n, i) /\ Top \in TaskOf(ast)
  BY <1>1, TopTyped, TopIs
<1>3. c \in NodesOf(ast, ExpressionKinds) /\ c \in DOMAIN ast
  <2>1. i \in 1 .. Len(ast[n].kids)
    BY <1>1, <1>2 DEF TaskOf
  <2>2. QED
    BY <1>1, <1>2, <2>1, Operands DEF ExpressionKinds, NodesOf
<1>4. es \in Seq(ErrorOf(ast)) /\ (es = << >> <=> type[c] = expected)
  <2>1. "wrongArgumentType" \in Messages
    BY DEF Messages
  <2>2. QED
    BY <1>2, <1>3, <2>1, WhenNothing
<1>5. ASSUME m_errors = << >> PROVE es = << >> <=> Holds(ast, referent, Top)
  <2>1. c \in Uses(ast)[Top]
    BY <1>1, <1>2 DEF Uses
  <2>2. type[c] = TypesOf(ast, referent)[c]
    BY <1>1, <1>3, <1>5, <2>1, RightType
  <2>3. Holds(ast, referent, Argument(n, i)) <=> TypesOf(ast, referent)[c] = expected
    BY ArgumentHolds
  <2>4. QED
    BY <1>2, <1>4, <2>2, <2>3
<1>6. GoodStep /\ Adds(es)
  BY <1>1, CheckSteps DEF Adds
<1>7. Top.op \in {"check", "argument"}
  BY <1>1
<1>8. QED
  BY <1>1, <1>4, <1>5, <1>6, <1>7, CheckKept

LEMMA CallEndJudged ==
  ASSUME IInv, Verdict, FinishCall
  PROVE  Verdict'
<1> PICK n : n = Top.node
  OBVIOUS
<1> PICK ty : ty = TypesOf(ast, referent)
  OBVIOUS
<1> PICK decl : decl = Decl(ast, referent[n])
  OBVIOUS
<1> PICK params : params = ParameterTypes(ast, referent[n])
  OBVIOUS
<1>1. /\ stack # << >> /\ Top.op = "finish" /\ ast[n].kind = "Call"
      /\ HasType(n, decl.type) /\ m_errors' = m_errors
  BY DEF FinishCall, Doing
<1>2. n \in DOMAIN ast /\ IsTree(ast) /\ n \in NodesOf(ast, ExpressionKinds)
  BY <1>1, TopTyped DEF NodesOf, ExpressionKinds
<1>3. << >> \in Seq(ErrorOf(ast)) /\ Adds(<< >>) /\ FinishHolds(ast, ty, n)
  BY <1>1 DEF Adds, FinishHolds
<1>4. ASSUME m_errors = << >> PROVE decl.type = ty[n]
  <2>1. decl.kind = "Function" /\ Len(params) = Len(ast[n].kids)
    <3>1. VisitHolds(ast, referent, n)
      BY <1>1, <1>4, OthersHold
    <3>2. QED
      BY <1>1, <3>1 DEF VisitHolds
  <2>2. \A i \in 1 .. Len(ast[n].kids) : ty[Kid(ast, n, i)] = params[i]
    BY <1>1, <1>4, OthersHold
  <2>3. DOMAIN ast[n].kids = 1 .. Len(ast[n].kids) /\ n \in UsesOf(ast)
    BY <1>1, <1>2, ExpressionsInside DEF UseKinds
  <2>4. params \in Seq(Type)
    BY <2>1, <2>3, LinkedFits DEF Linking
  <2>5. ArgumentTypes(ast, ty, n) = params
    <3>1. params = [i \in 1 .. Len(ast[n].kids) |-> params[i]]
      BY <2>1, <2>4
    <3>2. ArgumentTypes(ast, ty, n) = [i \in 1 .. Len(ast[n].kids) |-> ty[Kid(ast, n, i)]]
      BY <2>3 DEF ArgumentTypes
    <3>3. QED
      BY <2>2, <3>1, <3>2
  <2>6. TypedByKind(ast, referent, ty, n) /\ TypeOf(ast, referent, ty, n) = ty[n]
    BY <1>2, TypeByRules
  <2>7. TypeOf(ast, referent, ty, n) = decl.type
    BY <1>1, <2>1, <2>5, <2>6, Zenon DEF TypedByKind
  <2>8. QED
    BY <2>6, <2>7
<1>5. QED
  BY <1>1, <1>3, <1>4, CallFinished, TypedEnd

LEMMA OperationVisitJudged ==
  ASSUME IInv, Verdict, VisitOperation
  PROVE  Verdict'
<1> PICK n : n = Top.node
  OBVIOUS
<1>1. /\ stack # << >> /\ Top.op = "visit"
      /\ ast[n].kind \in {"ImplicitCast", "Additive", "Multiplicative", "Relational"}
      /\ Continue(VisitAll(Kids(ast, n)) \o << Finish(n) >>)
      /\ type' = type /\ m_errors' = m_errors
  BY DEF VisitOperation, Visiting, Doing, fields
<1>2. << >> \in Seq(ErrorOf(ast)) /\ Adds(<< >>) /\ VisitHolds(ast, referent, n)
  BY <1>1 DEF Adds, VisitHolds
<1>3. GoodStep
  BY NextIsGood DEF Next
<1>4. ast[n].kind \notin {"Program", "If", "While", "Assignment", "Call"}
  BY <1>1
<1>5. QED
  BY <1>1, <1>2, <1>3, <1>4, AllKept

LEMMA ImplicitCastJudged ==
  ASSUME IInv, Verdict, FinishImplicitCast
  PROVE  Verdict'
<1> PICK n : n = Top.node
  OBVIOUS
<1> PICK a : a = Kid(ast, n, 1)
  OBVIOUS
<1> PICK ty : ty = TypesOf(ast, referent)
  OBVIOUS
<1>1. /\ stack # << >> /\ Top.op = "finish" /\ ast[n].kind = "ImplicitCast"
      /\ HasType(n, type[a]) /\ m_errors' = m_errors
  BY DEF FinishImplicitCast, Doing
<1>2. n \in DOMAIN ast /\ IsTree(ast) /\ n \in NodesOf(ast, ExpressionKinds)
  BY <1>1, TopTyped DEF NodesOf, ExpressionKinds
<1>3. << >> \in Seq(ErrorOf(ast)) /\ Adds(<< >>) /\ FinishHolds(ast, ty, n)
  BY <1>1 DEF Adds, FinishHolds
<1>4. ASSUME m_errors = << >> PROVE type[a] = ty[n]
  <2>1. type[a] = ty[a]
    <3>1. 1 \in 1 .. Len(ast[n].kids)
      BY <1>1, <1>2, ExpressionsInside
    <3>2. QED
      BY <1>1, <1>4, <3>1, RightKid DEF ExpressionKinds
  <2>2. TypedByKind(ast, referent, ty, n) /\ TypeOf(ast, referent, ty, n) = ty[n]
    BY <1>2, TypeByRules
  <2>3. TypeOf(ast, referent, ty, n) = ty[a]
    BY <1>1, <2>2 DEF TypedByKind
  <2>4. QED
    BY <2>1, <2>2, <2>3
<1>5. QED
  BY <1>1, <1>3, <1>4, ImplicitCastFinished, TypedEnd

\* The operands at the end of an operation.
LEMMA OperandsRight ==
  ASSUME IInv, Verdict, m_errors = << >>, stack # << >>, Top.op = "finish",
         NEW n, n = Top.node, ast[n].kind \in {"Additive", "Multiplicative", "Relational"}
  PROVE  LET ty == TypesOf(ast, referent)
         IN  /\ left = ty[Kid(ast, n, 1)] /\ left \in Type
             /\ right = ty[Kid(ast, n, 2)] /\ right \in Type
<1>1. n \in DOMAIN ast /\ IsTree(ast) /\ n \in NodesOf(ast, ExpressionKinds)
  BY TopTyped DEF NodesOf, ExpressionKinds
<1>2. 1 \in 1 .. Len(ast[n].kids) /\ 2 \in 1 .. Len(ast[n].kids)
  BY <1>1, ExpressionsInside
<1>3. ast[n].kind \in {"Return"} \cup ExpressionKinds
  BY DEF ExpressionKinds
<1>4. QED
  BY <1>2, <1>3, RightKid DEF left, right

LEMMA ArithmeticJudged ==
  ASSUME IInv, Verdict, FinishArithmetic
  PROVE  Verdict'
<1> PICK n : n = Top.node
  OBVIOUS
<1> PICK a, b : a = left /\ b = right
  OBVIOUS
<1> PICK ty : ty = TypesOf(ast, referent)
  OBVIOUS
<1> PICK found : found = IF ~ NotArithmetic(a) /\ NotArithmetic(b) THEN b ELSE a
  OBVIOUS
<1> PICK wrong : wrong <=> NotArithmetic(a) \/ NotArithmetic(b) \/ a # b
  OBVIOUS
<1> PICK es : es = When(wrong, "invalidOperation", n)
  OBVIOUS
<1>1. /\ stack # << >> /\ Top.op = "finish" /\ ast[n].kind \in {"Additive", "Multiplicative"}
      /\ addErrors(es) /\ HasType(n, found)
  BY DEF FinishArithmetic, Doing, invalidOperation
<1>2. n \in DOMAIN ast /\ IsTree(ast) /\ n \in NodesOf(ast, ExpressionKinds)
  BY <1>1, TopTyped DEF NodesOf, ExpressionKinds
<1>3. es \in Seq(ErrorOf(ast)) /\ (es = << >> <=> ~ wrong)
  <2>1. "invalidOperation" \in Messages
    BY DEF Messages
  <2>2. QED
    BY <1>2, <2>1, WhenNothing
<1>4. FinishHolds(ast, ty, n) <=>
        ty[Kid(ast, n, 1)] = ty[Kid(ast, n, 2)] /\ ty[Kid(ast, n, 1)] \in Arithmetic
  BY <1>1 DEF FinishHolds
<1>5. ASSUME m_errors = << >>
      PROVE  /\ a = ty[Kid(ast, n, 1)] /\ a \in Type
             /\ b = ty[Kid(ast, n, 2)] /\ b \in Type
  BY <1>1, <1>5, OperandsRight
<1>6. ASSUME NEW c \in Type PROVE NotArithmetic(c) <=> c \notin Arithmetic
  BY <1>6 DEF NotArithmetic, Arithmetic, Type, PrimitiveType, Void, Int32, Float, Bool, Primitive
<1>7. m_errors = << >> => (es = << >> <=> FinishHolds(ast, ty, n))
  BY <1>3, <1>4, <1>5, <1>6
<1>8. ASSUME m_errors = << >>, FinishHolds(ast, ty, n) PROVE found = ty[n]
  <2>1. found = ty[Kid(ast, n, 1)]
    BY <1>4, <1>5, <1>8
  <2>2. TypedByKind(ast, referent, ty, n) /\ TypeOf(ast, referent, ty, n) = ty[n]
    BY <1>2, TypeByRules
  <2>3. TypeOf(ast, referent, ty, n) = ty[Kid(ast, n, 1)]
    BY <1>1, <1>4, <1>8, <2>2 DEF TypedByKind
  <2>4. QED
    BY <2>1, <2>2, <2>3
<1>9. Adds(es)
  BY <1>1 DEF Adds
<1>10. QED
  BY <1>1, <1>3, <1>7, <1>8, <1>9, ArithmeticFinished, TypedEnd

LEMMA RelationalJudged ==
  ASSUME IInv, Verdict, FinishRelational
  PROVE  Verdict'
<1> PICK n : n = Top.node
  OBVIOUS
<1> PICK a, b : a = left /\ b = right
  OBVIOUS
<1> PICK ty : ty = TypesOf(ast, referent)
  OBVIOUS
<1> PICK rank : rank <=> a.kind = "Array" \/ a = Void \/ b.kind = "Array" \/ b = Void
  OBVIOUS
<1> PICK order : order <=> a = Bool /\ ast[n].operation \notin {"EQ", "NEQ"}
  OBVIOUS
<1> PICK es : es = IF rank THEN When(TRUE, "invalidOperation", n)
                           ELSE When(a # b, "invalidOperation", n) \o
                                When(order, "invalidOperation", n)
  OBVIOUS
<1>1. /\ stack # << >> /\ Top.op = "finish" /\ ast[n].kind = "Relational"
      /\ addErrors(es) /\ HasType(n, Bool)
  BY DEF FinishRelational, Doing, invalidOperation
<1>2. n \in DOMAIN ast /\ IsTree(ast) /\ n \in NodesOf(ast, ExpressionKinds)
  BY <1>1, TopTyped DEF NodesOf, ExpressionKinds
<1>3. es \in Seq(ErrorOf(ast)) /\ (es = << >> <=> ~ rank /\ a = b /\ ~ order)
  <2>1. "invalidOperation" \in Messages
    BY DEF Messages
  <2>2. /\ When(TRUE, "invalidOperation", n) \in Seq(ErrorOf(ast))
        /\ When(TRUE, "invalidOperation", n) = << >> <=> ~ TRUE
    BY <1>2, <2>1, WhenNothing
  <2>3. /\ When(a # b, "invalidOperation", n) \in Seq(ErrorOf(ast))
        /\ When(a # b, "invalidOperation", n) = << >> <=> ~ a # b
    BY <1>2, <2>1, WhenNothing
  <2>4. /\ When(order, "invalidOperation", n) \in Seq(ErrorOf(ast))
        /\ When(order, "invalidOperation", n) = << >> <=> ~ order
    BY <1>2, <2>1, WhenNothing
  <2>5. LET both == When(a # b, "invalidOperation", n) \o When(order, "invalidOperation", n)
        IN  both \in Seq(ErrorOf(ast)) /\ (both = << >> <=> a = b /\ ~ order)
    BY <2>3, <2>4, NothingTwice
  <2>6. QED
    BY <2>2, <2>5
<1>4. FinishHolds(ast, ty, n) <=>
        /\ ty[Kid(ast, n, 1)] = ty[Kid(ast, n, 2)]
        /\ \/ ty[Kid(ast, n, 1)] \in Arithmetic
           \/ ty[Kid(ast, n, 1)] = Bool /\ ast[n].operation \in {"EQ", "NEQ"}
  BY <1>1 DEF FinishHolds
<1>5. ASSUME m_errors = << >>
      PROVE  /\ a = ty[Kid(ast, n, 1)] /\ a \in Type
             /\ b = ty[Kid(ast, n, 2)] /\ b \in Type
  BY <1>1, <1>5, OperandsRight
<1>6. ASSUME NEW c \in Type
      PROVE  /\ c.kind = "Array" \/ c = Void <=> c \notin Arithmetic \cup {Bool}
             /\ Bool \notin Arithmetic
  BY <1>6 DEF Arithmetic, Type, PrimitiveType, Void, Int32, Float, Bool, Primitive
<1>7. m_errors = << >> => (es = << >> <=> FinishHolds(ast, ty, n))
  BY <1>3, <1>4, <1>5, <1>6
<1>8. ASSUME FinishHolds(ast, ty, n) PROVE Bool = ty[n]
  <2>1. TypedByKind(ast, referent, ty, n) /\ TypeOf(ast, referent, ty, n) = ty[n]
    BY <1>2, TypeByRules
  <2>2. TypeOf(ast, referent, ty, n) = Bool
    BY <1>1, <1>4, <1>8, <2>1 DEF TypedByKind
  <2>3. QED
    BY <2>1, <2>2
<1>9. Adds(es)
  BY <1>1 DEF Adds
<1>10. QED
  BY <1>1, <1>3, <1>7, <1>8, <1>9, RelationalFinished, TypedEnd

LEMMA LiteralJudged ==
  ASSUME IInv, Verdict, VisitLiteral
  PROVE  Verdict'
<1> PICK n : n = Top.node
  OBVIOUS
<1> PICK ty : ty = TypesOf(ast, referent)
  OBVIOUS
<1>1. /\ stack # << >> /\ Top.op = "visit" /\ ast[n].kind \in LiteralKinds
      /\ m_errors' = m_errors
  BY DEF VisitLiteral, Visiting, Doing, LiteralKinds
<1>2. n \in NodesOf(ast, ExpressionKinds)
  BY <1>1, TopTyped DEF NodesOf, ExpressionKinds
<1>3. TypedByKind(ast, referent, ty, n) /\ TypeOf(ast, referent, ty, n) = ty[n]
  BY <1>2, TypeByRules
<1>4. PICK found : HasType(n, found) /\ found = ty[n]
  <2>1. CASE ast[n].kind = "IntLiteral" /\ HasType(n, Int32)
    BY <1>3, <2>1 DEF TypedByKind
  <2>2. CASE ast[n].kind = "FloatLiteral" /\ HasType(n, Float)
    BY <1>3, <2>2 DEF TypedByKind
  <2>3. CASE ast[n].kind = "BoolLiteral" /\ HasType(n, Bool)
    BY <1>3, <2>3 DEF TypedByKind
  <2>4. QED
    BY <2>1, <2>2, <2>3 DEF VisitLiteral
<1>5. << >> \in Seq(ErrorOf(ast)) /\ Adds(<< >>) /\ VisitHolds(ast, referent, n)
  BY <1>1 DEF Adds, VisitHolds, LiteralKinds
<1>6. ast[n].kind \in {"VariableExpr"} \cup LiteralKinds
  BY <1>1
<1>7. QED
  BY <1>1, <1>4, <1>5, <1>6, LiteralVisited, TypedLeaf

(***************************************************************************)
(* The verdict is an invariant.                                            *)
(***************************************************************************)
LEMMA NextJudged ==
  ASSUME IInv, Verdict, Next
  PROVE  Verdict'
<1>1. CASE VisitProgram \/ VisitDeclaration \/ FinishProgram \/ VisitVariable
  BY <1>1, ProgramVisitJudged, DeclarationJudged, ProgramEndJudged, VariableJudged
<1>2. CASE VisitFunction \/ VisitBody \/ FinishFunction
  BY <1>2, FunctionVisitJudged, BodyJudged, FunctionEndJudged
<1>3. CASE VisitStatement \/ VisitConditional \/ CheckCondition \/ FinishReturn
  BY <1>3, StatementVisitJudged, ConditionalVisitJudged, ConditionJudged, ReturnJudged
<1>4. CASE FinishCompound \/ FinishConditional \/ FinishExpressionStmt
  BY <1>4, StatementEndsJudged
<1>5. CASE VisitAssignment \/ CheckTarget \/ FinishAssignment \/ VisitVariableExpr
  BY <1>5, AssignmentVisitJudged, TargetJudged, AssignmentEndJudged, VariableExprJudged
<1>6. CASE VisitSubscript \/ FinishSubscript
  BY <1>6, SubscriptVisitJudged, SubscriptEndJudged
<1>7. CASE VisitCall \/ CheckArgument \/ FinishCall
  BY <1>7, CallVisitJudged, ArgumentJudged, CallEndJudged
<1>8. CASE VisitOperation \/ FinishImplicitCast \/ FinishArithmetic \/ FinishRelational
  BY <1>8, OperationVisitJudged, ImplicitCastJudged, ArithmeticJudged, RelationalJudged
<1>9. CASE VisitLiteral
  BY <1>9, LiteralJudged
<1>10. QED
  BY <1>1, <1>2, <1>3, <1>4, <1>5, <1>6, <1>7, <1>8, <1>9, Zenon DEF Next

LEMMA StepVerdict ==
  ASSUME IInv, Verdict, [Next]_vars
  PROVE  Verdict'
<1>1. CASE Next
  BY <1>1, NextJudged
<1>2. CASE UNCHANGED vars
  <2>1. /\ ast' = ast /\ stack' = stack /\ referent' = referent /\ type' = type
        /\ m_errors' = m_errors
    BY <1>2 DEF vars, fields
  <2>2. QED
    BY <2>1 DEF Verdict, isValid, Sound, InSession
<1>3. QED
  BY <1>1, <1>2

LEMMA InitVerdict ==
  ASSUME Init
  PROVE  Verdict
<1>1. /\ ast \in Programs /\ stack = << Visit(1) >> /\ type = << >> /\ m_errors = << >>
  BY DEF Init
<1>2. 1 \in DOMAIN ast /\ DOMAIN ast = 1 .. Len(ast) /\ ast[1].span = Len(ast)
      /\ Len(ast) \in Nat
  BY <1>1, ProgramsAssumption DEF IsProgram, IsTree
<1>3. Owes(ast)[Visit(1)] = DOMAIN ast
  <2>1. Subtree(ast, 1) = DOMAIN ast
    BY <1>2 DEF Subtree, Within
  <2>2. QED
    BY <1>1, <1>2, <2>1, VisitTask
<1>4. Len(stack) = 1 /\ stack[1] = Visit(1) /\ 1 .. 1 = {1}
  BY <1>1
<1>5. Pending(stack, Owes(ast)) = DOMAIN ast
  BY <1>3, <1>4 DEF Pending
<1>6. InSession
  <2>1. Visit(1).op # "finish"
    BY DEF Visit
  <2>2. QED
    BY <1>4, <2>1 DEF InSession
<1>7. type = [n \in DOMAIN type |-> TypesOf(ast, referent)[n]]
  <2> PICK ty : ty = TypesOf(ast, referent)
    OBVIOUS
  <2>1. type = [n \in DOMAIN type |-> ty[n]]
    BY <1>1
  <2>2. QED
    BY <2>1
<1>8. QED
  BY <1>1, <1>5, <1>6, <1>7 DEF Verdict, isValid, Sound

LEMMA VerdictIsRight ==
  ASSUME IInv, Verdict
  PROVE  VerdictIsWellTyped
<1> PICK r, ty : r = referent /\ ty = TypesOf(ast, referent)
  OBVIOUS
<1>1. SUFFICES ASSUME stack = << >>
               PROVE  (m_errors = << >> <=> WellTyped(ast, r)) /\ (m_errors = << >> => type = ty)
  BY DEF VerdictIsWellTyped, Finished, isValid
<1>2. IsProgram(ast) /\ IsTree(ast) /\ Linking(ast, r)
  BY ProgramsAssumption, LinkedFits DEF IInv, IsProgram
<1>3. Pending(stack, Owes(ast)) = {}
  BY <1>1 DEF Pending
<1>4. ASSUME m_errors # << >> PROVE ~ WellTyped(ast, r)
  <2>1. \E n \in DOMAIN ast : \E k \in Judges(ast, n) : ~ Holds(ast, r, k)
    BY <1>4 DEF Verdict, isValid
  <2>2. QED
    BY <1>2, <2>1, WellTypedHolds
<1>5. ASSUME m_errors = << >> PROVE type = ty /\ WellTyped(ast, r)
  <2>1. /\ \A n \in DOMAIN ast : \A k \in Judges(ast, n) : Holds(ast, r, k)
        /\ type = [n \in DOMAIN type |-> ty[n]]
    BY <1>3, <1>5 DEF Verdict, isValid, Sound
  <2>2. DOMAIN type = NodesOf(ast, ExpressionKinds) /\ \A n \in DOMAIN type : type[n] \in Type
    BY <1>3 DEF IInv, Results
  <2>3. type = ty
    <3>1. ty = [n \in NodesOf(ast, ExpressionKinds) |-> TypeOf(ast, r, ty, n)]
      BY <1>2, TypesDefined
    <3>2. \A n \in NodesOf(ast, ExpressionKinds) : ty[n] = TypeOf(ast, r, ty, n)
      BY <3>1
    <3>3. type = [n \in NodesOf(ast, ExpressionKinds) |-> ty[n]]
      BY <2>1, <2>2
    <3>4. QED
      BY <3>1, <3>2, <3>3
  <2>4. \A n \in NodesOf(ast, ExpressionKinds) : ty[n] # IllTyped
    <3>1. IllTyped \notin Type
      BY DEF IllTyped, Type, Primitive, PrimitiveType
    <3>2. QED
      BY <2>2, <2>3, <3>1
  <2>5. QED
    BY <1>2, <2>1, <2>3, <2>4, HoldsWellTyped
<1>6. QED
  BY <1>4, <1>5

\* The pass ends without errors exactly on the well-typed programs, and then
\* leaves the types of the rules in the tree (SemanticVisitor.cpp).
THEOREM VerdictIsExact == Spec => []VerdictIsWellTyped
<1>1. Init => IInv /\ Verdict
  BY InitIInv, InitVerdict
<1>2. IInv /\ Verdict /\ [Next]_vars => IInv' /\ Verdict'
  BY StepIInv, StepVerdict
<1>3. IInv /\ Verdict => VerdictIsWellTyped
  BY VerdictIsRight
<1>4. QED
  BY <1>1, <1>2, <1>3, PTL DEF Spec

(***************************************************************************)
(* What the pass hands on.                                                 *)
(***************************************************************************)
LEMMA AnswersField ==
  ASSUME IInv, IsField(always_returns), [Next]_vars
  PROVE  IsField(always_returns')
<1>1. CASE UNCHANGED vars
  BY <1>1 DEF vars, fields
<1>2. CASE Next
  <2>1. always_returns' = always_returns
        \/ \E n, v : always_returns' = Assigned(always_returns, n, v)
    BY <1>2, NextIsGood DEF GoodStep, Found
  <2>2. QED
    BY <2>1, FieldAssigned
<1>3. QED
  BY <1>1, <1>2

\* A pass that has accepted a program leaves all its types and all answers of
\* the return analysis in the tree.
LEMMA CheckedAtEnd ==
  ASSUME IInv, Verdict, IsField(always_returns), stack = << >>, isValid
  PROVE  /\ WellTyped(ast, referent)
         /\ type = TypesOf(ast, referent)
         /\ LET out == OutcomesOf(ast)
            IN  always_returns = [n \in DOMAIN out |-> "falls" \notin out[n]]
<1>1. WellTyped(ast, referent) /\ type = TypesOf(ast, referent)
  BY VerdictIsRight DEF VerdictIsWellTyped, Finished, isValid
<1> PICK out : out = OutcomesOf(ast)
  OBVIOUS
<1>2. DOMAIN out = NodesOf(ast, StatementKinds)
  <2>1. IsTree(ast)
    BY ProgramsAssumption DEF IInv, IsProgram
  <2>2. QED
    BY <2>1, OutcomesDefined
<1>3. Pending(stack, Owes(ast)) = {}
  BY DEF Pending
<1>4. /\ DOMAIN always_returns = NodesOf(ast, StatementKinds)
      /\ \A n \in DOMAIN always_returns : always_returns[n] = ("falls" \notin out[n])
  BY <1>3 DEF IInv, Results
<1>5. always_returns = [n \in DOMAIN out |-> "falls" \notin out[n]]
  BY <1>2, <1>4 DEF IsField
<1>6. QED
  BY <1>1, <1>5
=============================================================================
