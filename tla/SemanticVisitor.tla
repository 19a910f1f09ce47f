-------------------------- MODULE SemanticVisitor --------------------------
(***************************************************************************)
(* The semantic pass (src/src/semantics/SemanticVisitor.cpp): a walk of a  *)
(* linked tree that computes the type of every expression and whether      *)
(* every statement always returns, and collects the errors it meets.       *)
(***************************************************************************)
EXTENDS TypeRules, TreeWalk

CONSTANTS
  Programs,           \* the trees the parser may hand over
  SourceLocation(_)   \* the line and column where the k-th node is written

ASSUME ProgramsAssumption == \A t \in Programs : IsProgram(t)

Location == [line_num : Int, col_num : Int]

\* A text is written line after line, and each line from left to right.
InSourceOrder(t) ==
  /\ \A k \in DOMAIN t : /\ SourceLocation(k) \in Location
                         /\ SourceLocation(k).line_num >= 0
  /\ \A k, l \in DOMAIN t :
       k < l => LET a == SourceLocation(k)
                    b == SourceLocation(l)
                IN  /\ a.line_num <= b.line_num
                    /\ a.line_num = b.line_num => a.col_num < b.col_num

ASSUME LocationsAssumption == \A t \in Programs : InSourceOrder(t)

VARIABLES
  referent,          \* SymbolUseNode::referent, as the symbol pass left it
  type,              \* ExpressionNode::type, where set
  always_returns,    \* StatementNode::always_returns, where set
  m_errors,          \* the errors so far, in order of location
  m_currentFunction  \* the function whose body is being visited, or nullptr

fields == << referent, type, always_returns >>

vars == << ast, stack, fields, m_errors, m_currentFunction >>

SemanticTask ==
  Task({"visit", "declaration", "body", "check", "finish"}) \cup
  [op : {"argument"}, node : Nat, index : Nat]

Declaration(d) == [op |-> "declaration", node |-> d]
EnterBody(f)   == [op |-> "body", node |-> f]
Check(n)       == [op |-> "check", node |-> n]
Finish(n)      == [op |-> "finish", node |-> n]
Argument(n, i) == [op |-> "argument", node |-> n, index |-> i]

\* missingMain is at no node.
LocationAt(k) ==
  IF k = 0 THEN [line_num |-> -1, col_num |-> -1] ELSE SourceLocation(k)

Error(message, n) ==
  [message |-> message,
   location |-> LocationAt(IF n = 0 THEN 0 ELSE LocationOf(ast, n))]

\* A slip: the columns are not compared.
PrecedesByLine(a, b) == a.line_num < b.line_num

\* The comparison that addError sorts by.
Precedes(a, b) ==
  \/ a.line_num < b.line_num
  \/ ~ a.line_num > b.line_num /\ a.col_num < b.col_num

(***************************************************************************)
(* std::ranges::sort promises a permutation in which no element precedes   *)
(* one before it.  It is not stable: elements that do not precede each     *)
(* other may change places.                                                *)
(***************************************************************************)
InOrder(errors) ==
  \A i, j \in DOMAIN errors :
    i < j => ~ Precedes(errors[j].location, errors[i].location)

Permuted(errors, p) == [i \in DOMAIN errors |-> errors[p[i]]]

Sorted(errors) ==
  {s \in {Permuted(errors, p) : p \in Bijection(DOMAIN errors, DOMAIN errors)} : InOrder(s)}

\* A slip: the new error replaces those of its location.
ErrorInstead(errors, e) ==
  Sorted(Append(SelectSeq(errors, LAMBDA d : d.location # e.location), e))

\* addError.
WithError(errors, e) == Sorted(Append(errors, e))

\* The errors that a step adds, in the order of its calls of addError.
addErrors(es) ==
  LET added[k \in 0 .. Len(es)] ==
        IF k = 0 THEN {m_errors}
                 ELSE UNION {WithError(errors, es[k]) : errors \in added[k - 1]}
  IN  m_errors' \in added[Len(es)]

When(condition, message, n) ==
  IF condition THEN << Error(message, n) >> ELSE << >>

isValid == m_errors = << >>

\* The passes before this one linked every use, or ended the compilation.
Init ==
  /\ ast \in Programs
  /\ LET m == Meaning(ast)
     IN  m.faults = {} /\ referent = m.referents
  /\ stack = << Visit(1) >>
  /\ type = << >>
  /\ always_returns = << >>
  /\ m_errors = << >>
  /\ m_currentFunction = nullptr

(***************************************************************************)
(* Declarations.                                                           *)
(***************************************************************************)
VisitProgram ==
  /\ Visiting({"Program"})
  /\ LET decls == Kids(ast, Top.node)
     IN  Continue([i \in DOMAIN decls |-> Declaration(decls[i])] \o
                  << Finish(Top.node) >>)
  /\ UNCHANGED << ast, fields, m_errors, m_currentFunction >>

\* The loop over the global declarations.
VisitDeclaration ==
  /\ Doing("declaration", DeclKinds)
  /\ LET d == Top.node
     IN  /\ addErrors(When(ast[d].name = "main" /\ d # LastKid(ast, 1),
                           "earlyMain", d))
         /\ Continue(<< Visit(d) >>)
  /\ UNCHANGED << ast, fields, m_currentFunction >>

FinishProgram ==
  /\ Doing("finish", {"Program"})
  /\ addErrors(When(ast[LastKid(ast, 1)].name # "main", "missingMain", 0))
  /\ Continue(<< >>)
  /\ UNCHANGED << ast, fields, m_currentFunction >>

VisitVariable ==
  /\ Visiting({"Variable", "Parameter", "Array"})
  /\ LET d == Top.node
         decl == ast[d]
     IN  addErrors(
           When(decl.type.base = "Void",
                IF decl.kind = "Parameter" THEN "voidParam" ELSE "voidVariable", d) \o
           When(decl.kind = "Array" /\ decl.size <= 0, "nonPositiveArraySize", d))
  /\ Continue(<< >>)
  /\ UNCHANGED << ast, fields, m_currentFunction >>

VisitFunction ==
  /\ Visiting({"Function"})
  /\ LET f == Top.node
     IN  Continue(VisitAll(Parameters(ast, f)) \o
                  << EnterBody(f), Visit(Body(ast, f)), Finish(f) >>)
  /\ UNCHANGED << ast, fields, m_errors, m_currentFunction >>

VisitBody ==
  /\ Doing("body", {"Function"})
  /\ m_currentFunction' = Top.node
  /\ Continue(<< >>)
  /\ UNCHANGED << ast, fields, m_errors >>

\* A slip: m_currentFunction is not reset.
FinishFunctionOnly ==
  /\ Doing("finish", {"Function"})
  /\ LET f == Top.node
     IN  addErrors(When(~ always_returns[Body(ast, f)] /\ ast[f].type # Void,
                        "nonReturningFunction", f))
  /\ Continue(<< >>)
  /\ UNCHANGED << ast, fields, m_currentFunction >>

FinishFunction ==
  /\ Doing("finish", {"Function"})
  /\ m_currentFunction' = nullptr
  /\ LET f == Top.node
     IN  addErrors(When(~ always_returns[Body(ast, f)] /\ ast[f].type # Void,
                        "nonReturningFunction", f))
  /\ Continue(<< >>)
  /\ UNCHANGED << ast, fields >>

(***************************************************************************)
(* Statements.                                                             *)
(***************************************************************************)

\* A slip: the answer is kept for the node after n.
ReturnsNextNode(n, answer) ==
  /\ always_returns' = Assigned(always_returns, n + 1, answer)
  /\ Continue(<< >>)
  /\ UNCHANGED << ast, referent, type, m_currentFunction >>

\* The visit of n ends; it has found out whether n always returns.
Returns(n, answer) ==
  /\ always_returns' = Assigned(always_returns, n, answer)
  /\ Continue(<< >>)
  /\ UNCHANGED << ast, referent, type, m_currentFunction >>

VisitStatement ==
  /\ Visiting({"Compound", "Return", "ExpressionStmt"})
  /\ Continue(VisitAll(Kids(ast, Top.node)) \o << Finish(Top.node) >>)
  /\ UNCHANGED << ast, fields, m_errors, m_currentFunction >>

\* If and while: the condition is checked before what it governs is visited.
VisitConditional ==
  /\ Visiting({"If", "While"})
  /\ LET kids == Kids(ast, Top.node)
     IN  Continue(<< Visit(Head(kids)), Check(Top.node) >> \o
                  VisitAll(Tail(kids)) \o << Finish(Top.node) >>)
  /\ UNCHANGED << ast, fields, m_errors, m_currentFunction >>

CheckCondition ==
  /\ Doing("check", {"If", "While"})
  /\ LET condition == Kid(ast, Top.node, 1)
     IN  addErrors(When(type[condition] # Bool, "invalidCondition", condition))
  /\ Continue(<< >>)
  /\ UNCHANGED << ast, fields, m_currentFunction >>

\* A slip: the answer of the last statement for that of the block.
FinishCompoundByLast ==
  /\ Doing("finish", {"Compound"})
  /\ LET stmts == Statements(ast, Top.node)
     IN  Returns(Top.node, stmts # << >> /\ always_returns[Last(stmts)])
  /\ UNCHANGED m_errors

FinishCompound ==
  /\ Doing("finish", {"Compound"})
  /\ Returns(Top.node, \E n \in Range(Statements(ast, Top.node)) : always_returns[n])
  /\ UNCHANGED m_errors

\* An if without an else, and a loop, may be passed by.
FinishConditional ==
  /\ Doing("finish", {"If", "While"})
  /\ LET kids == Kids(ast, Top.node)
     IN  Returns(Top.node, /\ Len(kids) = 3
                           /\ always_returns[kids[2]]
                           /\ always_returns[kids[3]])
  /\ UNCHANGED m_errors

FinishReturn ==
  /\ Doing("finish", {"Return"})
  /\ LET n == Top.node
         returned == IF ast[n].kids = << >> THEN Void ELSE type[Kid(ast, n, 1)]
     IN  /\ addErrors(When(ast[m_currentFunction].type # returned, "badReturn", n))
         /\ Returns(n, TRUE)

FinishExpressionStmt ==
  /\ Doing("finish", {"ExpressionStmt"})
  /\ Returns(Top.node, FALSE)
  /\ UNCHANGED m_errors

(***************************************************************************)
(* Expressions.                                                            *)
(***************************************************************************)

\* The visit of n ends; its type is known.
HasType(n, ty) ==
  /\ type' = Assigned(type, n, ty)
  /\ Continue(<< >>)
  /\ UNCHANGED << ast, referent, always_returns, m_currentFunction >>

VisitAssignment ==
  /\ Visiting({"Assignment"})
  /\ LET n == Top.node
     IN  Continue(<< Visit(Kid(ast, n, 1)), Check(n), Visit(Kid(ast, n, 2)),
                     Finish(n) >>)
  /\ UNCHANGED << ast, fields, m_errors, m_currentFunction >>

CheckTarget ==
  /\ Doing("check", {"Assignment"})
  /\ LET n == Top.node
     IN  addErrors(When(type[Kid(ast, n, 1)].kind = "Array", "arrayAssignment", n))
  /\ Continue(<< >>)
  /\ UNCHANGED << ast, fields, m_currentFunction >>

FinishAssignment ==
  /\ Doing("finish", {"Assignment"})
  /\ LET n == Top.node
     IN  /\ addErrors(When(type[Kid(ast, n, 1)] # type[Kid(ast, n, 2)],
                           "mismatchAssignment", n))
         /\ HasType(n, Void)

IsFunction(d) == Decl(ast, d).kind = "Function"

VisitVariableExpr ==
  /\ Visiting({"VariableExpr"})
  /\ LET n == Top.node
     IN  /\ addErrors(When(IsFunction(referent[n]), "functionAsVariable", n))
         /\ HasType(n, Decl(ast, referent[n]).type)

VisitSubscript ==
  /\ Visiting({"Subscript"})
  /\ LET n == Top.node
         decl == Decl(ast, referent[n])
     IN  /\ addErrors(When(IsFunction(referent[n]), "functionAsVariable", n) \o
                      When(decl.type.kind # "Array", "indexNonArray", n))
         /\ Continue(<< Visit(Kid(ast, n, 1)), Finish(n) >>)
  /\ UNCHANGED << ast, fields, m_currentFunction >>

FinishSubscript ==
  /\ Doing("finish", {"Subscript"})
  /\ LET n == Top.node
         index == Kid(ast, n, 1)
     IN  /\ addErrors(When(type[index] # Int32, "badIndex", index))
         /\ HasType(n, Primitive(Decl(ast, referent[n]).type.base))

\* Only a call of a function with as many arguments as it has parameters has
\* its arguments compared with them, each as soon as it was visited.
VisitCall ==
  /\ Visiting({"Call"})
  /\ LET n == Top.node
         args == Kids(ast, n)
         compared == [k \in 1 .. 2 * Len(args) |->
                        LET i == (k + 1) \div 2
                        IN  IF k % 2 = 1 THEN Visit(args[i]) ELSE Argument(n, i)]
     IN  \/ /\ ~ IsFunction(referent[n])
            /\ addErrors(<< Error("variableAsFunction", n) >>)
            /\ Continue(VisitAll(args) \o << Finish(n) >>)
         \/ /\ IsFunction(referent[n])
            /\ Len(ParameterTypes(ast, referent[n])) # Len(args)
            /\ addErrors(<< Error("wrongArgumentCount", n) >>)
            /\ Continue(VisitAll(args) \o << Finish(n) >>)
         \/ /\ IsFunction(referent[n])
            /\ Len(ParameterTypes(ast, referent[n])) = Len(args)
            /\ Continue(compared \o << Finish(n) >>)
            /\ UNCHANGED m_errors
  /\ UNCHANGED << ast, fields, m_currentFunction >>

\* A slip: the argument takes the type of the parameter.
ConvertArgument ==
  /\ Doing("argument", {"Call"})
  /\ type' = Assigned(type, Kid(ast, Top.node, Top.index),
                      ParameterTypes(ast, referent[Top.node])[Top.index])
  /\ Continue(<< >>)
  /\ UNCHANGED << ast, referent, always_returns, m_errors, m_currentFunction >>

CheckArgument ==
  /\ Doing("argument", {"Call"})
  /\ LET arg == Kid(ast, Top.node, Top.index)
         param_type == ParameterTypes(ast, referent[Top.node])[Top.index]
     IN  addErrors(When(type[arg] # param_type, "wrongArgumentType", arg))
  /\ Continue(<< >>)
  /\ UNCHANGED << ast, fields, m_currentFunction >>

FinishCall ==
  /\ Doing("finish", {"Call"})
  /\ HasType(Top.node, Decl(ast, referent[Top.node]).type)
  /\ UNCHANGED m_errors

\* A cast, an operation: the operands first.
VisitOperation ==
  /\ Visiting({"ImplicitCast", "Additive", "Multiplicative", "Relational"})
  /\ Continue(VisitAll(Kids(ast, Top.node)) \o << Finish(Top.node) >>)
  /\ UNCHANGED << ast, fields, m_errors, m_currentFunction >>

FinishImplicitCast ==
  /\ Doing("finish", {"ImplicitCast"})
  /\ HasType(Top.node, type[Kid(ast, Top.node, 1)])
  /\ UNCHANGED m_errors

left  == type[Kid(ast, Top.node, 1)]
right == type[Kid(ast, Top.node, 2)]

invalidOperation(condition) == When(condition, "invalidOperation", Top.node)

\* A slip: bools may be added.
NotNumber(ty) == ty.kind = "Array" \/ ty = Void

NotArithmetic(ty) == ty.kind = "Array" \/ ty \in {Void, Bool}

FinishArithmetic ==
  /\ Doing("finish", {"Additive", "Multiplicative"})
  /\ addErrors(invalidOperation(\/ NotArithmetic(left)
                                \/ NotArithmetic(right)
                                \/ left # right))
  /\ HasType(Top.node, IF ~ NotArithmetic(left) /\ NotArithmetic(right)
                       THEN right ELSE left)

\* Two operands of different types, the left one a bool that is ordered, are
\* reported twice.
FinishRelational ==
  /\ Doing("finish", {"Relational"})
  /\ LET NotScalar(ty) == ty.kind = "Array" \/ ty = Void
     IN  addErrors(
           IF NotScalar(left) \/ NotScalar(right)
           THEN invalidOperation(TRUE)
           ELSE invalidOperation(left # right) \o
                invalidOperation(left = Bool /\ ast[Top.node].operation \notin {"EQ", "NEQ"}))
  /\ HasType(Top.node, Bool)

VisitLiteral ==
  /\ Visiting({"IntLiteral", "FloatLiteral", "BoolLiteral"})
  /\ \/ ast[Top.node].kind = "IntLiteral"   /\ HasType(Top.node, Int32)
     \/ ast[Top.node].kind = "FloatLiteral" /\ HasType(Top.node, Float)
     \/ ast[Top.node].kind = "BoolLiteral"  /\ HasType(Top.node, Bool)
  /\ UNCHANGED m_errors

Next ==
  \/ VisitProgram \/ VisitDeclaration \/ FinishProgram
  \/ VisitVariable
  \/ VisitFunction \/ VisitBody \/ FinishFunction
  \/ VisitStatement \/ FinishCompound \/ FinishReturn \/ FinishExpressionStmt
  \/ VisitConditional \/ CheckCondition \/ FinishConditional
  \/ VisitAssignment \/ CheckTarget \/ FinishAssignment
  \/ VisitVariableExpr
  \/ VisitSubscript \/ FinishSubscript
  \/ VisitCall \/ CheckArgument \/ FinishCall
  \/ VisitOperation \/ FinishImplicitCast \/ FinishArithmetic \/ FinishRelational
  \/ VisitLiteral

\* One thread runs the pass to its end.
Spec == Init /\ [][Next]_vars /\ WF_vars(Next)

(***************************************************************************)
(* Properties.                                                             *)
(***************************************************************************)
Messages ==
  {"earlyMain", "missingMain", "voidVariable", "voidParam", "nonPositiveArraySize",
   "nonReturningFunction", "invalidCondition", "badReturn", "arrayAssignment",
   "mismatchAssignment", "functionAsVariable", "indexNonArray", "badIndex",
   "variableAsFunction", "wrongArgumentCount", "wrongArgumentType",
   "invalidOperation"}

\* Every state is of the shape the code declares.
TypeOK ==
  /\ ast \in Programs
  /\ stack \in Seq(SemanticTask)
  /\ DOMAIN referent = UsesOf(ast)
  /\ DOMAIN type \subseteq NodesOf(ast, ExpressionKinds)
  /\ \A n \in DOMAIN type : type[n] \in Type
  /\ DOMAIN always_returns \subseteq NodesOf(ast, StatementKinds)
  /\ \A n \in DOMAIN always_returns : always_returns[n] \in BOOLEAN
  /\ \A i \in DOMAIN m_errors : /\ m_errors[i].message \in Messages
                                /\ m_errors[i].location \in Location
  /\ m_currentFunction \in {nullptr} \cup FunctionsOf(ast)

\* Whenever the errors can be seen (SemanticVisitor.hpp:48) they are "in order
\* of occurance" (SemanticVisitor.cpp:22): the places that they are about
\* follow one another in the text, that of a missing main before all others.
\* The sort sees lines and columns only, and errors are found in another order.
ErrorsSorted ==
  \A i, j \in DOMAIN m_errors : i < j =>
    \A k, l \in 0 .. Len(ast) :
      /\ m_errors[i].location = LocationAt(k)
      /\ m_errors[j].location = LocationAt(l)
      => k <= l

\* The pass accepts exactly the well-typed programs, however its own recovery
\* from one error makes it see the rest; and what it then leaves in the tree
\* for code generation are the types the rules give.
VerdictIsWellTyped ==
  Finished =>
    /\ isValid <=> WellTyped(ast, referent)
    /\ isValid => type = TypesOf(ast, referent)

\* always_returns is set exactly on the statements that control cannot fall
\* out of when nothing is known of the conditions.  Code generation closes a
\* block with a branch or not by this answer (CodegenVisitor.cpp:184-295).
AlwaysReturnsIsExact ==
  \A n \in DOMAIN always_returns :
    always_returns[n] <=> "falls" \notin OutcomesOf(ast)[n]

\* m_currentFunction, a raw pointer set and reset around the visit of a body,
\* is the function around whatever is visited: a return statement is compared
\* with its own function (SemanticVisitor.cpp:180-184).
CurrentFunctionEncloses ==
  IF Finished
  THEN m_currentFunction = nullptr
  ELSE Top.op = "visit" => m_currentFunction = EnclosingFunction(ast, Top.node)

\* No step takes an occurrence of an error away.
KeepErrors ==
  \A e \in Range(m_errors) :
    Cardinality({i \in DOMAIN m_errors : m_errors[i] = e}) <=
    Cardinality({i \in DOMAIN m_errors' : m_errors'[i] = e})

\* No error is ever lost or altered, by the sort or otherwise.
NoErrorLost == [][KeepErrors]_vars

\* A type or an answer once computed is never changed by a later visit.
ResultsAreFinal ==
  [][/\ \A n \in DOMAIN type : n \in DOMAIN type' /\ type'[n] = type[n]
     /\ \A n \in DOMAIN always_returns :
          n \in DOMAIN always_returns' /\ always_returns'[n] = always_returns[n]]_vars

(***************************************************************************)
(* What the messages of the program say of main, and its code does not do. *)
(***************************************************************************)

\* "No main function found." (SemanticVisitor.cpp:700) is reported whenever
\* the program has no function main.  The code only compares the name of the
\* last declaration, which may be a variable.
MissingMainReported ==
  Finished =>
    \/ \E f \in FunctionsOf(ast) : ast[f].name = "main"
    \/ \E i \in DOMAIN m_errors : m_errors[i].message = "missingMain"

\* "main must be the last function declared." (SemanticVisitor.cpp:442): a
\* main that is the last function is never reported as early.  The code asks
\* for the last declaration of any kind.
LastFunctionIsNotEarly ==
  \A i \in DOMAIN m_errors :
    m_errors[i].message = "earlyMain" =>
      \E f \in FunctionsOf(ast) : Precedes(m_errors[i].location, SourceLocation(f))
=============================================================================
