--------------------------- MODULE CodegenVisitor ---------------------------
(***************************************************************************)
(* The code generator (src/src/codegen/CodegenVisitor.cpp): a walk of a    *)
(* linked and typed tree that writes LLVM instructions into basic blocks   *)
(* through an IRBuilder, whose insert point moves from block to block.     *)
(*                                                                         *)
(* Of an instruction the model keeps the operation, the node it is         *)
(* generated for and its operands.  An operation that only computes is a   *)
(* term: the IRBuilder folds it when its operands are constants, and       *)
(* otherwise puts it right behind the load or call that keeps it from      *)
(* being one.                                                              *)
(***************************************************************************)
EXTENDS Execution, TreeWalk

CONSTANTS
  Programs,      \* the trees the parser may hand over
  MaxDecisions   \* bound on the decisions of a run that is compared

ASSUME ProgramsAssumption == \A t \in Programs : IsProgram(t)

ASSUME DecisionsAssumption == MaxDecisions \in Nat

VARIABLES
  referent, type, always_returns, nest_level,  \* what the passes before left in the tree
  ir_value,      \* Node::ir_value, where set
  blocks,        \* the basic blocks, in order of creation
  insertBlock    \* the block the IRBuilder writes at the end of

fields == << referent, type, always_returns, nest_level >>

ir == << ir_value, blocks, insertBlock >>

vars == << ast, stack, fields, ir >>

(***************************************************************************)
(* LLVM, as far as the generator uses it.  A value is an operation at a    *)
(* node, and the instructions whose results it is computed from.           *)
(***************************************************************************)
Value(op, n, needs) == [op |-> op, at |-> n, needs |-> needs]

\* What a pointer that was never assigned points to.
unset == Value("unset", 0, {Effect("unset", 0)})

Instruction(op, n, args, targets) ==
  [op |-> op, at |-> n, args |-> args, targets |-> targets]

Alloca(d)         == Instruction("alloca", d, << >>, << >>)
Store(n, value, place) == Instruction("store", n, << value, place >>, << >>)
Load(n, place)    == Instruction("load", n, << place >>, << >>)
CallOf(n, args)   == Instruction("call", n, args, << >>)
Br(n, target)     == Instruction("br", n, << >>, << target >>)
\* A slip: the targets the other way round.
CondBrSwapped(n, condition, then_block, else_block) ==
  Instruction("condbr", n, << condition >>, << else_block, then_block >>)

CondBr(n, condition, then_block, else_block) ==
  Instruction("condbr", n, << condition >>, << then_block, else_block >>)
Ret(n, value)     == Instruction("ret", n, << value >>, << >>)
RetVoid(n)        == Instruction("ret", n, << >>, << >>)

Terminators == {"br", "condbr", "ret"}

\* The value that an instruction yields.
Result(i) == Value(i.op, i.at, {Effect(i.op, i.at)})

\* A term over the operands xs.
Computed(op, n, xs) == Value(op, n, UNION {x.needs : x \in Range(xs)})

\* A basic block; function is nullptr while it is in none.
Block(label, f, code) == [label |-> label, function |-> f, code |-> code]

\* The blocks bs after is was written at the end of block b.
Written(bs, b, is) == [bs EXCEPT ![b].code = @ \o is]

\* A slip: the insert is forgotten.
NotInserted(bs, b, func) == bs

\* func->insert(func->end(), b).
Inserted(bs, b, func) == [bs EXCEPT ![b].function = func]

(***************************************************************************)
(* The builtins: input calls scanf into a buffer, output calls printf.     *)
(***************************************************************************)
InputCode ==
  LET buffer  == Alloca(-1)
      ret_val == Load(-1, Result(buffer))
  IN  << buffer,
         CallOf(-1, << Value("scanf", -1, {}), Value("scan_format", -1, {}), Result(buffer) >>),
         ret_val, Ret(-1, Result(ret_val)) >>

OutputCode ==
  << CallOf(-2, << Value("printf", -2, {}), Value("print_format", -2, {}),
                   Value("argument", -2, {}) >>),
     RetVoid(-2) >>

Finish(n) == [op |-> "finish", node |-> n]

\* The blocks that a visit keeps in its local variables across other visits.
IfFrame(op, n, func, else_block, merge_block) ==
  [op |-> op, node |-> n, func |-> func, else_block |-> else_block,
   merge_block |-> merge_block]

WhileFrame(op, n, func, check, loop, post) ==
  [op |-> op, node |-> n, func |-> func, check |-> check, loop |-> loop, post |-> post]

ValueOf(n) == IF n \in DOMAIN ir_value THEN ir_value[n] ELSE unset

ValuesOf(ns) == [i \in DOMAIN ns |-> ValueOf(ns[i])]

Emit(is) == blocks' = Written(blocks, insertBlock, is)

SetValue(n, value) == ir_value' = Assigned(ir_value, n, value)

\* The visit of n ends with value, after the instructions is.
Generates(n, is, value) ==
  /\ Emit(is)
  /\ SetValue(n, value)
  /\ Continue(<< >>)
  /\ UNCHANGED << ast, fields, insertBlock >>

\* The passes before this one linked, typed and accepted the tree.
Init ==
  /\ ast \in Programs
  /\ LET m == Meaning(ast)
     IN  m.faults = {} /\ referent = m.referents
  /\ WellTyped(ast, referent)
  /\ type = TypesOf(ast, referent)
  /\ LET out == OutcomesOf(ast)
     IN  always_returns = [n \in DOMAIN out |-> "falls" \notin out[n]]
  /\ nest_level = [d \in DeclsOf(ast) |-> Depth(ast, d)]
  /\ stack = << Visit(1) >>
  /\ ir_value = << >>
  /\ blocks = << >>
  /\ insertBlock = nullptr

VisitProgram ==
  /\ Visiting({"Program"})
  /\ ir_value' = [b \in BuiltinDecls |-> Value("function", b, {})]
  /\ blocks' = << Block("body", -1, InputCode), Block("body", -2, OutputCode) >>
  /\ insertBlock' = 2
  /\ Continue(VisitAll(Kids(ast, Top.node)))
  /\ UNCHANGED << ast, fields >>

(***************************************************************************)
(* Declarations.                                                           *)
(***************************************************************************)

\* Nest level 0, and no other, is a global.
VisitVariable ==
  /\ Visiting({"Variable", "Array"})
  /\ LET d == Top.node
     IN  \/ /\ nest_level[d] = 0
            /\ Generates(d, << >>, Value("global", d, {}))
         \/ /\ nest_level[d] # 0
            /\ Generates(d, << Alloca(d) >>, Result(Alloca(d)))

\* Every parameter is stored in a place of its own before the body runs.
VisitFunction ==
  /\ Visiting({"Function"})
  /\ LET f == Top.node
         params == Parameters(ast, f)
         preamble == Len(blocks) + 1
         body == Len(blocks) + 2
         passed == [k \in 1 .. 2 * Len(params) |->
                      LET p == params[(k + 1) \div 2]
                      IN  IF k % 2 = 1
                          THEN Alloca(p)
                          ELSE Store(p, Value("argument", p, {}), Result(Alloca(p)))]
     IN  /\ blocks' = blocks \o << Block("preamble", f, Append(passed, Br(f, body))),
                                   Block("body", f, << >>) >>
         /\ insertBlock' = body
         /\ ir_value' = [n \in DOMAIN ir_value \cup {f} \cup Range(params) |->
              CASE n = f -> Value("function", f, {})
                [] n \in Range(params) -> Result(Alloca(n))
                [] OTHER -> ir_value[n]]
         /\ Continue(<< Visit(Body(ast, f)), Finish(f) >>)
  /\ UNCHANGED << ast, fields >>

\* A slip: a return is added whether the body needs it or not.
FinishFunctionAlways ==
  /\ Doing("finish", {"Function"})
  /\ Emit(<< RetVoid(Top.node) >>)
  /\ Continue(<< >>)
  /\ UNCHANGED << ast, fields, ir_value, insertBlock >>

FinishFunction ==
  /\ Doing("finish", {"Function"})
  /\ LET f == Top.node
     IN  Emit(IF always_returns[Body(ast, f)] THEN << >> ELSE << RetVoid(f) >>)
  /\ Continue(<< >>)
  /\ UNCHANGED << ast, fields, ir_value, insertBlock >>

(***************************************************************************)
(* Statements.                                                             *)
(***************************************************************************)

\* A slip: no break.
GeneratedAll(stmts) == stmts

\* The statements up to the first that always returns: nothing is generated
\* for the others.
Generated(stmts) ==
  LET returning == {i \in DOMAIN stmts : always_returns[stmts[i]]}
  IN  IF returning = {} THEN stmts ELSE SubSeq(stmts, 1, Min(returning))

\* A slip: the local variables after the statements.
VisitCompoundLocalsLast ==
  /\ Visiting({"Compound"})
  /\ LET n == Top.node
     IN  Continue(VisitAll(Generated(Statements(ast, n)) \o LocalDecls(ast, n)))
  /\ UNCHANGED << ast, fields, ir >>

VisitCompound ==
  /\ Visiting({"Compound"})
  /\ LET n == Top.node
     IN  Continue(VisitAll(LocalDecls(ast, n) \o Generated(Statements(ast, n))))
  /\ UNCHANGED << ast, fields, ir >>

VisitIf ==
  /\ Visiting({"If"})
  /\ LET n == Top.node
     IN  Continue(<< Visit(Kid(ast, n, 1)), [op |-> "branch", node |-> n] >>)
  /\ UNCHANGED << ast, fields, ir >>

\* The condition is generated: branch on it and go on in the then block.
\* There is no merge block when the if always returns, and no else block
\* but the merge block when it has no else.
BranchIf ==
  /\ Doing("branch", {"If"})
  /\ LET n == Top.node
         func == blocks[insertBlock].function
         merge == IF always_returns[n] THEN << >> ELSE << Block("post", nullptr, << >>) >>
         else  == IF Len(ast[n].kids) = 3 THEN << Block("else", nullptr, << >>) >> ELSE << >>
         then_block == Len(blocks) + 1
         merge_block == IF merge = << >> THEN nullptr ELSE then_block + 1
         else_block == IF else = << >> THEN merge_block
                       ELSE then_block + Len(merge) + 1
         branch == CondBr(n, ValueOf(Kid(ast, n, 1)), then_block, else_block)
     IN  /\ blocks' = Written(blocks, insertBlock, << branch >>) \o
                      << Block("then", func, << >>) >> \o merge \o else
         /\ insertBlock' = then_block
         /\ Continue(<< Visit(Kid(ast, n, 2)),
                        IfFrame("else", n, func, else_block, merge_block) >>)
  /\ UNCHANGED << ast, fields, ir_value >>

\* A slip: the branch is added whether control gets there or not.
GoToAlways(n, s, b) == << Br(n, b) >>

\* The end of statement s of node n: go to block b unless s always returns.
GoTo(n, s, b) == IF always_returns[s] THEN << >> ELSE << Br(n, b) >>

\* The then statement is generated: go on in the else block, or behind.
EnterElse ==
  /\ Doing("else", {"If"})
  /\ LET n == Top.node
         written == Written(blocks, insertBlock, GoTo(n, Kid(ast, n, 2), Top.merge_block))
     IN  /\ blocks' = Inserted(written, Top.else_block, Top.func)
         /\ insertBlock' = Top.else_block
         /\ \/ /\ Len(ast[n].kids) = 3
               /\ Continue(<< Visit(Kid(ast, n, 3)), [Top EXCEPT !.op = "merge"] >>)
            \/ /\ Len(ast[n].kids) = 2
               /\ Continue(<< >>)
  /\ UNCHANGED << ast, fields, ir_value >>

FinishIf ==
  /\ Doing("merge", {"If"})
  /\ LET n == Top.node
         written == Written(blocks, insertBlock, GoTo(n, Kid(ast, n, 3), Top.merge_block))
     IN  \/ /\ always_returns[n]
            /\ blocks' = written
            /\ UNCHANGED insertBlock
         \/ /\ ~ always_returns[n]
            /\ blocks' = Inserted(written, Top.merge_block, Top.func)
            /\ insertBlock' = Top.merge_block
  /\ Continue(<< >>)
  /\ UNCHANGED << ast, fields, ir_value >>

VisitWhile ==
  /\ Visiting({"While"})
  /\ LET n == Top.node
         func == blocks[insertBlock].function
         check == Len(blocks) + 1
     IN  /\ blocks' = Written(blocks, insertBlock, << Br(n, check) >>) \o
                      << Block("check", func, << >>), Block("loop", nullptr, << >>),
                         Block("post", nullptr, << >>) >>
         /\ insertBlock' = check
         /\ Continue(<< Visit(Kid(ast, n, 1)),
                        WhileFrame("loop", n, func, check, check + 1, check + 2) >>)
  /\ UNCHANGED << ast, fields, ir_value >>

EnterLoop ==
  /\ Doing("loop", {"While"})
  /\ LET n == Top.node
         branch == CondBr(n, ValueOf(Kid(ast, n, 1)), Top.loop, Top.post)
     IN  /\ blocks' = Inserted(Written(blocks, insertBlock, << branch >>), Top.loop, Top.func)
         /\ insertBlock' = Top.loop
         /\ Continue(<< Visit(Kid(ast, n, 2)), [Top EXCEPT !.op = "post"] >>)
  /\ UNCHANGED << ast, fields, ir_value >>

FinishWhile ==
  /\ Doing("post", {"While"})
  /\ LET n == Top.node
         written == Written(blocks, insertBlock, GoTo(n, Kid(ast, n, 2), Top.check))
     IN  /\ blocks' = Inserted(written, Top.post, Top.func)
         /\ insertBlock' = Top.post
         /\ Continue(<< >>)
  /\ UNCHANGED << ast, fields, ir_value >>

\* Return and expression statements: the expression, if any, first.
VisitStatement ==
  /\ Visiting({"Return", "ExpressionStmt"})
  /\ Continue(VisitAll(Kids(ast, Top.node)) \o << Finish(Top.node) >>)
  /\ UNCHANGED << ast, fields, ir >>

FinishReturn ==
  /\ Doing("finish", {"Return"})
  /\ LET n == Top.node
     IN  Emit(IF ast[n].kids = << >> THEN << RetVoid(n) >>
              ELSE << Ret(n, ValueOf(Kid(ast, n, 1))) >>)
  /\ Continue(<< >>)
  /\ UNCHANGED << ast, fields, ir_value, insertBlock >>

FinishExpressionStmt ==
  /\ Doing("finish", {"ExpressionStmt"})
  /\ Continue(<< >>)
  /\ UNCHANGED << ast, fields, ir >>

(***************************************************************************)
(* Expressions: the operands first, then the value of the expression.      *)
(***************************************************************************)
VisitOperands(kinds) ==
  /\ Visiting(kinds)
  /\ Continue(VisitAll(Kids(ast, Top.node)) \o << Finish(Top.node) >>)
  /\ UNCHANGED << ast, fields, ir >>

VisitExpression ==
  VisitOperands({"Subscript", "ImplicitCast", "Call", "Additive", "Multiplicative",
                 "Relational"})

\* The value is generated before the variable it is assigned to.
VisitAssignment ==
  /\ Visiting({"Assignment"})
  /\ LET n == Top.node
     IN  Continue(<< Visit(Kid(ast, n, 2)), Visit(Kid(ast, n, 1)), Finish(n) >>)
  /\ UNCHANGED << ast, fields, ir >>

FinishAssignment ==
  /\ Doing("finish", {"Assignment"})
  /\ LET n == Top.node
         store == Store(n, ValueOf(Kid(ast, n, 2)), ValueOf(Kid(ast, n, 1)))
     IN  Generates(n, << store >>, Result(store))

VisitVariableExpr ==
  /\ Visiting({"VariableExpr"})
  /\ LET n == Top.node
         place == ValueOf(referent[n])
         data_ptr == Load(n, place)
     IN  \/ /\ type[n].kind = "Array" /\ Decl(ast, referent[n]).kind = "Parameter"
            /\ Generates(n, << data_ptr >>, Result(data_ptr))
         \/ /\ ~ (type[n].kind = "Array" /\ Decl(ast, referent[n]).kind = "Parameter")
            /\ Generates(n, << >>, place)

FinishSubscript ==
  /\ Doing("finish", {"Subscript"})
  /\ LET n == Top.node
         place == ValueOf(referent[n])
         index == ValueOf(Kid(ast, n, 1))
         data_ptr == Load(n, place)
     IN  \/ /\ Decl(ast, referent[n]).kind = "Parameter"
            /\ Generates(n, << data_ptr >>, Computed("gep", n, << Result(data_ptr), index >>))
         \/ /\ Decl(ast, referent[n]).kind # "Parameter"
            /\ Generates(n, << >>, Computed("gep", n, << place, index >>))

FinishImplicitCast ==
  /\ Doing("finish", {"ImplicitCast"})
  /\ LET n == Top.node
         lvalue == Kid(ast, n, 1)
         load == Load(n, ValueOf(lvalue))
     IN  \/ /\ type[lvalue].kind # "Array"
            /\ Generates(n, << load >>, Result(load))
         \/ /\ type[lvalue].kind = "Array"
            /\ Generates(n, << >>, ValueOf(lvalue))

FinishCall ==
  /\ Doing("finish", {"Call"})
  /\ LET n == Top.node
         call == CallOf(n, << ValueOf(referent[n]) >> \o ValuesOf(Kids(ast, n)))
     IN  Generates(n, << call >>, Result(call))

\* The type of the result, of a comparison that of its left operand, selects
\* the instruction; for a type that is not listed there is none.
FinishOperation ==
  /\ Doing("finish", {"Additive", "Multiplicative", "Relational"})
  /\ LET n == Top.node
     IN  /\ \/ ast[n].kind = "Relational" /\ type[Kid(ast, n, 1)] \in {Int32, Bool, Float}
            \/ ast[n].kind # "Relational" /\ type[n] \in {Int32, Float}
         /\ Generates(n, << >>, Computed(ast[n].operation, n, ValuesOf(Kids(ast, n))))

VisitLiteral ==
  /\ Visiting({"IntLiteral", "FloatLiteral", "BoolLiteral"})
  /\ Generates(Top.node, << >>, Value("constant", Top.node, {}))

Next ==
  \/ VisitProgram
  \/ VisitVariable
  \/ VisitFunction \/ FinishFunction
  \/ VisitCompound
  \/ VisitIf \/ BranchIf \/ EnterElse \/ FinishIf
  \/ VisitWhile \/ EnterLoop \/ FinishWhile
  \/ VisitStatement \/ FinishReturn \/ FinishExpressionStmt
  \/ VisitExpression
  \/ VisitAssignment \/ FinishAssignment
  \/ VisitVariableExpr
  \/ FinishSubscript \/ FinishImplicitCast \/ FinishCall
  \/ FinishOperation
  \/ VisitLiteral

\* One thread runs the pass to its end.
Spec == Init /\ [][Next]_vars /\ WF_vars(Next)

(***************************************************************************)
(* Properties.                                                             *)
(***************************************************************************)

\* Every state is of the shape the code declares: what was generated is for
\* nodes of the tree, branches lead to blocks that exist.
TypeOK ==
  /\ \A i \in DOMAIN stack : stack[i].node \in DOMAIN ast
  /\ DOMAIN ir_value \subseteq BuiltinDecls \cup DOMAIN ast
  /\ insertBlock \in {nullptr} \cup DOMAIN blocks
  /\ \A b \in DOMAIN blocks :
       /\ blocks[b].function \in {nullptr} \cup BuiltinDecls \cup FunctionsOf(ast)
       /\ \A i \in DOMAIN blocks[b].code :
            /\ blocks[b].code[i].at \in BuiltinDecls \cup DOMAIN ast
            /\ Range(blocks[b].code[i].targets) \subseteq DOMAIN blocks

\* Nothing is ever written behind the terminator of a block: wherever the
\* insert point is left by a statement that always returns, the visits around
\* it move it or stop (CodegenVisitor.cpp:205-211, 238-267, 291-302).
NothingAfterTerminator ==
  \A b \in DOMAIN blocks :
    \A i \in DOMAIN blocks[b].code :
      blocks[b].code[i].op \in Terminators => i = Len(blocks[b].code)

BlocksOf(f) == {b \in DOMAIN blocks : blocks[b].function = f}

\* The first block inserted in a function is its entry.
Entry(f) == Min(BlocksOf(f))

Successors(b) == UNION {Range(i.targets) : i \in Range(blocks[b].code)}

\* The blocks that a run of f may come to.
Reached(f) ==
  LET within[jumps \in 0 .. Len(blocks)] ==
        IF jumps = 0 THEN {Entry(f)}
        ELSE LET before == within[jumps - 1]
             IN  before \cup UNION {Successors(b) : b \in before}
  IN  within[Len(blocks)]

\* When the pass ends every block that was created is part of a function, can
\* be reached from its entry, ends with a terminator, and branches to blocks
\* of the same function: the blocks created before it is known where they go
\* (post, else, loop) are all placed, and none is dead.
BlocksComplete ==
  Finished =>
    \A b \in DOMAIN blocks :
      /\ blocks[b].function # nullptr
      /\ b \in Reached(blocks[b].function)
      /\ blocks[b].code # << >>
      /\ Last(blocks[b].code).op \in Terminators
      /\ Successors(b) \subseteq BlocksOf(blocks[b].function) \ {Entry(blocks[b].function)}

(***************************************************************************)
(* The instructions that a run of f executes under the oracle.             *)
(***************************************************************************)
Executed(f, oracle) ==
  LET limit == (Len(oracle) + 1) * (Len(blocks) + 1)
      Follow(x) ==
        LET code == blocks[x.block].code
            last == Last(code)
            done == IF last.op = "br" THEN Front(code) ELSE code
            on   == [x EXCEPT !.code = @ \o done, !.block = nullptr]
        IN  CASE code = << >> -> [x EXCEPT !.block = nullptr]
              [] last.op = "br" -> [on EXCEPT !.block = last.targets[1]]
              [] last.op = "condbr" /\ x.taken < Len(oracle) ->
                   [on EXCEPT !.block = last.targets[IF oracle[x.taken + 1] THEN 1 ELSE 2],
                              !.taken = @ + 1]
              [] OTHER -> on
      run[step \in 0 .. limit] ==
        IF step = 0
        THEN [block |-> Entry(f), taken |-> 0, code |-> << >>]
        ELSE LET x == run[step - 1]
             IN  IF x.block = nullptr THEN x ELSE Follow(x)
  IN  run[limit].code

Oracles == [1 .. MaxDecisions -> BOOLEAN]

\* The generated code does what the program says: under every oracle, a run of
\* the blocks of a function has the effects and takes the decisions of a run
\* of the function, in the same order, and returns where it does (module
\* Execution).
RunsAsWritten ==
  Finished =>
    LET effects == EffectsOf(ast, referent, type)
    IN  \A f \in FunctionsOf(ast), oracle \in Oracles :
          LET code == Executed(f, oracle)
          IN  [i \in DOMAIN code |-> Effect(code[i].op, code[i].at)] =
                RunOf(ast, effects, f, oracle)

\* No instruction uses a value that is not there: a run has executed whatever
\* the operands of an instruction are computed from before it comes to the
\* instruction, and no ir_value is read before it was set (AST.hpp:168 leaves
\* it uninitialised).
OperandsComputed ==
  Finished =>
    \A f \in FunctionsOf(ast) \cup BuiltinDecls, oracle \in Oracles :
      LET code == Executed(f, oracle)
      IN  \A i \in DOMAIN code : \A x \in Range(code[i].args) :
            x.needs \subseteq {Effect(code[j].op, code[j].at) : j \in 1 .. i - 1}

\* "Only void functions should implicitly return" (CodegenVisitor.cpp:185):
\* what the return analysis of the semantic pass accepts is enough for it.
ImplicitReturnsAreVoid ==
  \A b \in DOMAIN blocks : \A i \in Range(blocks[b].code) :
    i.op = "ret" /\ i.at \in FunctionsOf(ast) => ast[i.at].type = Void

\* llvm::verifyFunction (CodegenVisitor.cpp:191), whose answer is not looked
\* at, asks that a return with an operand returns a value, which a store and
\* a call of a void function are not.
ReturnsVerify ==
  \A b \in DOMAIN blocks : \A i \in Range(blocks[b].code) :
    i.op = "ret" => \A x \in Range(i.args) :
      /\ x.op # "store"
      /\ x.op = "call" => Decl(ast, referent[x.at]).type # Void
=============================================================================
