---------------------------- MODULE CMinus_proofs ----------------------------
(***************************************************************************)
(* The driver, over any set of programs and of command lines: each pass    *)
(* gets what it takes for granted, a program that is not accepted is       *)
(* answered with a failure, and only named files are written.              *)
(*                                                                         *)
(* What is proved of a pass on its own holds of the pass in the compiler,  *)
(* where the invariants of the passes are put one behind the other.  Both  *)
(* the driver and the proofs have instances of the passes.                 *)
(***************************************************************************)
EXTENDS CMinus, TLAPS

SymbolProofs    == INSTANCE SymbolVisitor_proofs
SemanticProofs  == INSTANCE SemanticVisitor_proofs
GeneratorProofs == INSTANCE CodegenVisitor_proofs
PrinterProofs   == INSTANCE PrintVisitor_proofs

(***************************************************************************)
(* The passes of the driver are those of the proofs: the definitions of    *)
(* the instances, written out, are the same.                               *)
(***************************************************************************)
LEMMA ProgramsAgree ==
  ASSUME NEW t
  PROVE  /\ SymbolProofs!IsProgram(t) = IsProgram(t)
         /\ SemanticProofs!IsProgram(t) = IsProgram(t)
         /\ GeneratorProofs!IsProgram(t) = IsProgram(t)
         /\ PrinterProofs!IsProgram(t) = IsProgram(t)
<1>1. SymbolProofs!IsProgram(t) = IsProgram(t)
  BY Zenon DEF
     IsProgram, IsTree, NodeKinds, LaidOut, KidsFit, DeclKinds, Type, StatementKinds,
     ExpressionKinds, Kid, KidStart, LvalueKinds, LiteralKinds, PrimitiveType,
     SymbolProofs!IsProgram, SymbolProofs!IsTree, SymbolProofs!NodeKinds, SymbolProofs!LaidOut,
     SymbolProofs!KidsFit, SymbolProofs!DeclKinds, SymbolProofs!Type,
     SymbolProofs!StatementKinds, SymbolProofs!ExpressionKinds, SymbolProofs!Kid,
     SymbolProofs!KidStart, SymbolProofs!LvalueKinds, SymbolProofs!LiteralKinds,
     SymbolProofs!PrimitiveType
<1>2. SemanticProofs!IsProgram(t) = IsProgram(t)
  BY Zenon DEF
     IsProgram, IsTree, NodeKinds, LaidOut, KidsFit, DeclKinds, Type, StatementKinds,
     ExpressionKinds, Kid, KidStart, LvalueKinds, LiteralKinds, PrimitiveType,
     SemanticProofs!IsProgram, SemanticProofs!IsTree, SemanticProofs!NodeKinds,
     SemanticProofs!LaidOut, SemanticProofs!KidsFit, SemanticProofs!DeclKinds,
     SemanticProofs!Type, SemanticProofs!StatementKinds, SemanticProofs!ExpressionKinds,
     SemanticProofs!Kid, SemanticProofs!KidStart, SemanticProofs!LvalueKinds,
     SemanticProofs!LiteralKinds, SemanticProofs!PrimitiveType
<1>3. GeneratorProofs!IsProgram(t) = IsProgram(t)
  BY Zenon DEF
     IsProgram, IsTree, NodeKinds, LaidOut, KidsFit, DeclKinds, Type, StatementKinds,
     ExpressionKinds, Kid, KidStart, LvalueKinds, LiteralKinds, PrimitiveType,
     GeneratorProofs!IsProgram, GeneratorProofs!IsTree, GeneratorProofs!NodeKinds,
     GeneratorProofs!LaidOut, GeneratorProofs!KidsFit, GeneratorProofs!DeclKinds,
     GeneratorProofs!Type, GeneratorProofs!StatementKinds, GeneratorProofs!ExpressionKinds,
     GeneratorProofs!Kid, GeneratorProofs!KidStart, GeneratorProofs!LvalueKinds,
     GeneratorProofs!LiteralKinds, GeneratorProofs!PrimitiveType
<1>4. PrinterProofs!IsProgram(t) = IsProgram(t)
  BY Zenon DEF
     IsProgram, IsTree, NodeKinds, LaidOut, KidsFit, DeclKinds, Type, StatementKinds,
     ExpressionKinds, Kid, KidStart, LvalueKinds, LiteralKinds, PrimitiveType,
     PrinterProofs!IsProgram, PrinterProofs!IsTree, PrinterProofs!NodeKinds,
     PrinterProofs!LaidOut, PrinterProofs!KidsFit, PrinterProofs!DeclKinds, PrinterProofs!Type,
     PrinterProofs!StatementKinds, PrinterProofs!ExpressionKinds, PrinterProofs!Kid,
     PrinterProofs!KidStart, PrinterProofs!LvalueKinds, PrinterProofs!LiteralKinds,
     PrinterProofs!PrimitiveType
<1>5. QED
  BY <1>1, <1>2, <1>3, <1>4, Zenon

\* What the modules of the passes assume of the constants.
LEMMA SymbolAssumptions ==
  /\ \A t \in Programs :
       /\ SymbolProofs!IsProgram(t)
       /\ DOMAIN t \subseteq DeclId
       /\ \A n \in SymbolProofs!DeclsOf(t) \cup SymbolProofs!UsesOf(t) : t[n].name \in Name
  /\ DeclId \subseteq Int
     /\ DeclId \cap ({SymbolProofs!nullptr} \cup SymbolProofs!BuiltinDecls) = {}
  /\ \A i \in DOMAIN SymbolProofs!g_builtins : SymbolProofs!g_builtins[i].name \in Name
<1>1. ASSUME NEW t \in Programs PROVE SymbolProofs!IsProgram(t)
  BY PassAssumption, ProgramsAgree, Zenon
<1>2. ASSUME NEW t \in Programs
      PROVE  \A n \in SymbolProofs!DeclsOf(t) \cup SymbolProofs!UsesOf(t) : t[n].name \in Name
  BY PassAssumption, Zenon DEF
     DeclsOf, UsesOf, DeclKinds, UseKinds, SymbolProofs!DeclsOf, SymbolProofs!UsesOf,
     SymbolProofs!DeclKinds, SymbolProofs!UseKinds
<1>3. \A i \in DOMAIN SymbolProofs!g_builtins : SymbolProofs!g_builtins[i].name \in Name
  BY PassAssumption, Zenon DEF
     g_builtins, Int32, Void, Primitive, SymbolProofs!g_builtins, SymbolProofs!Int32,
     SymbolProofs!Void, SymbolProofs!Primitive
<1>4. QED
  BY <1>1, <1>2, <1>3, PassAssumption
     DEF nullptr, BuiltinDecls, SymbolProofs!nullptr, SymbolProofs!BuiltinDecls

LEMMA SemanticAssumptions ==
  /\ \A t \in Programs : SemanticProofs!IsProgram(t)
  /\ \A t \in Programs : SemanticProofs!InSourceOrder(t)
<1>1. ASSUME NEW t \in Programs PROVE SemanticProofs!IsProgram(t)
  BY PassAssumption, ProgramsAgree, Zenon
<1>2. ASSUME NEW t \in Programs PROVE SemanticProofs!InSourceOrder(t)
  BY PlacesAssumption, Zenon
     DEF SemanticPass!InSourceOrder, SemanticPass!Location, SemanticProofs!InSourceOrder,
         SemanticProofs!Location
<1>3. QED
  BY <1>1, <1>2

LEMMA GeneratorAssumptions ==
  (\A t \in Programs : GeneratorProofs!IsProgram(t)) /\ MaxDecisions \in Nat
  BY PassAssumption, ProgramsAgree, Zenon

LEMMA PrinterAssumptions == \A t \in Programs : PrinterProofs!IsProgram(t)
  BY PassAssumption, ProgramsAgree, Zenon

LEMMA SymbolStep == ASSUME SymbolPass!Next PROVE SymbolProofs!Next
  BY ZenonT(120) DEF
     SymbolPass!Next, SymbolPass!VisitProgram, SymbolPass!DeclareNext,
     SymbolPass!VisitVariable, SymbolPass!VisitFunction, SymbolPass!VisitCompound,
     SymbolPass!LeaveScope, SymbolPass!VisitStatement, SymbolPass!VisitAssignment,
     SymbolPass!VisitImplicitCast, SymbolPass!VisitBinary, SymbolPass!VisitLiteral,
     SymbolPass!VisitVariableExpr, SymbolPass!VisitCall, SymbolPass!Visiting,
     SymbolPass!Continue, SymbolPass!DeclareAll, SymbolPass!Kids, SymbolPass!Top,
     SymbolPass!tableVars, SymbolPass!Doing, SymbolPass!DeclKinds, SymbolPass!insert,
     SymbolPass!Assigned, SymbolPass!getNestLevel, SymbolPass!Visit, SymbolPass!Declared,
     SymbolPass!Throw, SymbolPass!enterScope, SymbolPass!Parameters, SymbolPass!Body,
     SymbolPass!Exit, SymbolPass!LocalDecls, SymbolPass!VisitAll, SymbolPass!Statements,
     SymbolPass!exitScope, SymbolPass!VisitChildren, SymbolPass!LinkUse, SymbolPass!Front,
     SymbolPass!Reverse, SymbolPass!Declare, SymbolPass!Kid, SymbolPass!Last,
     SymbolPass!nullptr, SymbolPass!LastKid, SymbolPass!lookup, SymbolPass!LookupFrom,
     SymbolPass!ScopesOf, SymbolProofs!Next, SymbolProofs!VisitProgram,
     SymbolProofs!DeclareNext, SymbolProofs!VisitVariable, SymbolProofs!VisitFunction,
     SymbolProofs!VisitCompound, SymbolProofs!LeaveScope, SymbolProofs!VisitStatement,
     SymbolProofs!VisitAssignment, SymbolProofs!VisitImplicitCast, SymbolProofs!VisitBinary,
     SymbolProofs!VisitLiteral, SymbolProofs!VisitVariableExpr, SymbolProofs!VisitCall,
     SymbolProofs!Visiting, SymbolProofs!Continue, SymbolProofs!DeclareAll, SymbolProofs!Kids,
     SymbolProofs!Top, SymbolProofs!tableVars, SymbolProofs!Doing, SymbolProofs!DeclKinds,
     SymbolProofs!insert, SymbolProofs!Assigned, SymbolProofs!getNestLevel, SymbolProofs!Visit,
     SymbolProofs!Declared, SymbolProofs!Throw, SymbolProofs!enterScope,
     SymbolProofs!Parameters, SymbolProofs!Body, SymbolProofs!Exit, SymbolProofs!LocalDecls,
     SymbolProofs!VisitAll, SymbolProofs!Statements, SymbolProofs!exitScope,
     SymbolProofs!VisitChildren, SymbolProofs!LinkUse, SymbolProofs!Front,
     SymbolProofs!Reverse, SymbolProofs!Declare, SymbolProofs!Kid, SymbolProofs!Last,
     SymbolProofs!nullptr, SymbolProofs!LastKid, SymbolProofs!lookup, SymbolProofs!LookupFrom,
     SymbolProofs!ScopesOf

LEMMA DeclarationStep ==
  ASSUME SemanticPass!VisitProgram \/ SemanticPass!VisitDeclaration \/
         SemanticPass!FinishProgram \/ SemanticPass!VisitVariable \/
         SemanticPass!VisitFunction \/ SemanticPass!VisitBody \/
         SemanticPass!FinishFunction
  PROVE  SemanticProofs!VisitProgram \/ SemanticProofs!VisitDeclaration \/
         SemanticProofs!FinishProgram \/ SemanticProofs!VisitVariable \/
         SemanticProofs!VisitFunction \/ SemanticProofs!VisitBody \/
         SemanticProofs!FinishFunction
  BY ZenonT(60) DEF
     SemanticPass!VisitProgram, SemanticPass!VisitDeclaration, SemanticPass!FinishProgram,
     SemanticPass!VisitVariable, SemanticPass!VisitFunction, SemanticPass!VisitBody,
     SemanticPass!FinishFunction, SemanticPass!Visiting, SemanticPass!Kids,
     SemanticPass!Top, SemanticPass!Continue, SemanticPass!Declaration, SemanticPass!Finish,
     SemanticPass!fields, SemanticPass!Doing, SemanticPass!DeclKinds,
     SemanticPass!addErrors, SemanticPass!When, SemanticPass!LastKid, SemanticPass!Visit,
     SemanticPass!Void, SemanticPass!VisitAll, SemanticPass!Parameters,
     SemanticPass!EnterBody, SemanticPass!Body, SemanticPass!nullptr, SemanticPass!Kid,
     SemanticPass!Last, SemanticPass!Front, SemanticPass!Reverse, SemanticPass!WithError,
     SemanticPass!Error, SemanticPass!Primitive, SemanticPass!Sorted,
     SemanticPass!LocationOf, SemanticPass!LocationAt, SemanticPass!Permuted,
     SemanticPass!Bijection, SemanticPass!InOrder, SemanticPass!Locations,
     SemanticPass!Injection, SemanticPass!Surjection, SemanticPass!Precedes,
     SemanticPass!StartsWithChild, SemanticPass!IsInjective, SemanticProofs!VisitProgram,
     SemanticProofs!VisitDeclaration, SemanticProofs!FinishProgram,
     SemanticProofs!VisitVariable, SemanticProofs!VisitFunction, SemanticProofs!VisitBody,
     SemanticProofs!FinishFunction, SemanticProofs!Visiting, SemanticProofs!Kids,
     SemanticProofs!Top, SemanticProofs!Continue, SemanticProofs!Declaration,
     SemanticProofs!Finish, SemanticProofs!fields, SemanticProofs!Doing,
     SemanticProofs!DeclKinds, SemanticProofs!addErrors, SemanticProofs!When,
     SemanticProofs!LastKid, SemanticProofs!Visit, SemanticProofs!Void,
     SemanticProofs!VisitAll, SemanticProofs!Parameters, SemanticProofs!EnterBody,
     SemanticProofs!Body, SemanticProofs!nullptr, SemanticProofs!Kid, SemanticProofs!Last,
     SemanticProofs!Front, SemanticProofs!Reverse, SemanticProofs!WithError,
     SemanticProofs!Error, SemanticProofs!Primitive, SemanticProofs!Sorted,
     SemanticProofs!LocationOf, SemanticProofs!LocationAt, SemanticProofs!Permuted,
     SemanticProofs!Bijection, SemanticProofs!InOrder, SemanticProofs!Locations,
     SemanticProofs!Injection, SemanticProofs!Surjection, SemanticProofs!Precedes,
     SemanticProofs!StartsWithChild, SemanticProofs!IsInjective

LEMMA StatementStep ==
  ASSUME SemanticPass!VisitStatement \/ SemanticPass!FinishCompound \/
         SemanticPass!FinishReturn \/ SemanticPass!FinishExpressionStmt \/
         SemanticPass!VisitConditional \/ SemanticPass!CheckCondition \/
         SemanticPass!FinishConditional
  PROVE  SemanticProofs!VisitStatement \/ SemanticProofs!FinishCompound \/
         SemanticProofs!FinishReturn \/ SemanticProofs!FinishExpressionStmt \/
         SemanticProofs!VisitConditional \/ SemanticProofs!CheckCondition \/
         SemanticProofs!FinishConditional
  BY ZenonT(60) DEF
     SemanticPass!VisitStatement, SemanticPass!FinishCompound, SemanticPass!FinishReturn,
     SemanticPass!FinishExpressionStmt, SemanticPass!VisitConditional,
     SemanticPass!CheckCondition, SemanticPass!FinishConditional, SemanticPass!Visiting,
     SemanticPass!Kids, SemanticPass!Top, SemanticPass!Continue, SemanticPass!Finish,
     SemanticPass!fields, SemanticPass!VisitAll, SemanticPass!Doing, SemanticPass!Returns,
     SemanticPass!Range, SemanticPass!Statements, SemanticPass!addErrors, SemanticPass!When,
     SemanticPass!Void, SemanticPass!Kid, SemanticPass!Visit, SemanticPass!Check,
     SemanticPass!Bool, SemanticPass!Last, SemanticPass!Front, SemanticPass!Reverse,
     SemanticPass!Assigned, SemanticPass!WithError, SemanticPass!Error,
     SemanticPass!Primitive, SemanticPass!Sorted, SemanticPass!LocationOf,
     SemanticPass!LocationAt, SemanticPass!Permuted, SemanticPass!Bijection,
     SemanticPass!InOrder, SemanticPass!Locations, SemanticPass!Injection,
     SemanticPass!Surjection, SemanticPass!Precedes, SemanticPass!StartsWithChild,
     SemanticPass!IsInjective, SemanticProofs!VisitStatement, SemanticProofs!FinishCompound,
     SemanticProofs!FinishReturn, SemanticProofs!FinishExpressionStmt,
     SemanticProofs!VisitConditional, SemanticProofs!CheckCondition,
     SemanticProofs!FinishConditional, SemanticProofs!Visiting, SemanticProofs!Kids,
     SemanticProofs!Top, SemanticProofs!Continue, SemanticProofs!Finish,
     SemanticProofs!fields, SemanticProofs!VisitAll, SemanticProofs!Doing,
     SemanticProofs!Returns, SemanticProofs!Range, SemanticProofs!Statements,
     SemanticProofs!addErrors, SemanticProofs!When, SemanticProofs!Void, SemanticProofs!Kid,
     SemanticProofs!Visit, SemanticProofs!Check, SemanticProofs!Bool, SemanticProofs!Last,
     SemanticProofs!Front, SemanticProofs!Reverse, SemanticProofs!Assigned,
     SemanticProofs!WithError, SemanticProofs!Error, SemanticProofs!Primitive,
     SemanticProofs!Sorted, SemanticProofs!LocationOf, SemanticProofs!LocationAt,
     SemanticProofs!Permuted, SemanticProofs!Bijection, SemanticProofs!InOrder,
     SemanticProofs!Locations, SemanticProofs!Injection, SemanticProofs!Surjection,
     SemanticProofs!Precedes, SemanticProofs!StartsWithChild, SemanticProofs!IsInjective

LEMMA AssignmentStep ==
  ASSUME SemanticPass!VisitAssignment \/ SemanticPass!CheckTarget \/
         SemanticPass!FinishAssignment \/ SemanticPass!VisitVariableExpr
  PROVE  SemanticProofs!VisitAssignment \/ SemanticProofs!CheckTarget \/
         SemanticProofs!FinishAssignment \/ SemanticProofs!VisitVariableExpr
  BY ZenonT(60) DEF
     SemanticPass!VisitAssignment, SemanticPass!CheckTarget, SemanticPass!FinishAssignment,
     SemanticPass!VisitVariableExpr, SemanticPass!Visiting, SemanticPass!Top,
     SemanticPass!Continue, SemanticPass!Finish, SemanticPass!fields, SemanticPass!Visit,
     SemanticPass!Kid, SemanticPass!Check, SemanticPass!Doing, SemanticPass!addErrors,
     SemanticPass!When, SemanticPass!Void, SemanticPass!HasType, SemanticPass!IsFunction,
     SemanticPass!Decl, SemanticPass!Last, SemanticPass!Front, SemanticPass!Reverse,
     SemanticPass!WithError, SemanticPass!Error, SemanticPass!Primitive,
     SemanticPass!Assigned, SemanticPass!BuiltinDecls, SemanticPass!g_builtins,
     SemanticPass!Sorted, SemanticPass!LocationOf, SemanticPass!LocationAt,
     SemanticPass!Int32, SemanticPass!Permuted, SemanticPass!Bijection,
     SemanticPass!InOrder, SemanticPass!Locations, SemanticPass!Injection,
     SemanticPass!Surjection, SemanticPass!Precedes, SemanticPass!StartsWithChild,
     SemanticPass!IsInjective, SemanticProofs!VisitAssignment, SemanticProofs!CheckTarget,
     SemanticProofs!FinishAssignment, SemanticProofs!VisitVariableExpr,
     SemanticProofs!Visiting, SemanticProofs!Top, SemanticProofs!Continue,
     SemanticProofs!Finish, SemanticProofs!fields, SemanticProofs!Visit, SemanticProofs!Kid,
     SemanticProofs!Check, SemanticProofs!Doing, SemanticProofs!addErrors,
     SemanticProofs!When, SemanticProofs!Void, SemanticProofs!HasType,
     SemanticProofs!IsFunction, SemanticProofs!Decl, SemanticProofs!Last,
     SemanticProofs!Front, SemanticProofs!Reverse, SemanticProofs!WithError,
     SemanticProofs!Error, SemanticProofs!Primitive, SemanticProofs!Assigned,
     SemanticProofs!BuiltinDecls, SemanticProofs!g_builtins, SemanticProofs!Sorted,
     SemanticProofs!LocationOf, SemanticProofs!LocationAt, SemanticProofs!Int32,
     SemanticProofs!Permuted, SemanticProofs!Bijection, SemanticProofs!InOrder,
     SemanticProofs!Locations, SemanticProofs!Injection, SemanticProofs!Surjection,
     SemanticProofs!Precedes, SemanticProofs!StartsWithChild, SemanticProofs!IsInjective

LEMMA SubscriptStep ==
  ASSUME SemanticPass!VisitSubscript \/ SemanticPass!FinishSubscript
  PROVE  SemanticProofs!VisitSubscript \/ SemanticProofs!FinishSubscript
  BY ZenonT(60) DEF
     SemanticPass!VisitSubscript, SemanticPass!FinishSubscript, SemanticPass!Visiting,
     SemanticPass!Top, SemanticPass!Continue, SemanticPass!Finish, SemanticPass!fields,
     SemanticPass!Visit, SemanticPass!Kid, SemanticPass!addErrors, SemanticPass!When,
     SemanticPass!IsFunction, SemanticPass!Decl, SemanticPass!Doing, SemanticPass!HasType,
     SemanticPass!Int32, SemanticPass!Primitive, SemanticPass!Last, SemanticPass!Front,
     SemanticPass!Reverse, SemanticPass!WithError, SemanticPass!Error,
     SemanticPass!BuiltinDecls, SemanticPass!g_builtins, SemanticPass!Assigned,
     SemanticPass!Sorted, SemanticPass!LocationOf, SemanticPass!LocationAt,
     SemanticPass!Void, SemanticPass!Permuted, SemanticPass!Bijection, SemanticPass!InOrder,
     SemanticPass!Locations, SemanticPass!Injection, SemanticPass!Surjection,
     SemanticPass!Precedes, SemanticPass!StartsWithChild, SemanticPass!IsInjective,
     SemanticProofs!VisitSubscript, SemanticProofs!FinishSubscript, SemanticProofs!Visiting,
     SemanticProofs!Top, SemanticProofs!Continue, SemanticProofs!Finish,
     SemanticProofs!fields, SemanticProofs!Visit, SemanticProofs!Kid,
     SemanticProofs!addErrors, SemanticProofs!When, SemanticProofs!IsFunction,
     SemanticProofs!Decl, SemanticProofs!Doing, SemanticProofs!HasType,
     SemanticProofs!Int32, SemanticProofs!Primitive, SemanticProofs!Last,
     SemanticProofs!Front, SemanticProofs!Reverse, SemanticProofs!WithError,
     SemanticProofs!Error, SemanticProofs!BuiltinDecls, SemanticProofs!g_builtins,
     SemanticProofs!Assigned, SemanticProofs!Sorted, SemanticProofs!LocationOf,
     SemanticProofs!LocationAt, SemanticProofs!Void, SemanticProofs!Permuted,
     SemanticProofs!Bijection, SemanticProofs!InOrder, SemanticProofs!Locations,
     SemanticProofs!Injection, SemanticProofs!Surjection, SemanticProofs!Precedes,
     SemanticProofs!StartsWithChild, SemanticProofs!IsInjective

LEMMA CallStep ==
  ASSUME SemanticPass!VisitCall \/ SemanticPass!CheckArgument \/ SemanticPass!FinishCall
  PROVE  SemanticProofs!VisitCall \/ SemanticProofs!CheckArgument \/
         SemanticProofs!FinishCall
  BY ZenonT(60) DEF
     SemanticPass!VisitCall, SemanticPass!CheckArgument, SemanticPass!FinishCall,
     SemanticPass!Visiting, SemanticPass!Top, SemanticPass!Continue, SemanticPass!Finish,
     SemanticPass!fields, SemanticPass!Visit, SemanticPass!addErrors,
     SemanticPass!IsFunction, SemanticPass!Kids, SemanticPass!VisitAll,
     SemanticPass!Argument, SemanticPass!Error, SemanticPass!ParameterTypes,
     SemanticPass!Kid, SemanticPass!Doing, SemanticPass!When, SemanticPass!HasType,
     SemanticPass!Decl, SemanticPass!Last, SemanticPass!Front, SemanticPass!Reverse,
     SemanticPass!WithError, SemanticPass!LocationOf, SemanticPass!LocationAt,
     SemanticPass!BuiltinDecls, SemanticPass!g_builtins, SemanticPass!Parameters,
     SemanticPass!Assigned, SemanticPass!Sorted, SemanticPass!Locations, SemanticPass!Void,
     SemanticPass!Int32, SemanticPass!Permuted, SemanticPass!Bijection,
     SemanticPass!InOrder, SemanticPass!StartsWithChild, SemanticPass!Primitive,
     SemanticPass!Injection, SemanticPass!Surjection, SemanticPass!Precedes,
     SemanticPass!IsInjective, SemanticProofs!VisitCall, SemanticProofs!CheckArgument,
     SemanticProofs!FinishCall, SemanticProofs!Visiting, SemanticProofs!Top,
     SemanticProofs!Continue, SemanticProofs!Finish, SemanticProofs!fields,
     SemanticProofs!Visit, SemanticProofs!addErrors, SemanticProofs!IsFunction,
     SemanticProofs!Kids, SemanticProofs!VisitAll, SemanticProofs!Argument,
     SemanticProofs!Error, SemanticProofs!ParameterTypes, SemanticProofs!Kid,
     SemanticProofs!Doing, SemanticProofs!When, SemanticProofs!HasType, SemanticProofs!Decl,
     SemanticProofs!Last, SemanticProofs!Front, SemanticProofs!Reverse,
     SemanticProofs!WithError, SemanticProofs!LocationOf, SemanticProofs!LocationAt,
     SemanticProofs!BuiltinDecls, SemanticProofs!g_builtins, SemanticProofs!Parameters,
     SemanticProofs!Assigned, SemanticProofs!Sorted, SemanticProofs!Locations,
     SemanticProofs!Void, SemanticProofs!Int32, SemanticProofs!Permuted,
     SemanticProofs!Bijection, SemanticProofs!InOrder, SemanticProofs!StartsWithChild,
     SemanticProofs!Primitive, SemanticProofs!Injection, SemanticProofs!Surjection,
     SemanticProofs!Precedes, SemanticProofs!IsInjective

LEMMA OperationStep ==
  ASSUME SemanticPass!VisitOperation \/ SemanticPass!FinishImplicitCast \/
         SemanticPass!FinishArithmetic \/ SemanticPass!FinishRelational \/
         SemanticPass!VisitLiteral
  PROVE  SemanticProofs!VisitOperation \/ SemanticProofs!FinishImplicitCast \/
         SemanticProofs!FinishArithmetic \/ SemanticProofs!FinishRelational \/
         SemanticProofs!VisitLiteral
  BY ZenonT(60) DEF
     SemanticPass!VisitOperation, SemanticPass!FinishImplicitCast,
     SemanticPass!FinishArithmetic, SemanticPass!FinishRelational,
     SemanticPass!VisitLiteral, SemanticPass!Visiting, SemanticPass!Kids, SemanticPass!Top,
     SemanticPass!Continue, SemanticPass!Finish, SemanticPass!fields, SemanticPass!VisitAll,
     SemanticPass!Doing, SemanticPass!Kid, SemanticPass!HasType, SemanticPass!addErrors,
     SemanticPass!invalidOperation, SemanticPass!NotArithmetic, SemanticPass!left,
     SemanticPass!right, SemanticPass!Void, SemanticPass!Bool, SemanticPass!Int32,
     SemanticPass!Float, SemanticPass!Last, SemanticPass!Front, SemanticPass!Reverse,
     SemanticPass!Visit, SemanticPass!Assigned, SemanticPass!WithError, SemanticPass!When,
     SemanticPass!Primitive, SemanticPass!Sorted, SemanticPass!Error, SemanticPass!Permuted,
     SemanticPass!Bijection, SemanticPass!InOrder, SemanticPass!LocationOf,
     SemanticPass!LocationAt, SemanticPass!Injection, SemanticPass!Surjection,
     SemanticPass!Precedes, SemanticPass!Locations, SemanticPass!IsInjective,
     SemanticPass!StartsWithChild, SemanticProofs!VisitOperation,
     SemanticProofs!FinishImplicitCast, SemanticProofs!FinishArithmetic,
     SemanticProofs!FinishRelational, SemanticProofs!VisitLiteral, SemanticProofs!Visiting,
     SemanticProofs!Kids, SemanticProofs!Top, SemanticProofs!Continue,
     SemanticProofs!Finish, SemanticProofs!fields, SemanticProofs!VisitAll,
     SemanticProofs!Doing, SemanticProofs!Kid, SemanticProofs!HasType,
     SemanticProofs!addErrors, SemanticProofs!invalidOperation,
     SemanticProofs!NotArithmetic, SemanticProofs!left, SemanticProofs!right,
     SemanticProofs!Void, SemanticProofs!Bool, SemanticProofs!Int32, SemanticProofs!Float,
     SemanticProofs!Last, SemanticProofs!Front, SemanticProofs!Reverse,
     SemanticProofs!Visit, SemanticProofs!Assigned, SemanticProofs!WithError,
     SemanticProofs!When, SemanticProofs!Primitive, SemanticProofs!Sorted,
     SemanticProofs!Error, SemanticProofs!Permuted, SemanticProofs!Bijection,
     SemanticProofs!InOrder, SemanticProofs!LocationOf, SemanticProofs!LocationAt,
     SemanticProofs!Injection, SemanticProofs!Surjection, SemanticProofs!Precedes,
     SemanticProofs!Locations, SemanticProofs!IsInjective, SemanticProofs!StartsWithChild

LEMMA SemanticStep == ASSUME SemanticPass!Next PROVE SemanticProofs!Next
  BY DeclarationStep, StatementStep, AssignmentStep, SubscriptStep, CallStep,
     OperationStep, Zenon
     DEF SemanticPass!Next, SemanticProofs!Next

LEMMA ProgramGenerated ==
  ASSUME Generator!VisitProgram
  PROVE  GeneratorProofs!VisitProgram
  BY ZenonT(60) DEF
     Generator!VisitProgram, Generator!Visiting, Generator!BuiltinDecls, Generator!Value,
     Generator!Block, Generator!InputCode, Generator!OutputCode, Generator!Continue,
     Generator!VisitAll, Generator!Kids, Generator!Top, Generator!fields, Generator!Doing,
     Generator!Alloca, Generator!Result, Generator!Ret, Generator!Load, Generator!CallOf,
     Generator!RetVoid, Generator!Front, Generator!Reverse, Generator!Visit, Generator!Kid,
     Generator!Last, Generator!Instruction, Generator!Effect, GeneratorProofs!VisitProgram,
     GeneratorProofs!Visiting, GeneratorProofs!BuiltinDecls, GeneratorProofs!Value,
     GeneratorProofs!Block, GeneratorProofs!InputCode, GeneratorProofs!OutputCode,
     GeneratorProofs!Continue, GeneratorProofs!VisitAll, GeneratorProofs!Kids,
     GeneratorProofs!Top, GeneratorProofs!fields, GeneratorProofs!Doing,
     GeneratorProofs!Alloca, GeneratorProofs!Result, GeneratorProofs!Ret,
     GeneratorProofs!Load, GeneratorProofs!CallOf, GeneratorProofs!RetVoid,
     GeneratorProofs!Front, GeneratorProofs!Reverse, GeneratorProofs!Visit,
     GeneratorProofs!Kid, GeneratorProofs!Last, GeneratorProofs!Instruction,
     GeneratorProofs!Effect

LEMMA VariableGenerated ==
  ASSUME Generator!VisitVariable
  PROVE  GeneratorProofs!VisitVariable
  BY ZenonT(60) DEF
     Generator!VisitVariable, Generator!Visiting, Generator!Value, Generator!Top,
     Generator!Generates, Generator!Alloca, Generator!Result, Generator!Doing,
     Generator!Last, Generator!Continue, Generator!fields, Generator!Emit,
     Generator!SetValue, Generator!Instruction, Generator!Effect, Generator!Front,
     Generator!Reverse, Generator!Written, Generator!Assigned,
     GeneratorProofs!VisitVariable, GeneratorProofs!Visiting, GeneratorProofs!Value,
     GeneratorProofs!Top, GeneratorProofs!Generates, GeneratorProofs!Alloca,
     GeneratorProofs!Result, GeneratorProofs!Doing, GeneratorProofs!Last,
     GeneratorProofs!Continue, GeneratorProofs!fields, GeneratorProofs!Emit,
     GeneratorProofs!SetValue, GeneratorProofs!Instruction, GeneratorProofs!Effect,
     GeneratorProofs!Front, GeneratorProofs!Reverse, GeneratorProofs!Written,
     GeneratorProofs!Assigned

LEMMA FunctionGenerated ==
  ASSUME Generator!VisitFunction \/ Generator!FinishFunction \/ Generator!VisitCompound
  PROVE  GeneratorProofs!VisitFunction \/ GeneratorProofs!FinishFunction \/
         GeneratorProofs!VisitCompound
  BY ZenonT(60) DEF
     Generator!VisitFunction, Generator!FinishFunction, Generator!VisitCompound,
     Generator!Visiting, Generator!Value, Generator!Block, Generator!Continue,
     Generator!Top, Generator!fields, Generator!Alloca, Generator!Result,
     Generator!Parameters, Generator!Store, Generator!Br, Generator!Range, Generator!Visit,
     Generator!Body, Generator!Finish, Generator!Doing, Generator!Emit, Generator!RetVoid,
     Generator!VisitAll, Generator!LocalDecls, Generator!Generated, Generator!Statements,
     Generator!ir, Generator!Front, Generator!Reverse, Generator!Last,
     Generator!Instruction, Generator!Effect, Generator!Kids, Generator!LastKid,
     Generator!Written, Generator!Min, Generator!Kid, GeneratorProofs!VisitFunction,
     GeneratorProofs!FinishFunction, GeneratorProofs!VisitCompound,
     GeneratorProofs!Visiting, GeneratorProofs!Value, GeneratorProofs!Block,
     GeneratorProofs!Continue, GeneratorProofs!Top, GeneratorProofs!fields,
     GeneratorProofs!Alloca, GeneratorProofs!Result, GeneratorProofs!Parameters,
     GeneratorProofs!Store, GeneratorProofs!Br, GeneratorProofs!Range,
     GeneratorProofs!Visit, GeneratorProofs!Body, GeneratorProofs!Finish,
     GeneratorProofs!Doing, GeneratorProofs!Emit, GeneratorProofs!RetVoid,
     GeneratorProofs!VisitAll, GeneratorProofs!LocalDecls, GeneratorProofs!Generated,
     GeneratorProofs!Statements, GeneratorProofs!ir, GeneratorProofs!Front,
     GeneratorProofs!Reverse, GeneratorProofs!Last, GeneratorProofs!Instruction,
     GeneratorProofs!Effect, GeneratorProofs!Kids, GeneratorProofs!LastKid,
     GeneratorProofs!Written, GeneratorProofs!Min, GeneratorProofs!Kid

LEMMA IfGenerated ==
  ASSUME Generator!VisitIf \/ Generator!BranchIf \/ Generator!EnterElse \/ Generator!FinishIf
  PROVE  GeneratorProofs!VisitIf \/ GeneratorProofs!BranchIf \/ GeneratorProofs!EnterElse \/
         GeneratorProofs!FinishIf
  BY ZenonT(60) DEF
     Generator!VisitIf, Generator!BranchIf, Generator!EnterElse, Generator!FinishIf,
     Generator!Visiting, Generator!Continue, Generator!Top, Generator!fields,
     Generator!Visit, Generator!ir, Generator!Kid, Generator!Block, Generator!Doing,
     Generator!nullptr, Generator!CondBr, Generator!ValueOf, Generator!Written,
     Generator!IfFrame, Generator!GoTo, Generator!Inserted, Generator!Front,
     Generator!Reverse, Generator!Last, Generator!Instruction, Generator!unset,
     Generator!Br, Generator!Value, Generator!Effect, GeneratorProofs!VisitIf,
     GeneratorProofs!BranchIf, GeneratorProofs!EnterElse, GeneratorProofs!FinishIf,
     GeneratorProofs!Visiting, GeneratorProofs!Continue, GeneratorProofs!Top,
     GeneratorProofs!fields, GeneratorProofs!Visit, GeneratorProofs!ir, GeneratorProofs!Kid,
     GeneratorProofs!Block, GeneratorProofs!Doing, GeneratorProofs!nullptr,
     GeneratorProofs!CondBr, GeneratorProofs!ValueOf, GeneratorProofs!Written,
     GeneratorProofs!IfFrame, GeneratorProofs!GoTo, GeneratorProofs!Inserted,
     GeneratorProofs!Front, GeneratorProofs!Reverse, GeneratorProofs!Last,
     GeneratorProofs!Instruction, GeneratorProofs!unset, GeneratorProofs!Br,
     GeneratorProofs!Value, GeneratorProofs!Effect

LEMMA WhileGenerated ==
  ASSUME Generator!VisitWhile \/ Generator!EnterLoop \/ Generator!FinishWhile \/
         Generator!VisitStatement \/ Generator!FinishReturn \/
         Generator!FinishExpressionStmt
  PROVE  GeneratorProofs!VisitWhile \/ GeneratorProofs!EnterLoop \/
         GeneratorProofs!FinishWhile \/ GeneratorProofs!VisitStatement \/
         GeneratorProofs!FinishReturn \/ GeneratorProofs!FinishExpressionStmt
  BY ZenonT(60) DEF
     Generator!VisitWhile, Generator!EnterLoop, Generator!FinishWhile,
     Generator!VisitStatement, Generator!FinishReturn, Generator!FinishExpressionStmt,
     Generator!Visiting, Generator!Block, Generator!Continue, Generator!Top,
     Generator!fields, Generator!Br, Generator!Visit, Generator!Kid, Generator!nullptr,
     Generator!Written, Generator!WhileFrame, Generator!Doing, Generator!CondBr,
     Generator!ValueOf, Generator!Inserted, Generator!GoTo, Generator!VisitAll,
     Generator!Kids, Generator!Finish, Generator!ir, Generator!Emit, Generator!RetVoid,
     Generator!Ret, Generator!Front, Generator!Reverse, Generator!Last,
     Generator!Instruction, Generator!unset, Generator!Value, Generator!Effect,
     GeneratorProofs!VisitWhile, GeneratorProofs!EnterLoop, GeneratorProofs!FinishWhile,
     GeneratorProofs!VisitStatement, GeneratorProofs!FinishReturn,
     GeneratorProofs!FinishExpressionStmt, GeneratorProofs!Visiting, GeneratorProofs!Block,
     GeneratorProofs!Continue, GeneratorProofs!Top, GeneratorProofs!fields,
     GeneratorProofs!Br, GeneratorProofs!Visit, GeneratorProofs!Kid,
     GeneratorProofs!nullptr, GeneratorProofs!Written, GeneratorProofs!WhileFrame,
     GeneratorProofs!Doing, GeneratorProofs!CondBr, GeneratorProofs!ValueOf,
     GeneratorProofs!Inserted, GeneratorProofs!GoTo, GeneratorProofs!VisitAll,
     GeneratorProofs!Kids, GeneratorProofs!Finish, GeneratorProofs!ir, GeneratorProofs!Emit,
     GeneratorProofs!RetVoid, GeneratorProofs!Ret, GeneratorProofs!Front,
     GeneratorProofs!Reverse, GeneratorProofs!Last, GeneratorProofs!Instruction,
     GeneratorProofs!unset, GeneratorProofs!Value, GeneratorProofs!Effect

LEMMA UseGenerated ==
  ASSUME Generator!VisitExpression \/ Generator!VisitAssignment \/ Generator!FinishAssignment
         \/ Generator!VisitVariableExpr \/ Generator!FinishSubscript
  PROVE  GeneratorProofs!VisitExpression \/ GeneratorProofs!VisitAssignment \/
         GeneratorProofs!FinishAssignment \/ GeneratorProofs!VisitVariableExpr \/
         GeneratorProofs!FinishSubscript
  BY ZenonT(60) DEF
     Generator!VisitExpression, Generator!VisitAssignment, Generator!FinishAssignment,
     Generator!VisitVariableExpr, Generator!FinishSubscript, Generator!VisitOperands,
     Generator!Visiting, Generator!Continue, Generator!Top, Generator!fields,
     Generator!Visit, Generator!Finish, Generator!ir, Generator!Kid, Generator!Generates,
     Generator!Result, Generator!Store, Generator!Doing, Generator!ValueOf, Generator!Load,
     Generator!Decl, Generator!Computed, Generator!VisitAll, Generator!Kids,
     Generator!Front, Generator!Reverse, Generator!Last, Generator!Emit, Generator!SetValue,
     Generator!Value, Generator!Effect, Generator!Instruction, Generator!unset,
     Generator!BuiltinDecls, Generator!g_builtins, Generator!Range, Generator!Written,
     Generator!Assigned, Generator!Int32, Generator!Void, Generator!Primitive,
     GeneratorProofs!VisitExpression, GeneratorProofs!VisitAssignment,
     GeneratorProofs!FinishAssignment, GeneratorProofs!VisitVariableExpr,
     GeneratorProofs!FinishSubscript, GeneratorProofs!VisitOperands,
     GeneratorProofs!Visiting, GeneratorProofs!Continue, GeneratorProofs!Top,
     GeneratorProofs!fields, GeneratorProofs!Visit, GeneratorProofs!Finish,
     GeneratorProofs!ir, GeneratorProofs!Kid, GeneratorProofs!Generates,
     GeneratorProofs!Result, GeneratorProofs!Store, GeneratorProofs!Doing,
     GeneratorProofs!ValueOf, GeneratorProofs!Load, GeneratorProofs!Decl,
     GeneratorProofs!Computed, GeneratorProofs!VisitAll, GeneratorProofs!Kids,
     GeneratorProofs!Front, GeneratorProofs!Reverse, GeneratorProofs!Last,
     GeneratorProofs!Emit, GeneratorProofs!SetValue, GeneratorProofs!Value,
     GeneratorProofs!Effect, GeneratorProofs!Instruction, GeneratorProofs!unset,
     GeneratorProofs!BuiltinDecls, GeneratorProofs!g_builtins, GeneratorProofs!Range,
     GeneratorProofs!Written, GeneratorProofs!Assigned, GeneratorProofs!Int32,
     GeneratorProofs!Void, GeneratorProofs!Primitive

LEMMA OperationGenerated ==
  ASSUME Generator!FinishImplicitCast \/ Generator!FinishCall \/ Generator!FinishOperation \/
         Generator!VisitLiteral
  PROVE  GeneratorProofs!FinishImplicitCast \/ GeneratorProofs!FinishCall \/
         GeneratorProofs!FinishOperation \/ GeneratorProofs!VisitLiteral
  BY ZenonT(60) DEF
     Generator!FinishImplicitCast, Generator!FinishCall, Generator!FinishOperation,
     Generator!VisitLiteral, Generator!Top, Generator!Generates, Generator!Result,
     Generator!Doing, Generator!Kid, Generator!ValueOf, Generator!Load, Generator!Kids,
     Generator!CallOf, Generator!ValuesOf, Generator!Computed, Generator!Int32,
     Generator!Bool, Generator!Float, Generator!Visiting, Generator!Value, Generator!Last,
     Generator!Continue, Generator!fields, Generator!Emit, Generator!SetValue,
     Generator!Effect, Generator!unset, Generator!Instruction, Generator!Range,
     Generator!Primitive, Generator!Front, Generator!Reverse, Generator!Written,
     Generator!Assigned, GeneratorProofs!FinishImplicitCast, GeneratorProofs!FinishCall,
     GeneratorProofs!FinishOperation, GeneratorProofs!VisitLiteral, GeneratorProofs!Top,
     GeneratorProofs!Generates, GeneratorProofs!Result, GeneratorProofs!Doing,
     GeneratorProofs!Kid, GeneratorProofs!ValueOf, GeneratorProofs!Load,
     GeneratorProofs!Kids, GeneratorProofs!CallOf, GeneratorProofs!ValuesOf,
     GeneratorProofs!Computed, GeneratorProofs!Int32, GeneratorProofs!Bool,
     GeneratorProofs!Float, GeneratorProofs!Visiting, GeneratorProofs!Value,
     GeneratorProofs!Last, GeneratorProofs!Continue, GeneratorProofs!fields,
     GeneratorProofs!Emit, GeneratorProofs!SetValue, GeneratorProofs!Effect,
     GeneratorProofs!unset, GeneratorProofs!Instruction, GeneratorProofs!Range,
     GeneratorProofs!Primitive, GeneratorProofs!Front, GeneratorProofs!Reverse,
     GeneratorProofs!Written, GeneratorProofs!Assigned

LEMMA GeneratorStep == ASSUME Generator!Next PROVE GeneratorProofs!Next
  BY ProgramGenerated, VariableGenerated, FunctionGenerated, IfGenerated, WhileGenerated,
     UseGenerated, OperationGenerated, Zenon
     DEF Generator!Next, GeneratorProofs!Next

LEMMA PrinterStep == ASSUME Printer!Next PROVE PrinterProofs!Next
  BY Zenon DEF
     Printer!Next, Printer!VisitProgram, Printer!VisitVariable, Printer!VisitFunction,
     Printer!VisitStatement, Printer!VisitReturn, Printer!VisitExpressionStmt,
     Printer!VisitAssignment, Printer!VisitImplicitCast, Printer!VisitVariableExpr,
     Printer!VisitSubscript, Printer!VisitCall, Printer!VisitBinary, Printer!VisitLiteral,
     Printer!PrintLabel, Printer!LeaveNest, Printer!VisitNested, Printer!VisitFlat,
     Printer!Visiting, Printer!Top, Printer!LabelLine, Printer!WriteLines, Printer!NodeLine,
     Printer!Nested, Printer!VisitAll, Printer!Kids, Printer!fields, Printer!Label,
     Printer!Continue, Printer!Kid, Printer!Literals, Printer!Doing, Printer!Last,
     Printer!Line, Printer!NoType, Printer!TypeShown, Printer!Leave, Printer!Visit,
     Printer!Front, Printer!Reverse, Printer!Primitive, Printer!DeclKinds, Printer!Decl,
     Printer!BuiltinDecls, Printer!g_builtins, Printer!Int32, Printer!Void, PrinterProofs!Next,
     PrinterProofs!VisitProgram, PrinterProofs!VisitVariable, PrinterProofs!VisitFunction,
     PrinterProofs!VisitStatement, PrinterProofs!VisitReturn,
     PrinterProofs!VisitExpressionStmt, PrinterProofs!VisitAssignment,
     PrinterProofs!VisitImplicitCast, PrinterProofs!VisitVariableExpr,
     PrinterProofs!VisitSubscript, PrinterProofs!VisitCall, PrinterProofs!VisitBinary,
     PrinterProofs!VisitLiteral, PrinterProofs!PrintLabel, PrinterProofs!LeaveNest,
     PrinterProofs!VisitNested, PrinterProofs!VisitFlat, PrinterProofs!Visiting,
     PrinterProofs!Top, PrinterProofs!LabelLine, PrinterProofs!WriteLines,
     PrinterProofs!NodeLine, PrinterProofs!Nested, PrinterProofs!VisitAll, PrinterProofs!Kids,
     PrinterProofs!fields, PrinterProofs!Label, PrinterProofs!Continue, PrinterProofs!Kid,
     PrinterProofs!Literals, PrinterProofs!Doing, PrinterProofs!Last, PrinterProofs!Line,
     PrinterProofs!NoType, PrinterProofs!TypeShown, PrinterProofs!Leave, PrinterProofs!Visit,
     PrinterProofs!Front, PrinterProofs!Reverse, PrinterProofs!Primitive,
     PrinterProofs!DeclKinds, PrinterProofs!Decl, PrinterProofs!BuiltinDecls,
     PrinterProofs!g_builtins, PrinterProofs!Int32, PrinterProofs!Void

LEMMA SymbolStart == SymbolPass!Init => SymbolProofs!Init
  BY Zenon DEF
     SymbolPass!Init, SymbolPass!TableInit, SymbolPass!Visit, SymbolPass!NoException,
     SymbolPass!BuiltinScope, SymbolPass!BuiltinCalled, SymbolPass!BuiltinDecls,
     SymbolPass!g_builtins, SymbolPass!nullptr, SymbolPass!Int32, SymbolPass!Void,
     SymbolPass!Primitive, SymbolProofs!Init, SymbolProofs!TableInit, SymbolProofs!Visit,
     SymbolProofs!NoException, SymbolProofs!BuiltinScope, SymbolProofs!BuiltinCalled,
     SymbolProofs!BuiltinDecls, SymbolProofs!g_builtins, SymbolProofs!nullptr,
     SymbolProofs!Int32, SymbolProofs!Void, SymbolProofs!Primitive

LEMMA SemanticStart == SemanticPass!Init => SemanticProofs!Init
  BY Zenon DEF
     SemanticPass!Init, SemanticPass!Meaning, SemanticPass!Visit, SemanticPass!nullptr,
     SemanticPass!DeclsOf, SemanticPass!Owner, SemanticPass!Within, SemanticPass!BuiltinNamed,
     SemanticPass!UsesOf, SemanticPass!DeclKinds, SemanticPass!Max, SemanticPass!ScopesAround,
     SemanticPass!BuiltinDecls, SemanticPass!g_builtins, SemanticPass!Min,
     SemanticPass!UseKinds, SemanticPass!OpensScope, SemanticPass!Int32, SemanticPass!Void,
     SemanticPass!Primitive, SemanticProofs!Init, SemanticProofs!Meaning, SemanticProofs!Visit,
     SemanticProofs!nullptr, SemanticProofs!DeclsOf, SemanticProofs!Owner,
     SemanticProofs!Within, SemanticProofs!BuiltinNamed, SemanticProofs!UsesOf,
     SemanticProofs!DeclKinds, SemanticProofs!Max, SemanticProofs!ScopesAround,
     SemanticProofs!BuiltinDecls, SemanticProofs!g_builtins, SemanticProofs!Min,
     SemanticProofs!UseKinds, SemanticProofs!OpensScope, SemanticProofs!Int32,
     SemanticProofs!Void, SemanticProofs!Primitive

LEMMA GeneratorStart == Generator!Init => GeneratorProofs!Init
  BY Zenon DEF
     Generator!Init, Generator!Meaning, Generator!WellTyped, Generator!TypesOf,
     Generator!OutcomesOf, Generator!DeclsOf, Generator!Depth, Generator!Visit,
     Generator!nullptr, Generator!Owner, Generator!Within, Generator!BuiltinNamed,
     Generator!UsesOf, Generator!IllTyped, Generator!NodesOf, Generator!Kid, Generator!Bool,
     Generator!EnclosingFunction, Generator!Void, Generator!WellDeclared,
     Generator!EndsWithMain, Generator!ExpressionKinds, Generator!TypeOf,
     Generator!StatementKinds, Generator!OutcomeOf, Generator!DeclKinds,
     Generator!ScopesAround, Generator!Max, Generator!BuiltinDecls, Generator!g_builtins,
     Generator!Min, Generator!UseKinds, Generator!Primitive, Generator!FunctionsOf,
     Generator!Body, Generator!Kids, Generator!LiteralKinds, Generator!Decl, Generator!Int32,
     Generator!Float, Generator!ParameterTypes, Generator!Type, Generator!Arithmetic,
     Generator!Statements, Generator!OpensScope, Generator!LastKid, Generator!Parameters,
     Generator!PrimitiveType, Generator!Front, Generator!Cardinality, GeneratorProofs!Init,
     GeneratorProofs!Meaning, GeneratorProofs!WellTyped, GeneratorProofs!TypesOf,
     GeneratorProofs!OutcomesOf, GeneratorProofs!DeclsOf, GeneratorProofs!Depth,
     GeneratorProofs!Visit, GeneratorProofs!nullptr, GeneratorProofs!Owner,
     GeneratorProofs!Within, GeneratorProofs!BuiltinNamed, GeneratorProofs!UsesOf,
     GeneratorProofs!IllTyped, GeneratorProofs!NodesOf, GeneratorProofs!Kid,
     GeneratorProofs!Bool, GeneratorProofs!EnclosingFunction, GeneratorProofs!Void,
     GeneratorProofs!WellDeclared, GeneratorProofs!EndsWithMain,
     GeneratorProofs!ExpressionKinds, GeneratorProofs!TypeOf, GeneratorProofs!StatementKinds,
     GeneratorProofs!OutcomeOf, GeneratorProofs!DeclKinds, GeneratorProofs!ScopesAround,
     GeneratorProofs!Max, GeneratorProofs!BuiltinDecls, GeneratorProofs!g_builtins,
     GeneratorProofs!Min, GeneratorProofs!UseKinds, GeneratorProofs!Primitive,
     GeneratorProofs!FunctionsOf, GeneratorProofs!Body, GeneratorProofs!Kids,
     GeneratorProofs!LiteralKinds, GeneratorProofs!Decl, GeneratorProofs!Int32,
     GeneratorProofs!Float, GeneratorProofs!ParameterTypes, GeneratorProofs!Type,
     GeneratorProofs!Arithmetic, GeneratorProofs!Statements, GeneratorProofs!OpensScope,
     GeneratorProofs!LastKid, GeneratorProofs!Parameters, GeneratorProofs!PrimitiveType,
     GeneratorProofs!Front, GeneratorProofs!Cardinality

LEMMA PrinterStart == Printer!Init => PrinterProofs!Init
<1> SUFFICES ASSUME Printer!Init PROVE PrinterProofs!Init
  OBVIOUS
<1>1. PrinterProofs!Meaning(ast) = Printer!Meaning(ast)
  BY Zenon DEF
     Printer!Meaning, Printer!DeclsOf, Printer!Owner, Printer!Within, Printer!BuiltinNamed,
     Printer!nullptr, Printer!UsesOf, Printer!DeclKinds, Printer!Max, Printer!ScopesAround,
     Printer!BuiltinDecls, Printer!g_builtins, Printer!Min, Printer!UseKinds,
     Printer!OpensScope, Printer!Int32, Printer!Void, Printer!Primitive, PrinterProofs!Meaning,
     PrinterProofs!DeclsOf, PrinterProofs!Owner, PrinterProofs!Within,
     PrinterProofs!BuiltinNamed, PrinterProofs!nullptr, PrinterProofs!UsesOf,
     PrinterProofs!DeclKinds, PrinterProofs!Max, PrinterProofs!ScopesAround,
     PrinterProofs!BuiltinDecls, PrinterProofs!g_builtins, PrinterProofs!Min,
     PrinterProofs!UseKinds, PrinterProofs!OpensScope, PrinterProofs!Int32, PrinterProofs!Void,
     PrinterProofs!Primitive
<1>2. ASSUME NEW r PROVE PrinterProofs!TypesOf(ast, r) = Printer!TypesOf(ast, r)
  BY Zenon DEF
     Printer!TypesOf, Printer!NodesOf, Printer!ExpressionKinds, Printer!TypeOf,
     Printer!LiteralKinds, Printer!Decl, Printer!Kid, Printer!IllTyped, Printer!Int32,
     Printer!Float, Printer!Bool, Printer!Primitive, Printer!ParameterTypes, Printer!Type,
     Printer!Void, Printer!Arithmetic, Printer!BuiltinDecls, Printer!g_builtins,
     Printer!Parameters, Printer!PrimitiveType, Printer!Front, Printer!Kids,
     PrinterProofs!TypesOf, PrinterProofs!NodesOf, PrinterProofs!ExpressionKinds,
     PrinterProofs!TypeOf, PrinterProofs!LiteralKinds, PrinterProofs!Decl, PrinterProofs!Kid,
     PrinterProofs!IllTyped, PrinterProofs!Int32, PrinterProofs!Float, PrinterProofs!Bool,
     PrinterProofs!Primitive, PrinterProofs!ParameterTypes, PrinterProofs!Type,
     PrinterProofs!Void, PrinterProofs!Arithmetic, PrinterProofs!BuiltinDecls,
     PrinterProofs!g_builtins, PrinterProofs!Parameters, PrinterProofs!PrimitiveType,
     PrinterProofs!Front, PrinterProofs!Kids
<1>3. PrinterProofs!Visit(1) = Printer!Visit(1)
  BY DEF Printer!Visit, PrinterProofs!Visit
<1>4. PICK m : m = Printer!Meaning(ast)
  OBVIOUS
<1>5. QED
  BY <1>1, <1>2, <1>3, <1>4, Zenon DEF Printer!Init, PrinterProofs!Init

(***************************************************************************)
(* What the passes hand on.                                                *)
(***************************************************************************)
Unset ==
  referent = << >> /\ nest_level = << >> /\ m_nestLevel = 0 /\ raised = SymbolPass!NoException

Unchecked ==
  type = << >> /\ always_returns = << >> /\ m_errors = << >> /\ m_currentFunction = nullptr

Ungenerated ==
  /\ ir_value = << >> /\ blocks = << >> /\ insertBlock = nullptr
  /\ m_currentDepth = 0 /\ m_output = << >>

Linked ==
  /\ ast \in Programs
  /\ LET m == Meaning(ast)
     IN  m.faults = {} /\ referent = m.referents
  /\ nest_level = [d \in DeclsOf(ast) |-> Depth(ast, d)]

Checked ==
  /\ WellTyped(ast, referent)
  /\ type = TypesOf(ast, referent)
  /\ LET out == OutcomesOf(ast)
     IN  always_returns = [n \in DOMAIN out |-> "falls" \notin out[n]]

ReadyToLink ==
  ast \in Programs /\ stack = << Visit(1) >> /\ m_table = << SymbolPass!BuiltinScope >> /\ Unset

ReadyToCheck == Linked /\ Unchecked /\ stack = << Visit(1) >>

ReadyToWrite == Linked /\ Checked /\ Ungenerated /\ stack = << Visit(1) >>

LEMMA SymbolBegins == ReadyToLink => SymbolPass!Init
  BY DEF ReadyToLink, Unset, SymbolPass!Init, SymbolPass!TableInit, Visit, SymbolPass!Visit

LEMMA SemanticBegins == ReadyToCheck => SemanticPass!Init
<1> SUFFICES ASSUME ReadyToCheck PROVE SemanticPass!Init
  OBVIOUS
<1>1. LET m == SemanticPass!Meaning(ast)
      IN  m.faults = {} /\ referent = m.referents
  BY Zenon DEF ReadyToCheck, Linked,
     Meaning, DeclsOf, Owner, Within, BuiltinNamed, nullptr, UsesOf, DeclKinds, Max,
     ScopesAround, BuiltinDecls, g_builtins, Min, UseKinds, OpensScope, Int32, Void, Primitive,
     SemanticPass!Meaning, SemanticPass!DeclsOf, SemanticPass!Owner, SemanticPass!Within,
     SemanticPass!BuiltinNamed, SemanticPass!nullptr, SemanticPass!UsesOf,
     SemanticPass!DeclKinds, SemanticPass!Max, SemanticPass!ScopesAround,
     SemanticPass!BuiltinDecls, SemanticPass!g_builtins, SemanticPass!Min,
     SemanticPass!UseKinds, SemanticPass!OpensScope, SemanticPass!Int32, SemanticPass!Void,
     SemanticPass!Primitive
<1>2. QED
  BY <1>1 DEF ReadyToCheck, Linked, Unchecked, SemanticPass!Init, Visit, nullptr,
              SemanticPass!Visit, SemanticPass!nullptr

LEMMA GeneratorBegins == ReadyToWrite => Generator!Init
<1> SUFFICES ASSUME ReadyToWrite PROVE Generator!Init
  OBVIOUS
<1>1. LET m == Generator!Meaning(ast) IN m.faults = {} /\ referent = m.referents
  BY ZenonT(60) DEF ReadyToWrite, Linked,
     Meaning, DeclsOf, nullptr, Owner, Within, BuiltinNamed, UsesOf, DeclKinds,
     ScopesAround, Max, BuiltinDecls, g_builtins, Min, UseKinds, OpensScope, Void, Int32,
     Primitive, Generator!Meaning, Generator!DeclsOf, Generator!nullptr, Generator!Owner,
     Generator!Within, Generator!BuiltinNamed, Generator!UsesOf, Generator!DeclKinds,
     Generator!ScopesAround, Generator!Max, Generator!BuiltinDecls, Generator!g_builtins,
     Generator!Min, Generator!UseKinds, Generator!OpensScope, Generator!Void,
     Generator!Int32, Generator!Primitive
<1>2. Generator!WellTyped(ast, referent)
  BY ZenonT(60) DEF ReadyToWrite, Checked,
     WellTyped, TypesOf, DeclsOf, IllTyped, NodesOf, Kid, Bool, EnclosingFunction, Void,
     WellDeclared, EndsWithMain, ExpressionKinds, TypeOf, DeclKinds, Primitive, nullptr,
     Within, Max, FunctionsOf, Body, OutcomesOf, Kids, LiteralKinds, Decl, Int32, Float,
     ParameterTypes, Type, Arithmetic, LastKid, StatementKinds, OutcomeOf, BuiltinDecls,
     g_builtins, Parameters, PrimitiveType, Statements, Front, Generator!WellTyped,
     Generator!TypesOf, Generator!DeclsOf, Generator!IllTyped, Generator!NodesOf,
     Generator!Kid, Generator!Bool, Generator!EnclosingFunction, Generator!Void,
     Generator!WellDeclared, Generator!EndsWithMain, Generator!ExpressionKinds,
     Generator!TypeOf, Generator!DeclKinds, Generator!Primitive, Generator!nullptr,
     Generator!Within, Generator!Max, Generator!FunctionsOf, Generator!Body,
     Generator!OutcomesOf, Generator!Kids, Generator!LiteralKinds, Generator!Decl,
     Generator!Int32, Generator!Float, Generator!ParameterTypes, Generator!Type,
     Generator!Arithmetic, Generator!LastKid, Generator!StatementKinds, Generator!OutcomeOf,
     Generator!BuiltinDecls, Generator!g_builtins, Generator!Parameters,
     Generator!PrimitiveType, Generator!Statements, Generator!Front
<1>3. type = Generator!TypesOf(ast, referent)
  BY ZenonT(60) DEF ReadyToWrite, Checked,
     TypesOf, NodesOf, ExpressionKinds, TypeOf, LiteralKinds, IllTyped, Kid, Bool, Void,
     Primitive, Decl, Int32, Float, ParameterTypes, Type, Arithmetic, BuiltinDecls,
     g_builtins, Parameters, PrimitiveType, Kids, Front, Generator!TypesOf,
     Generator!NodesOf, Generator!ExpressionKinds, Generator!TypeOf, Generator!LiteralKinds,
     Generator!IllTyped, Generator!Kid, Generator!Bool, Generator!Void, Generator!Primitive,
     Generator!Decl, Generator!Int32, Generator!Float, Generator!ParameterTypes,
     Generator!Type, Generator!Arithmetic, Generator!BuiltinDecls, Generator!g_builtins,
     Generator!Parameters, Generator!PrimitiveType, Generator!Kids, Generator!Front
<1>4. LET out == Generator!OutcomesOf(ast)
      IN  always_returns = [n \in DOMAIN out |-> "falls" \notin out[n]]
  BY ZenonT(60) DEF ReadyToWrite, Checked,
     OutcomesOf, NodesOf, StatementKinds, OutcomeOf, Kid, Statements, Kids,
     Generator!OutcomesOf, Generator!NodesOf, Generator!StatementKinds, Generator!OutcomeOf,
     Generator!Kid, Generator!Statements, Generator!Kids
<1>5. nest_level = [d \in Generator!DeclsOf(ast) |-> Generator!Depth(ast, d)]
  BY ZenonT(60) DEF ReadyToWrite, Linked,
     DeclsOf, Depth, DeclKinds, ScopesAround, Cardinality, Within, OpensScope,
     Generator!DeclsOf, Generator!Depth, Generator!DeclKinds, Generator!ScopesAround,
     Generator!Cardinality, Generator!Within, Generator!OpensScope
<1>6. QED
  BY <1>1, <1>2, <1>3, <1>4, <1>5, Zenon
     DEF ReadyToWrite, Linked, Ungenerated, Visit, nullptr, Generator!Init, Generator!Visit,
         Generator!nullptr

LEMMA PrinterBegins == ReadyToWrite => Printer!Init /\ type = TypesOf(ast, referent)
<1> SUFFICES ASSUME ReadyToWrite PROVE Printer!Init /\ type = TypesOf(ast, referent)
  OBVIOUS
<1>1. referent = Printer!Meaning(ast).referents
  BY Zenon DEF ReadyToWrite, Linked,
     Meaning, DeclsOf, Owner, Within, BuiltinNamed, nullptr, UsesOf, DeclKinds, Max,
     ScopesAround, BuiltinDecls, g_builtins, Min, UseKinds, OpensScope, Int32, Void, Primitive,
     Printer!Meaning, Printer!DeclsOf, Printer!Owner, Printer!Within, Printer!BuiltinNamed,
     Printer!nullptr, Printer!UsesOf, Printer!DeclKinds, Printer!Max, Printer!ScopesAround,
     Printer!BuiltinDecls, Printer!g_builtins, Printer!Min, Printer!UseKinds,
     Printer!OpensScope, Printer!Int32, Printer!Void, Printer!Primitive
<1>2. type = Printer!TypesOf(ast, referent)
  BY Zenon DEF ReadyToWrite, Checked,
     TypesOf, NodesOf, ExpressionKinds, TypeOf, LiteralKinds, Decl, Kid, IllTyped, Int32,
     Float, Bool, Primitive, ParameterTypes, Type, Void, Arithmetic, BuiltinDecls, g_builtins,
     Parameters, PrimitiveType, Front, Kids, Printer!TypesOf, Printer!NodesOf,
     Printer!ExpressionKinds, Printer!TypeOf, Printer!LiteralKinds, Printer!Decl, Printer!Kid,
     Printer!IllTyped, Printer!Int32, Printer!Float, Printer!Bool, Printer!Primitive,
     Printer!ParameterTypes, Printer!Type, Printer!Void, Printer!Arithmetic,
     Printer!BuiltinDecls, Printer!g_builtins, Printer!Parameters, Printer!PrimitiveType,
     Printer!Front, Printer!Kids
<1>3. ast \in Programs /\ stack = << Printer!Visit(1) >> /\ m_currentDepth = 0 /\ m_output = << >>
  BY DEF ReadyToWrite, Linked, Ungenerated, Visit, Printer!Visit
<1>4. PICK m : m = Printer!Meaning(ast)
  OBVIOUS
<1>5. m.faults = {}
  BY <1>4, Zenon DEF ReadyToWrite, Linked,
     Meaning, DeclsOf, Owner, Within, BuiltinNamed, nullptr, UsesOf, DeclKinds, Max,
     ScopesAround, BuiltinDecls, g_builtins, Min, UseKinds, OpensScope, Int32, Void, Primitive,
     Printer!Meaning, Printer!DeclsOf, Printer!Owner, Printer!Within, Printer!BuiltinNamed,
     Printer!nullptr, Printer!UsesOf, Printer!DeclKinds, Printer!Max, Printer!ScopesAround,
     Printer!BuiltinDecls, Printer!g_builtins, Printer!Min, Printer!UseKinds,
     Printer!OpensScope, Printer!Int32, Printer!Void, Printer!Primitive
<1>6. QED
  BY <1>1, <1>2, <1>3, <1>4, <1>5 DEF ReadyToWrite, Checked, Printer!Init

LEMMA SymbolEnds ==
  ASSUME SymbolProofs!WalkInv, SymbolProofs!Fields, stack = << >>, raised = SymbolPass!NoException
  PROVE  Linked
<1>1. raised = SymbolProofs!NoException
  BY DEF SymbolPass!NoException, SymbolProofs!NoException
<1>2. /\ ast \in Programs
      /\ SymbolProofs!Meaning(ast).faults = {}
      /\ referent = SymbolProofs!Meaning(ast).referents
      /\ nest_level = [d \in SymbolProofs!DeclsOf(ast) |-> SymbolProofs!Depth(ast, d)]
  BY <1>1, SymbolAssumptions, SymbolProofs!LinkedAtEnd
<1>3. QED
  BY <1>2, Zenon DEF Linked,
     Meaning, DeclsOf, Depth, Owner, Within, BuiltinNamed, nullptr, UsesOf, DeclKinds,
     ScopesAround, Max, BuiltinDecls, g_builtins, Min, UseKinds, OpensScope, Int32, Void,
     Primitive, Cardinality, SymbolProofs!Meaning, SymbolProofs!DeclsOf, SymbolProofs!Depth,
     SymbolProofs!Owner, SymbolProofs!Within, SymbolProofs!BuiltinNamed, SymbolProofs!nullptr,
     SymbolProofs!UsesOf, SymbolProofs!DeclKinds, SymbolProofs!ScopesAround, SymbolProofs!Max,
     SymbolProofs!BuiltinDecls, SymbolProofs!g_builtins, SymbolProofs!Min,
     SymbolProofs!UseKinds, SymbolProofs!OpensScope, SymbolProofs!Int32, SymbolProofs!Void,
     SymbolProofs!Primitive, SymbolProofs!Cardinality

LEMMA SemanticEnds ==
  ASSUME SemanticProofs!IInv, SemanticProofs!Verdict, SemanticProofs!IsField(always_returns),
         stack = << >>, SemanticPass!isValid
  PROVE  Checked
<1>1. SemanticProofs!isValid
  BY DEF SemanticPass!isValid, SemanticProofs!isValid
<1>2. /\ SemanticProofs!WellTyped(ast, referent)
      /\ type = SemanticProofs!TypesOf(ast, referent)
      /\ LET out == SemanticProofs!OutcomesOf(ast)
         IN  always_returns = [n \in DOMAIN out |-> "falls" \notin out[n]]
  BY <1>1, SemanticAssumptions, SemanticProofs!CheckedAtEnd
<1>3. QED
  BY <1>2, Zenon DEF Checked,
     WellTyped, TypesOf, OutcomesOf, IllTyped, NodesOf, Kid, Bool, EnclosingFunction, Void,
     DeclsOf, WellDeclared, EndsWithMain, ExpressionKinds, TypeOf, StatementKinds, OutcomeOf,
     Primitive, FunctionsOf, Within, Body, nullptr, Max, DeclKinds, Kids, LiteralKinds, Decl,
     Int32, Float, ParameterTypes, Type, Arithmetic, Statements, LastKid, BuiltinDecls,
     g_builtins, Parameters, PrimitiveType, Front, SemanticProofs!WellTyped,
     SemanticProofs!TypesOf, SemanticProofs!OutcomesOf, SemanticProofs!IllTyped,
     SemanticProofs!NodesOf, SemanticProofs!Kid, SemanticProofs!Bool,
     SemanticProofs!EnclosingFunction, SemanticProofs!Void, SemanticProofs!DeclsOf,
     SemanticProofs!WellDeclared, SemanticProofs!EndsWithMain, SemanticProofs!ExpressionKinds,
     SemanticProofs!TypeOf, SemanticProofs!StatementKinds, SemanticProofs!OutcomeOf,
     SemanticProofs!Primitive, SemanticProofs!FunctionsOf, SemanticProofs!Within,
     SemanticProofs!Body, SemanticProofs!nullptr, SemanticProofs!Max, SemanticProofs!DeclKinds,
     SemanticProofs!Kids, SemanticProofs!LiteralKinds, SemanticProofs!Decl,
     SemanticProofs!Int32, SemanticProofs!Float, SemanticProofs!ParameterTypes,
     SemanticProofs!Type, SemanticProofs!Arithmetic, SemanticProofs!Statements,
     SemanticProofs!LastKid, SemanticProofs!BuiltinDecls, SemanticProofs!g_builtins,
     SemanticProofs!Parameters, SemanticProofs!PrimitiveType, SemanticProofs!Front

(***************************************************************************)
(* The passes in the compiler: their invariants, while they run.           *)
(***************************************************************************)
Linking == SymbolProofs!WalkInv /\ SymbolProofs!Fields

Checking ==
  SemanticProofs!IInv /\ SemanticProofs!Verdict /\ SemanticProofs!IsField(always_returns)

Generating == GeneratorProofs!IInv /\ GeneratorProofs!OInv

\* The fields that the printer shows are what the rules say of the tree.
Ruled == LET m == Meaning(ast) IN referent = m.referents /\ type = TypesOf(ast, referent)

Printing == PrinterProofs!IInv /\ Ruled

LEMMA LinkingBegins == SymbolPass!Init => Linking
  BY SymbolStart, SymbolAssumptions, SymbolProofs!InitWalk, SymbolProofs!InitFields DEF Linking

LEMMA LinkingGoesOn ==
  ASSUME Linking, SymbolPass!Next \/ UNCHANGED SymbolPass!vars
  PROVE  Linking' /\ ast' = ast
<1>1. SymbolProofs!IInv /\ (SymbolProofs!Next \/ UNCHANGED SymbolProofs!vars)
  BY SymbolStep DEF Linking, SymbolProofs!WalkInv, SymbolPass!vars, SymbolProofs!vars
<1>2. Linking'
  BY <1>1, SymbolAssumptions, SymbolProofs!NextWalk, SymbolProofs!NextFields DEF Linking
<1>3. ast' = ast
  BY <1>1, SymbolAssumptions, SymbolProofs!StepShapes DEF SymbolProofs!vars
<1>4. QED
  BY <1>2, <1>3

LEMMA CheckingBegins == SemanticPass!Init => Checking
<1> SUFFICES ASSUME SemanticPass!Init PROVE Checking
  OBVIOUS
<1>1. SemanticProofs!Init /\ always_returns = << >>
  BY SemanticStart DEF SemanticPass!Init
<1>2. SemanticProofs!IInv /\ SemanticProofs!Verdict
  BY <1>1, SemanticAssumptions, SemanticProofs!InitIInv, SemanticProofs!InitVerdict
<1>3. QED
  BY <1>1, <1>2, SemanticAssumptions, SemanticProofs!FieldEmpty DEF Checking

LEMMA CheckingGoesOn ==
  ASSUME Checking, SemanticPass!Next \/ UNCHANGED SemanticPass!vars
  PROVE  Checking' /\ ast' = ast /\ referent' = referent
<1>1. SemanticProofs!IInv /\ SemanticProofs!Verdict /\ SemanticProofs!IsField(always_returns)
      /\ (SemanticProofs!Next \/ UNCHANGED SemanticProofs!vars)
  BY SemanticStep DEF Checking, SemanticPass!vars, SemanticPass!fields, SemanticProofs!vars,
                      SemanticProofs!fields
<1>2. SemanticProofs!IInv' /\ SemanticProofs!Verdict'
  BY <1>1, SemanticAssumptions, SemanticProofs!StepIInv, SemanticProofs!StepVerdict
<1>3. SemanticProofs!IsField(always_returns')
  BY <1>1, SemanticAssumptions, SemanticProofs!AnswersField
<1>4. ast' = ast /\ referent' = referent
  BY <1>1, SemanticAssumptions, SemanticProofs!NextIsGood
     DEF SemanticProofs!GoodStep, SemanticProofs!vars, SemanticProofs!fields
<1>5. QED
  BY <1>2, <1>3, <1>4 DEF Checking, SemanticProofs!IsField

LEMMA GeneratingBegins == Generator!Init => Generating
  BY GeneratorStart, GeneratorAssumptions, GeneratorProofs!InitIInv, GeneratorProofs!InitOInv
     DEF Generating

LEMMA GeneratingGoesOn ==
  ASSUME Generating, Generator!Next \/ UNCHANGED Generator!vars
  PROVE  Generating'
<1>1. GeneratorProofs!Next \/ UNCHANGED GeneratorProofs!vars
  BY GeneratorStep DEF Generator!vars, Generator!fields, Generator!ir, GeneratorProofs!vars,
                       GeneratorProofs!fields, GeneratorProofs!ir
<1>2. QED
  BY <1>1, GeneratorAssumptions, GeneratorProofs!StepIInv, GeneratorProofs!StepOInv DEF Generating

LEMMA PrintingBegins == ReadyToWrite => Printing
<1>1. ReadyToWrite => PrinterProofs!IInv
  BY PrinterBegins, PrinterStart, PrinterAssumptions, PrinterProofs!InitIInv
<1>2. ReadyToWrite => Ruled
  BY DEF ReadyToWrite, Linked, Checked, Ruled
<1>3. QED
  BY <1>1, <1>2 DEF Printing

LEMMA PrintingGoesOn ==
  ASSUME Printing, Printer!Next \/ UNCHANGED Printer!vars
  PROVE  Printing' /\ ast' = ast
<1>1. PrinterProofs!Next \/ UNCHANGED PrinterProofs!vars
  BY PrinterStep DEF Printer!vars, Printer!fields, PrinterProofs!vars, PrinterProofs!fields
<1>2. /\ PrinterProofs!IInv'
      /\ ast' = ast /\ referent' = referent /\ type' = type
  BY <1>1, PrinterAssumptions, PrinterProofs!StepIInv, PrinterProofs!TreeStays DEF Printing
<1>3. Ruled'
  BY <1>2 DEF Printing, Ruled
<1>4. QED
  BY <1>2, <1>3 DEF Printing

(***************************************************************************)
(* The invariant of the driver.  PassesInv says, function by function of   *)
(* main, what is in the tree; FilesInv what is in the files.               *)
(***************************************************************************)
PassesInv ==
  /\ source \in Sources
  /\ phase \in {"getCmdArgs", "getAST"} => Unset
  /\ phase \in {"getCmdArgs", "getAST", "linkSymbols"} => Unchecked
  /\ phase \in {"getCmdArgs", "getAST", "linkSymbols", "checkSemantics", "getOutputFile",
                "lookupTarget"} => Ungenerated
  /\ phase \in {"linkSymbols", "checkSemantics", "getOutputFile", "printAST"} =>
       source.ends = "tree" /\ ast = source.tree
  /\ phase = "linkSymbols" => Linking
  /\ phase = "checkSemantics" => Checking
  /\ phase \in {"checkSemantics", "getOutputFile", "lookupTarget"} => Linked
  /\ phase \in {"getOutputFile", "lookupTarget"} => Checked
  /\ phase = "codegen" => Generating
  /\ phase = "optimize" => Generating /\ Finished
  /\ phase = "printAST" => Printing

Before == {"getCmdArgs", "getAST", "linkSymbols", "checkSemantics", "getOutputFile"}

Behind == {"printAST", "lookupTarget", "codegen", "optimize", "emitLLVM", "assembleLink"}

Untouched == \A p \in DOMAIN files : files[p] = "source"

Contents == {"source", "empty", "ast", "llvm", "executable", "broken"}

FilesInv ==
  /\ options \in Invocations
  /\ phase \in Before \cup Behind \cup {"exited"}
  /\ phase # "exited" => status = Running
  /\ phase = "exited" => status \in 0 .. 255
  /\ phase \in Before => outfile = NoPath /\ Untouched
  /\ phase \in Behind => outfile = OutputPath /\ Accepted
  /\ phase = "exited" => /\ outfile \in {NoPath, OutputPath}
                         /\ Accepted \/ (status \in {1, Aborted} /\ Untouched)
  /\ phase \in Behind \ {"printAST"} => ~ options.emit_ast
  /\ phase = "assembleLink" => ~ options.emit_llvm
  /\ \A p \in DOMAIN files :
       /\ files[p] \in Contents
       /\ files[p] # "source" =>
            \/ p = OutputPath
            \/ p = temp_file /\ ~ options.emit_ast /\ ~ options.emit_llvm

LEMMA InitPasses == Init => PassesInv
  BY DEF Init, PassesInv, Unset, Unchecked, Ungenerated

LEMMA InitFiles == Init => FilesInv
<1> SUFFICES ASSUME Init PROVE FilesInv
  OBVIOUS
<1>1. /\ phase = "getCmdArgs" /\ options \in Invocations /\ outfile = NoPath /\ status = Running
      /\ files = << >> \/ files = Assigned(<< >>, options.input, "source")
  BY DEF Init
<1>2. \A p \in DOMAIN files : files[p] = "source"
  <2>1. CASE files = << >>
    BY <2>1
  <2>2. CASE files = Assigned(<< >>, options.input, "source")
    BY <2>2 DEF Assigned
  <2>3. QED
    BY <1>1, <2>1, <2>2
<1>3. QED
  BY <1>1, <1>2 DEF FilesInv, Untouched, Before, Behind, Contents, Running

(***************************************************************************)
(* What stays while main goes on.                                          *)
(***************************************************************************)
LEMMA SameCommand ==
  ASSUME UNCHANGED << options, source >>
  PROVE  OutputPath' = OutputPath /\ (Accepted' <=> Accepted)
  BY DEF OutputPath, Accepted

LEMMA SameTree ==
  ASSUME UNCHANGED << ast, passVars >>
  PROVE  /\ Unset' = Unset /\ Unchecked' = Unchecked /\ Ungenerated' = Ungenerated
         /\ Linked' = Linked /\ Checked' = Checked
<1>1. /\ UNCHANGED << ast, referent, nest_level, m_table, m_nestLevel, raised >>
      /\ UNCHANGED << type, always_returns, m_errors, m_currentFunction >>
      /\ UNCHANGED << ir_value, blocks, insertBlock, m_currentDepth, m_output >>
  BY DEF passVars, symbolVars, semanticVars, codegenVars, printVars
<1>2. QED
  BY <1>1 DEF Unset, Unchecked, Ungenerated, Linked, Checked

LEMMA SourceIsProgram ==
  ASSUME source \in Sources, source.ends = "tree"
  PROVE  source.tree \in Programs
  BY DEF Sources, ParsedTo, Throws

(***************************************************************************)
(* Each function of main that starts a pass has what the pass asks for.    *)
(***************************************************************************)
LEMMA EachIsReady ==
  ASSUME PassesInv, Main
  PROVE  /\ Starts("linkSymbols") => ReadyToLink'
         /\ Starts("checkSemantics") => ReadyToCheck'
         /\ Starts("printAST") => ReadyToWrite'
         /\ Starts("codegen") => ReadyToWrite'
<1> DEFINE Ready == /\ Starts("linkSymbols") => ReadyToLink'
                    /\ Starts("checkSemantics") => ReadyToCheck'
                    /\ Starts("printAST") => ReadyToWrite'
                    /\ Starts("codegen") => ReadyToWrite'
<1>1. ASSUME getAST PROVE Ready
  <2>1. CASE phase' = "exited"
    BY <2>1 DEF Starts
  <2>2. CASE phase' # "exited"
    <3>1. /\ phase = "getAST" /\ phase' = "linkSymbols" /\ source.ends = "tree"
          /\ ast' = source.tree /\ stack' = << Visit(1) >>
          /\ m_table' = << SymbolPass!BuiltinScope >>
          /\ UNCHANGED << m_nestLevel, raised, referent, nest_level >>
      BY <1>1, <2>2 DEF getAST, Accept, Exit
    <3>2. ast' \in Programs
      BY <3>1, SourceIsProgram DEF PassesInv
    <3>3. Unset'
      BY <3>1 DEF PassesInv, Unset
    <3>4. ReadyToLink'
      BY <3>1, <3>2, <3>3 DEF ReadyToLink, Visit
    <3>5. QED
      BY <3>1, <3>4 DEF Starts
  <2>3. QED
    BY <2>1, <2>2
<1>2. ASSUME linkSymbols PROVE Ready
  <2>1. CASE phase' = "exited"
    BY <2>1 DEF Starts
  <2>2. CASE phase' # "exited"
    <3>1. /\ phase = "linkSymbols" /\ phase' = "checkSemantics" /\ stack = << >>
          /\ raised = SymbolPass!NoException /\ stack' = << Visit(1) >>
          /\ UNCHANGED << ast, passVars >>
      BY <1>2, <2>2 DEF linkSymbols, Accept, Exit, Finished
    <3>2. Linked /\ Unchecked
      BY <3>1, SymbolEnds DEF PassesInv, Linking
    <3>3. ReadyToCheck'
      BY <3>1, <3>2, SameTree DEF ReadyToCheck, Visit
    <3>4. QED
      BY <3>1, <3>3 DEF Starts
  <2>3. QED
    BY <2>1, <2>2
<1>3. ASSUME getOutputFile PROVE Ready
  <2>1. CASE phase' = "lookupTarget"
    BY <2>1 DEF Starts
  <2>2. CASE phase' # "lookupTarget"
    <3>1. /\ phase = "getOutputFile" /\ phase' = "printAST" /\ stack' = << Visit(1) >>
          /\ UNCHANGED << ast, passVars >>
      BY <1>3, <2>2 DEF getOutputFile, Accept
    <3>2. Linked /\ Checked /\ Ungenerated
      BY <3>1 DEF PassesInv
    <3>3. ReadyToWrite'
      BY <3>1, <3>2, SameTree DEF ReadyToWrite, Visit
    <3>4. QED
      BY <3>1, <3>3 DEF Starts
  <2>3. QED
    BY <2>1, <2>2
<1>4. ASSUME lookupTarget PROVE Ready
  <2>1. CASE phase' = "exited"
    BY <2>1 DEF Starts
  <2>2. CASE phase' # "exited"
    <3>1. /\ phase = "lookupTarget" /\ phase' = "codegen" /\ stack' = << Visit(1) >>
          /\ UNCHANGED << ast, passVars >>
      BY <1>4, <2>2 DEF lookupTarget, Accept, Exit
    <3>2. Linked /\ Checked /\ Ungenerated
      BY <3>1 DEF PassesInv
    <3>3. ReadyToWrite'
      BY <3>1, <3>2, SameTree DEF ReadyToWrite, Visit
    <3>4. QED
      BY <3>1, <3>3 DEF Starts
  <2>3. QED
    BY <2>1, <2>2
<1>5. ASSUME getCmdArgs \/ checkSemantics \/ printAST \/ codegen \/ optimize \/ emitLLVM
             \/ assembleLink
      PROVE  Ready
  <2>1. phase' \in {"exited", "getAST", "getOutputFile", "optimize", "emitLLVM", "assembleLink"}
    BY <1>5 DEF getCmdArgs, checkSemantics, printAST, codegen, optimize, emitLLVM, assembleLink,
                Exit
  <2>2. QED
    BY <2>1 DEF Starts
<1>6. QED
  BY <1>1, <1>2, <1>3, <1>4, <1>5 DEF Main

LEMMA HandedOver ==
  /\ ReadyToLink' => SymbolPass!Init' /\ Linking'
  /\ ReadyToCheck' => SemanticPass!Init' /\ Checking'
  /\ ReadyToWrite' => Generator!Init' /\ Generating'
  /\ ReadyToWrite' => (Printer!Init /\ type = TypesOf(ast, referent))'
  /\ ReadyToWrite' => Printing'
  BY SymbolBegins, LinkingBegins, SemanticBegins, CheckingBegins, GeneratorBegins,
     GeneratingBegins, PrinterBegins, PrintingBegins, PTL

LEMMA PassKeeps ==
  ASSUME PassesInv, RunPass
  PROVE  PassesInv'
<1>1. phase' = phase /\ source' = source
  BY DEF RunPass, driverVars
<1>2. ASSUME phase = "linkSymbols", SymbolPass!Next,
             UNCHANGED << semanticVars, codegenVars, printVars >>
      PROVE  PassesInv'
  <2>1. Linking' /\ ast' = ast
    BY <1>2, LinkingGoesOn DEF PassesInv
  <2>2. Unchecked' /\ Ungenerated'
    BY <1>2 DEF PassesInv, Unchecked, Ungenerated, semanticVars, codegenVars, printVars
  <2>3. QED
    BY <1>1, <1>2, <2>1, <2>2 DEF PassesInv
<1>3. ASSUME phase = "checkSemantics", SemanticPass!Next,
             UNCHANGED << nest_level, m_table, m_nestLevel, raised, codegenVars, printVars >>
      PROVE  PassesInv'
  <2>1. Checking' /\ ast' = ast /\ referent' = referent
    BY <1>3, CheckingGoesOn DEF PassesInv
  <2>2. Linked' /\ Ungenerated'
    BY <1>3, <2>1 DEF PassesInv, Linked, Ungenerated, codegenVars, printVars
  <2>3. QED
    BY <1>1, <1>3, <2>1, <2>2 DEF PassesInv
<1>4. ASSUME phase = "printAST", Printer!Next PROVE PassesInv'
  <2>1. Printing' /\ ast' = ast
    BY <1>4, PrintingGoesOn DEF PassesInv
  <2>2. QED
    BY <1>1, <1>4, <2>1 DEF PassesInv
<1>5. ASSUME phase = "codegen", Generator!Next PROVE PassesInv'
  <2>1. Generating'
    BY <1>5, GeneratingGoesOn DEF PassesInv
  <2>2. QED
    BY <1>1, <1>5, <2>1 DEF PassesInv
<1>6. QED
  BY <1>2, <1>3, <1>4, <1>5 DEF RunPass, Pass

LEMMA MainKeeps ==
  ASSUME PassesInv, Main
  PROVE  PassesInv'
<1>1. source' = source
  BY DEF Main, getCmdArgs, getAST, linkSymbols, checkSemantics, getOutputFile, printAST,
         lookupTarget, codegen, optimize, emitLLVM, assembleLink, Exit, driverVars
<1>2. CASE phase' \in {"exited", "emitLLVM", "assembleLink"}
  BY <1>1, <1>2 DEF PassesInv
<1>3. ASSUME getCmdArgs, phase' # "exited" PROVE PassesInv'
  <2>1. phase = "getCmdArgs" /\ phase' = "getAST" /\ UNCHANGED << ast, passVars >>
    BY <1>3 DEF getCmdArgs, Exit
  <2>2. QED
    BY <1>1, <2>1, SameTree DEF PassesInv
<1>4. ASSUME getAST, phase' # "exited" PROVE PassesInv'
  <2>1. /\ phase = "getAST" /\ phase' = "linkSymbols" /\ source.ends = "tree"
        /\ ast' = source.tree /\ UNCHANGED << semanticVars, codegenVars, printVars >>
    BY <1>4 DEF getAST, Accept, Exit
  <2>2. Linking'
    BY <2>1, EachIsReady, HandedOver DEF Starts
  <2>3. Unchecked' /\ Ungenerated'
    BY <2>1 DEF PassesInv, Unchecked, Ungenerated, semanticVars, codegenVars, printVars
  <2>4. QED
    BY <1>1, <2>1, <2>2, <2>3 DEF PassesInv
<1>5. ASSUME linkSymbols, phase' # "exited" PROVE PassesInv'
  <2>1. /\ phase = "linkSymbols" /\ phase' = "checkSemantics" /\ UNCHANGED << ast, passVars >>
    BY <1>5 DEF linkSymbols, Accept, Exit
  <2>2. Checking' /\ Linked'
    BY <2>1, EachIsReady, HandedOver DEF Starts, ReadyToCheck
  <2>3. QED
    BY <1>1, <2>1, <2>2, SameTree DEF PassesInv
<1>6. ASSUME checkSemantics, phase' # "exited" PROVE PassesInv'
  <2>1. /\ phase = "checkSemantics" /\ phase' = "getOutputFile" /\ stack = << >>
        /\ SemanticPass!isValid /\ UNCHANGED << ast, passVars >>
    BY <1>6 DEF checkSemantics, Exit, Finished
  <2>2. Checked
    BY <2>1, SemanticEnds DEF PassesInv, Checking
  <2>3. QED
    BY <1>1, <2>1, <2>2, SameTree DEF PassesInv
<1>7. ASSUME getOutputFile PROVE PassesInv'
  <2>1. /\ phase = "getOutputFile" /\ phase' \in {"printAST", "lookupTarget"}
        /\ UNCHANGED << ast, passVars >>
    BY <1>7 DEF getOutputFile, Accept
  <2>2. phase' = "printAST" => Printing'
    BY <2>1, EachIsReady, HandedOver DEF Starts
  <2>3. QED
    BY <1>1, <2>1, <2>2, SameTree DEF PassesInv
<1>8. ASSUME lookupTarget, phase' # "exited" PROVE PassesInv'
  <2>1. phase = "lookupTarget" /\ phase' = "codegen"
    BY <1>8 DEF lookupTarget, Accept, Exit
  <2>2. Generating'
    BY <2>1, EachIsReady, HandedOver DEF Starts
  <2>3. QED
    BY <1>1, <2>1, <2>2 DEF PassesInv
<1>9. ASSUME codegen PROVE PassesInv'
  <2>1. /\ phase = "codegen" /\ phase' = "optimize" /\ stack = << >>
        /\ UNCHANGED << ast, stack, passVars >>
    BY <1>9 DEF codegen, Finished
  <2>2. Generating'
    <3>1. UNCHANGED Generator!vars
      BY <2>1 DEF Generator!vars, Generator!fields, Generator!ir, passVars, symbolVars,
                  semanticVars, codegenVars
    <3>2. QED
      BY <2>1, <3>1, GeneratingGoesOn DEF PassesInv
  <2>3. QED
    BY <1>1, <2>1, <2>2 DEF PassesInv, Finished
<1>10. ASSUME printAST \/ optimize \/ emitLLVM \/ assembleLink
       PROVE  phase' \in {"exited", "emitLLVM", "assembleLink"}
  BY <1>10 DEF printAST, optimize, emitLLVM, assembleLink, Exit
<1>11. QED
  BY <1>2, <1>3, <1>4, <1>5, <1>6, <1>7, <1>8, <1>9, <1>10 DEF Main

LEMMA StutterKeeps ==
  ASSUME PassesInv, UNCHANGED vars
  PROVE  PassesInv'
<1>1. UNCHANGED << phase, source, ast, stack, passVars >>
  BY DEF vars, driverVars
<1>2. /\ UNCHANGED << SymbolPass!vars, SemanticPass!vars, Generator!vars, Printer!vars >>
      /\ Finished' = Finished
  BY <1>1 DEF passVars, symbolVars, semanticVars, codegenVars, printVars, SymbolPass!vars,
              SemanticPass!vars, SemanticPass!fields, Generator!vars, Generator!fields,
              Generator!ir, Printer!vars, Printer!fields, Finished
<1>3. /\ Linking => Linking'
      /\ Checking => Checking'
      /\ Generating => Generating'
      /\ Printing => Printing'
  BY <1>2, LinkingGoesOn, CheckingGoesOn, GeneratingGoesOn, PrintingGoesOn
<1>4. QED
  BY <1>1, <1>2, <1>3, SameTree DEF PassesInv

LEMMA NextPasses == PassesInv /\ [Next]_vars => PassesInv' /\ [HandsOver]_vars
<1> SUFFICES ASSUME PassesInv, [Next]_vars PROVE PassesInv' /\ [HandsOver]_vars
  OBVIOUS
<1>1. CASE RunPass
  <2>1. HandsOver
    BY <1>1 DEF RunPass, HandsOver, Starts
  <2>2. QED
    BY <1>1, <2>1, PassKeeps
<1>2. CASE Main
  <2>1. HandsOver
    BY <1>2, EachIsReady, HandedOver DEF HandsOver
  <2>2. QED
    BY <1>2, <2>1, MainKeeps
<1>3. CASE UNCHANGED vars
  BY <1>3, StutterKeeps
<1>4. QED
  BY <1>1, <1>2, <1>3 DEF Next

(***************************************************************************)
(* The files.                                                              *)
(***************************************************************************)
Written(p) ==
  \/ p = OutputPath
  \/ p = temp_file /\ ~ options.emit_ast /\ ~ options.emit_llvm

Allowed(fs) == \A p \in DOMAIN fs : fs[p] \in Contents /\ (fs[p] # "source" => Written(p))

LEMMA AllowedAssigned ==
  ASSUME NEW fs, Allowed(fs), NEW p, Written(p), NEW content \in Contents
  PROVE  Allowed(Assigned(fs, p, content))
<1> PICK new : new = Assigned(fs, p, content)
  OBVIOUS
<1>1. DOMAIN new = {p} \cup DOMAIN fs
      /\ \A q \in DOMAIN new : new[q] = IF q = p THEN content ELSE fs[q]
  BY DEF Assigned
<1>2. Allowed(new)
  BY <1>1 DEF Allowed
<1>3. QED
  BY <1>2

LEMMA FilesAllowed == FilesInv => Allowed(files)
  BY DEF FilesInv, Allowed, Written

LEMMA ExitIsByte == ASSUME NEW s \in WaitStatuses PROVE ExitStatus(s) \in 0 .. 255
<1>1. s \in Int
  BY DriverAssumption
<1>2. QED
  BY <1>1 DEF ExitStatus

LEMMA AcceptedThen ==
  ASSUME PassesInv, phase = "getOutputFile"
  PROVE  Accepted
<1>1. source.ends = "tree" /\ ast = source.tree /\ Linked /\ Checked
  BY DEF PassesInv
<1>2. PICK m : m = Meaning(ast)
  OBVIOUS
<1>3. m.faults = {} /\ WellTyped(ast, m.referents)
  BY <1>1, <1>2 DEF Linked, Checked
<1>4. QED
  BY <1>1, <1>2, <1>3 DEF Accepted

\* A program that ends before it has opened a file.
LEMMA EarlyExit ==
  ASSUME FilesInv, phase \in Before, NEW code \in {1, Aborted}, Exit(code)
  PROVE  FilesInv'
<1>1. /\ phase' = "exited" /\ status' = code
      /\ UNCHANGED << options, source, outfile, files >>
  BY DEF Exit
<1>2. Allowed(files) /\ Untouched /\ outfile = NoPath
  BY FilesAllowed DEF FilesInv
<1>3. OutputPath' = OutputPath
  BY <1>1, SameCommand
<1>4. QED
  BY <1>1, <1>2, <1>3 DEF FilesInv, Untouched, Allowed, Written, Before, Behind, Aborted, temp_file

\* A step of a compilation that goes on, and one that ends it.
LEMMA GoesOn ==
  ASSUME FilesInv, UNCHANGED << options, source, files, status >>, phase # "exited",
         \/ phase \in Before /\ phase' \in Before /\ outfile' = outfile
         \/ /\ phase \in Behind /\ phase' \in Behind /\ outfile' = outfile
            /\ phase = "printAST" => phase' = "printAST"
            /\ phase' = "assembleLink" => phase = "assembleLink" \/ ~ options.emit_llvm
  PROVE  FilesInv'
<1>1. Allowed(files)
  BY FilesAllowed
<1>2. OutputPath' = OutputPath /\ (Accepted' <=> Accepted)
  BY SameCommand
<1>3. QED
  BY <1>1, <1>2 DEF FilesInv, Untouched, Allowed, Written, Before, Behind, temp_file

LEMMA LateExit ==
  ASSUME FilesInv, phase \in Behind, phase' = "exited", status' \in 0 .. 255, Allowed(files'),
         UNCHANGED << options, source, outfile >>
  PROVE  FilesInv'
<1>1. OutputPath' = OutputPath /\ (Accepted' <=> Accepted)
  BY SameCommand
<1>2. PICK fs : fs = files'
  OBVIOUS
<1>3. outfile = OutputPath /\ Accepted
  BY DEF FilesInv
<1>4. \A p \in DOMAIN fs : fs[p] \in Contents /\ (fs[p] # "source" =>
          p = OutputPath \/ (p = temp_file /\ ~ options.emit_ast /\ ~ options.emit_llvm))
  BY <1>2 DEF Allowed, Written
<1>5. QED
  BY <1>1, <1>2, <1>3, <1>4 DEF FilesInv, Before, Behind, temp_file

LEMMA NextFiles ==
  ASSUME PassesInv, FilesInv, [Next]_vars
  PROVE  FilesInv'
<1>1. Allowed(files)
  BY FilesAllowed
<1>2. CASE getCmdArgs
  BY <1>2, EarlyExit, GoesOn DEF getCmdArgs, Before, driverVars, Exit
<1>3. CASE getAST
  BY <1>3, EarlyExit, GoesOn DEF getAST, Before, driverVars, Accept, Exit
<1>4. CASE linkSymbols
  BY <1>4, EarlyExit, GoesOn DEF linkSymbols, Before, driverVars, Accept, Exit
<1>5. CASE checkSemantics
  BY <1>5, EarlyExit, GoesOn DEF checkSemantics, Before, driverVars, Exit
<1>6. CASE getOutputFile
  <2>1. phase = "getOutputFile" /\ Accepted /\ outfile' = OutputPath
        /\ UNCHANGED << options, source, status >>
    BY <1>6, AcceptedThen DEF getOutputFile
  <2>2. OutputPath' = OutputPath /\ (Accepted' <=> Accepted)
    BY <2>1, SameCommand
  <2>3. /\ phase' \in {"printAST", "lookupTarget"}
        /\ phase' = "lookupTarget" => ~ options.emit_ast
    BY <1>6 DEF getOutputFile, Accept
  <2>4. Allowed(files')
    <3>1. files' = files \/ files' = Assigned(files, OutputPath, "empty")
      BY <1>6 DEF getOutputFile
    <3>2. QED
      BY <1>1, <3>1, AllowedAssigned DEF Written, Contents
  <2>5. PICK fs : fs = files'
    OBVIOUS
  <2>6. \A p \in DOMAIN fs : fs[p] \in Contents /\ (fs[p] # "source" =>
          p = OutputPath \/ (p = temp_file /\ ~ options.emit_ast /\ ~ options.emit_llvm))
    BY <2>4, <2>5 DEF Allowed, Written
  <2>7. QED
    BY <2>1, <2>2, <2>3, <2>5, <2>6 DEF FilesInv, Before, Behind, temp_file
<1>7. CASE printAST
  <2>1. /\ phase = "printAST" /\ phase' = "exited" /\ status' = 0
        /\ UNCHANGED << options, source, outfile >>
    BY <1>7 DEF printAST
  <2> PICK content \in {"ast", "broken"} :
        files' = [p \in DOMAIN files |-> IF files[p] = "empty" THEN content ELSE files[p]]
    BY <1>7 DEF printAST
  <2>2. Allowed(files')
    BY <1>1, <2>1 DEF Allowed, Contents
  <2>3. QED
    BY <2>1, <2>2, LateExit DEF Behind
<1>8. CASE lookupTarget
  <2>1. CASE Exit(1)
    <3>1. phase = "lookupTarget" /\ phase' = "exited" /\ status' = 1
          /\ UNCHANGED << options, source, outfile, files >>
      BY <1>8, <2>1 DEF lookupTarget, Exit
    <3>2. Allowed(files')
      BY <1>1, <3>1
    <3>3. QED
      BY <3>1, <3>2, LateExit DEF Behind
  <2>2. CASE Accept("codegen") /\ UNCHANGED << driverVars, ast, passVars >>
    BY <1>8, <2>2, GoesOn DEF lookupTarget, Accept, driverVars, Behind
  <2>3. QED
    BY <1>8, <2>1, <2>2 DEF lookupTarget
<1>9. CASE codegen
  BY <1>9, GoesOn DEF codegen, driverVars, Behind
<1>10. CASE optimize
  BY <1>10, GoesOn DEF optimize, driverVars, Behind
<1>11. CASE emitLLVM
  <2>1. /\ phase = "emitLLVM" /\ phase' = "exited" /\ status' \in 0 .. 255
        /\ \/ files' = files \/ files' = Assigned(files, outfile, "llvm")
           \/ files' = Assigned(files, outfile, "broken")
        /\ UNCHANGED << options, source, outfile >>
    BY <1>11 DEF emitLLVM
  <2>2. Written(outfile)
    BY <2>1 DEF FilesInv, Behind, Written
  <2>3. /\ Allowed(files) /\ Allowed(Assigned(files, outfile, "llvm"))
        /\ Allowed(Assigned(files, outfile, "broken"))
    BY <1>1, <2>2, AllowedAssigned DEF Contents
  <2>4. Allowed(files')
    BY <2>1, <2>3 DEF Allowed, Written, OutputPath, temp_file
  <2>5. QED
    BY <2>1, <2>4, LateExit DEF Behind
<1>12. CASE assembleLink
  <2> PICK linked : linked = Assigned(files, temp_file, "llvm")
    OBVIOUS
  <2>1. /\ phase = "assembleLink" /\ phase' = "exited"
        /\ \/ files' = Assigned(linked, outfile, "executable")
           \/ files' \in {files, linked, Assigned(linked, outfile, "broken")}
        /\ status' = 1 \/ \E s \in WaitStatuses : status' = ExitStatus(s)
        /\ UNCHANGED << options, source, outfile >>
    BY <1>12 DEF assembleLink
  <2>2. Written(outfile) /\ Written(temp_file)
    BY <2>1 DEF FilesInv, Behind, Written
  <2>3. Allowed(linked)
    BY <1>1, <2>2, AllowedAssigned DEF Contents
  <2>4. /\ Allowed(Assigned(linked, outfile, "executable"))
        /\ Allowed(Assigned(linked, outfile, "broken"))
    BY <2>2, <2>3, AllowedAssigned DEF Contents
  <2>5. Allowed(files')
    BY <1>1, <2>1, <2>3, <2>4
  <2>6. status' \in 0 .. 255
    BY <2>1, ExitIsByte
  <2>7. QED
    BY <2>1, <2>5, <2>6, LateExit DEF Behind
<1>13. CASE RunPass
  BY <1>13, GoesOn DEF RunPass, Pass, driverVars, Before, Behind
<1>14. CASE UNCHANGED vars
  <2>1. UNCHANGED << phase, options, source, outfile, files, status >>
    BY <1>14 DEF vars, driverVars
  <2>2. OutputPath' = OutputPath /\ (Accepted' <=> Accepted)
    BY <2>1, SameCommand
  <2>3. QED
    BY <2>1, <2>2 DEF FilesInv, Untouched, temp_file
<1>15. QED
  BY <1>2, <1>3, <1>4, <1>5, <1>6, <1>7, <1>8, <1>9, <1>10, <1>11, <1>12, <1>13, <1>14
     DEF Next, Main

(***************************************************************************)
(* The results.                                                            *)
(***************************************************************************)
LEMMA Invariance == Spec => [](PassesInv /\ FilesInv)
<1>1. Init => PassesInv /\ FilesInv
  BY InitPasses, InitFiles
<1>2. PassesInv /\ FilesInv /\ [Next]_vars => PassesInv' /\ FilesInv'
  BY NextPasses, NextFiles
<1>3. QED
  BY <1>1, <1>2, PTL DEF Spec

\* Whatever std::system returns, the exit status is a byte, and main has one
\* when it has ended and not before (CMinus.cpp, main).
THEOREM TypeCorrectness == Spec => []DriverTypeOK
<1>1. FilesInv => DriverTypeOK
  BY DEF FilesInv, DriverTypeOK, Before, Behind, Contents, Running
<1>2. QED
  BY <1>1, Invariance, PTL

\* The passes check nothing of what they are given, and need not: each starts
\* from what the modules of the passes take for granted (CMinus.cpp, main).
THEOREM PassesAreHandedOver == Spec => HandOver
  BY Invariance, NextPasses, PTL DEF Spec, HandOver

\* A program that is not in the language, for whatever reason, ends in a
\* failure, and no file is opened for it (CMinus.cpp, the ways out of main).
THEOREM RejectionsAreSeen == Spec => []RejectionIsSeen
<1>1. FilesInv => RejectionIsSeen
  BY DEF FilesInv, RejectionIsSeen, Untouched
<1>2. QED
  BY <1>1, Invariance, PTL

Extension == IF options.emit_ast THEN ".ast" ELSE IF options.emit_llvm THEN ".ll" ELSE ""

LEMMA OutputExtension ==
  ASSUME options.output = NoPath
  PROVE  OutputPath.ext = Extension
<1> DEFINE stem == IF options.input = Stdin THEN "a.out" ELSE options.input.stem
<1>1. OutputPath = [stem |-> stem, ext |-> Extension]
  BY DEF OutputPath, Extension
<1> HIDE DEF stem
<1>2. QED
  BY <1>1

\* The source is lost only under the names that the output file, or the
\* temporary file of a link, has (CMinus.cpp:186-205 and 292-312).
THEOREM SourceIsKept == Spec => []SourceSurvives
<1>1. ASSUME FilesInv PROVE SourceSurvives
  <2> SUFFICES ASSUME NEW p \in DOMAIN files, p = options.input, files[p] # "source"
               PROVE  \/ options.output = p
                      \/ options.output = NoPath /\ p.ext = Extension
                      \/ p = temp_file /\ ~ options.emit_ast /\ ~ options.emit_llvm
    BY Zenon DEF SourceSurvives, Extension
  <2>1. CASE p = OutputPath
    <3>1. CASE options.output # NoPath
      BY <2>1, <3>1 DEF OutputPath
    <3>2. CASE options.output = NoPath
      BY <2>1, <3>2, OutputExtension, Zenon
    <3>3. QED
      BY <3>1, <3>2, Zenon
  <2>2. CASE p = temp_file /\ ~ options.emit_ast /\ ~ options.emit_llvm
    BY <2>2, Zenon
  <2>3. QED
    BY <1>1, <2>1, <2>2, Zenon DEF FilesInv
<1>2. QED
  BY <1>1, Invariance, PTL

\* What is optimized and written is complete and computed in order: every block
\* that the generator made in the compiler is in a function, ended, and reached
\* from its entry, and no run of it uses what it has not computed (CMinus.cpp,
\* codegen and what follows it).
THEOREM OnlyCompleteModulesAreWritten ==
  Spec => [](phase = "optimize" =>
               Finished /\ Generator!BlocksComplete /\ Generator!OperandsComputed)
<1>1. GeneratorProofs!BlocksComplete => Generator!BlocksComplete
  BY Zenon DEF
     Generator!BlocksComplete, Generator!Finished, Generator!nullptr, Generator!Reached,
     Generator!Last, Generator!Terminators, Generator!Successors, Generator!BlocksOf,
     Generator!Entry, Generator!Range, Generator!Min, GeneratorProofs!BlocksComplete,
     GeneratorProofs!Finished, GeneratorProofs!nullptr, GeneratorProofs!Reached,
     GeneratorProofs!Last, GeneratorProofs!Terminators, GeneratorProofs!Successors,
     GeneratorProofs!BlocksOf, GeneratorProofs!Entry, GeneratorProofs!Range,
     GeneratorProofs!Min
<1>2. GeneratorProofs!OperandsComputed => Generator!OperandsComputed
  BY Zenon DEF
     Generator!OperandsComputed, Generator!Finished, Generator!FunctionsOf,
     Generator!BuiltinDecls, Generator!Oracles, Generator!Executed, Generator!Range,
     Generator!Effect, Generator!NodesOf, Generator!Last, Generator!Front, Generator!nullptr,
     Generator!Entry, Generator!Min, Generator!BlocksOf, GeneratorProofs!OperandsComputed,
     GeneratorProofs!Finished, GeneratorProofs!FunctionsOf, GeneratorProofs!BuiltinDecls,
     GeneratorProofs!Oracles, GeneratorProofs!Executed, GeneratorProofs!Range,
     GeneratorProofs!Effect, GeneratorProofs!NodesOf, GeneratorProofs!Last,
     GeneratorProofs!Front, GeneratorProofs!nullptr, GeneratorProofs!Entry,
     GeneratorProofs!Min, GeneratorProofs!BlocksOf
<1>3. PassesInv => (phase = "optimize" =>
                      Finished /\ Generator!BlocksComplete /\ Generator!OperandsComputed)
  BY <1>1, <1>2, GeneratorAssumptions, GeneratorProofs!IInvComplete, GeneratorProofs!OInvComputed
     DEF PassesInv, Generating
<1>4. QED
  BY <1>3, Invariance, PTL

(***************************************************************************)
(* The outline.  A file holds one only when the printer has ended, and the *)
(* printer has not been started again since.                               *)
(***************************************************************************)
OutlineInv ==
  (\E p \in DOMAIN files : files[p] = "ast") =>
    phase = "exited" /\ Finished /\ Printing /\ source.ends = "tree" /\ ast = source.tree

LEMMA InitOutline == Init => OutlineInv
<1> SUFFICES ASSUME Init PROVE OutlineInv
  OBVIOUS
<1>1. FilesInv /\ phase = "getCmdArgs"
  BY InitFiles DEF Init
<1>2. Untouched
  BY <1>1 DEF FilesInv, Before
<1>3. QED
  BY <1>2 DEF Untouched, OutlineInv

LEMMA NextOutline ==
  ASSUME PassesInv, FilesInv, OutlineInv, [Next]_vars
  PROVE  OutlineInv'
<1> DEFINE NoOutline(fs) == \A p \in DOMAIN fs : fs[p] # "ast"
<1>1. ASSUME UNCHANGED vars PROVE OutlineInv'
  <2>1. UNCHANGED << phase, source, ast, stack, files >> /\ UNCHANGED Printer!vars
    BY <1>1 DEF vars, driverVars, passVars, symbolVars, semanticVars, printVars, Printer!vars,
                Printer!fields
  <2>2. Printing => Printing'
    BY <2>1, PrintingGoesOn
  <2>3. QED
    BY <2>1, <2>2 DEF OutlineInv, Finished
<1>2. ASSUME Next PROVE phase # "exited"
  BY <1>2 DEF Next, RunPass, Pass, Main, getCmdArgs, getAST, linkSymbols, checkSemantics,
              getOutputFile, printAST, lookupTarget, codegen, optimize, emitLLVM, assembleLink
<1>3. ASSUME Next PROVE NoOutline(files)
  BY <1>2, <1>3 DEF OutlineInv
<1>4. ASSUME NEW fs, NoOutline(fs), NEW p, NEW content \in Contents \ {"ast"}
      PROVE  NoOutline(Assigned(fs, p, content))
  BY <1>4 DEF Assigned
<1>5. ASSUME Next, ~ printAST PROVE NoOutline(files')
  <2> HIDE DEF NoOutline
  <2>1. CASE UNCHANGED files
    BY <1>3, <1>5, <2>1
  <2>2. CASE getOutputFile
    <3>1. files' = files \/ files' = Assigned(files, OutputPath, "empty")
      BY <2>2 DEF getOutputFile
    <3>2. QED
      BY <1>3, <1>4, <1>5, <3>1 DEF Contents
  <2>3. CASE emitLLVM
    <3>1. \/ files' = files \/ files' = Assigned(files, outfile, "llvm")
          \/ files' = Assigned(files, outfile, "broken")
      BY <2>3 DEF emitLLVM
    <3>2. QED
      BY <1>3, <1>4, <1>5, <3>1 DEF Contents
  <2>4. CASE assembleLink
    <3> PICK linked : linked = Assigned(files, temp_file, "llvm")
      OBVIOUS
    <3>1. \/ files' = Assigned(linked, outfile, "executable")
          \/ files' \in {files, linked, Assigned(linked, outfile, "broken")}
          \/ files' = files
      BY <2>4 DEF assembleLink
    <3>2. NoOutline(linked)
      BY <1>3, <1>4, <1>5 DEF Contents
    <3>3. /\ NoOutline(Assigned(linked, outfile, "executable"))
          /\ NoOutline(Assigned(linked, outfile, "broken"))
      BY <1>4, <3>2 DEF Contents
    <3>4. QED
      BY <1>3, <1>5, <3>1, <3>2, <3>3
  <2>5. CASE RunPass \/ getCmdArgs \/ getAST \/ linkSymbols \/ checkSemantics \/ lookupTarget
             \/ codegen \/ optimize
    <3>1. UNCHANGED files
      BY <2>5 DEF RunPass, driverVars, getCmdArgs, getAST, linkSymbols, checkSemantics, lookupTarget,
                  codegen, optimize, Exit
    <3>2. QED
      BY <2>1, <3>1
  <2>6. QED
    BY <1>5, <2>2, <2>3, <2>4, <2>5 DEF Next, Main
<1>6. CASE printAST
  <2>1. /\ phase = "printAST" /\ phase' = "exited" /\ Finished /\ Finished'
        /\ UNCHANGED << source, ast, stack, passVars >>
    BY <1>6 DEF printAST, Finished
  <2>2. Printing /\ source.ends = "tree" /\ ast = source.tree
    BY <2>1 DEF PassesInv
  <2>3. UNCHANGED Printer!vars
    BY <2>1 DEF passVars, symbolVars, semanticVars, printVars, Printer!vars, Printer!fields
  <2>4. Printing'
    BY <2>2, <2>3, PrintingGoesOn
  <2>5. QED
    BY <2>1, <2>2, <2>4 DEF OutlineInv
<1>7. QED
  BY <1>1, <1>5, <1>6 DEF OutlineInv

\* What --emit-ast leaves in a file, if it could be written, is the outline of
\* the source's tree, the whole of it, with the types of the type rules
\* (CMinus.cpp:216-218).
THEOREM OutlineIsOfTheSource == Spec => []OutlineOfSource
<1>1. PrinterProofs!OutlineShowsTree => Printer!OutlineShowsTree
  BY Zenon DEF
     Printer!OutlineShowsTree, Printer!Finished, Printer!NodeLines, Printer!Above,
     Printer!ParentIn, Printer!SideOf, Printer!Labels, Printer!Max, Printer!Within,
     Printer!Kid, PrinterProofs!OutlineShowsTree, PrinterProofs!Finished,
     PrinterProofs!NodeLines, PrinterProofs!Above, PrinterProofs!ParentIn,
     PrinterProofs!SideOf, PrinterProofs!Labels, PrinterProofs!Max, PrinterProofs!Within,
     PrinterProofs!Kid
<1>2. PrinterProofs!TypesAreShown =>
        \A i \in Printer!NodeLines :
          m_output[i].node \in DOMAIN type /\ m_output[i].says \notin Printer!Literals =>
            m_output[i].type = type[m_output[i].node]
  BY Zenon DEF
     Printer!NodeLines, Printer!Literals, Printer!Labels, PrinterProofs!TypesAreShown,
     PrinterProofs!NodeLines, PrinterProofs!Literals, PrinterProofs!Labels
<1>3. ASSUME FilesInv, OutlineInv PROVE OutlineOfSource
  <2> SUFFICES ASSUME NEW p \in DOMAIN files, files[p] = "ast"
               PROVE  OutlineOfSource
    BY DEF OutlineOfSource
  <2>1. phase = "exited" /\ Finished /\ Printing /\ ast = source.tree
    BY <1>3 DEF OutlineInv
  <2>2. Accepted
    BY <1>3, <2>1 DEF FilesInv, Untouched
  <2>3. /\ Printer!OutlineShowsTree
        /\ \A i \in Printer!NodeLines :
             m_output[i].node \in DOMAIN type /\ m_output[i].says \notin Printer!Literals =>
               m_output[i].type = type[m_output[i].node]
    BY <1>1, <1>2, <2>1, PrinterAssumptions, PrinterProofs!IInvOutline,
       PrinterProofs!IInvTypesShown DEF Printing
  <2>4. type = TypesOf(ast, Meaning(ast).referents)
    BY <2>1 DEF Printing, Ruled
  <2>5. QED
    BY <2>1, <2>2, <2>3, <2>4, Zenon DEF OutlineOfSource
<1>4. Init => OutlineInv
  BY InitOutline
<1>5. PassesInv /\ FilesInv /\ OutlineInv /\ [Next]_vars => OutlineInv'
  BY NextOutline
<1>6. QED
  BY <1>3, <1>4, <1>5, Invariance, PTL DEF Spec
==============================================================================
