# A formal model of the C- compiler

TLA+ specifications of the C- compiler in `src/src`, with TLC configurations that
model-check them on small programs and TLAPS proofs that hold for all programs.

## The system

The compiler is one process and one thread. It reads a source file, builds an
abstract syntax tree (AST), and runs passes over it, each a C++ visitor that
writes fields into the nodes which the later passes read.

| component | state | operations | interacts by |
|---|---|---|---|
| AST (`ast/AST.*`) | nodes, with the fields `referent`, `nest_level`, `type`, `always_returns`, `ir_value` | constructors, `accept` | read and written by every pass |
| Lexer (`lexer/`) | istream with its state bits, line and column, place of the token | `getToken` and the methods it calls, put-back of one character | called by the parser; throws at what is no lexeme |
| Parser (`parser/`) | current token, deque of tokens looked ahead, C++ call stack | one method per grammar rule, `getToken`, `peekToken`, `match` | pulls tokens from the lexer; hands the tree to the driver, or throws |
| Symbol table (`symbol/SymbolTable.*`) | vector of hash maps `m_table`, counter `m_nestLevel` | `enterScope`, `exitScope`, `insert`, `lookup` | owned by the symbol pass |
| Symbol pass (`symbol/SymbolVisitor.*`) | the table and the C++ call stack | one visit per node kind | sets `referent`, `nest_level`; throws at the first fault |
| Semantic pass (`semantics/`) | `m_errors`, `m_currentFunction` | one visit per node kind, `addError` | reads `referent`; sets `type`, `always_returns` |
| Code generator (`codegen/`) | LLVM module, insert point of the IRBuilder | one visit per node kind | reads every field; sets `ir_value` |
| AST printer (`ast/PrintVisitor.*`) | output stream, `m_currentDepth` | one visit per node kind | reads the tree |
| Driver (`CMinus.cpp`) | options, exit status, the files | `main` and a function per step | runs the passes in order, then the printer, or LLVM and clang |

Nothing runs concurrently and nothing is persisted. What is hard in this code is
of other kinds:

* **State kept in two places** that must agree: the size of the table and its
  nest level; `is_function_body` set by the parser and the scopes opened by the
  visit; `m_currentFunction` and the node visited; the deque of the parser and the
  lexer behind it; the position of the stream and the column counted by hand.
* **Long sequences of nested calls** that must restore what they change: scopes,
  the current function, the insert point, the depth of the printer.
* **Looking ahead**: the parser chooses by tokens it has not consumed, one, two or,
  for a subscript, as many as there are; the lexer peeks at and puts back characters.
* **The end of the input**, which each loop of the lexer and the parser must notice,
  and which the lexer recognises by comparing a `char` with `EOF`.
* **Facts computed by one pass and trusted, unchecked, by another**:
  `nest_level == 0` for globals, `always_returns` for closing blocks, `type` for
  choosing instructions, `ir_value` uninitialised until a visit sets it. The
  asserts that would notice are compiled out of a release build.
* **Going on after a failure**: an exception in the middle of nested visits; a
  semantic pass that continues after an error with a made-up type; streams and
  commands whose failure the driver does not ask for.
* **Order**: errors sorted by an unstable sort, declaration before use, values
  computed before places, instructions before the terminator of a block.

`PROJECT.json` lists each of these at its line, with the properties that watch it.

## The modules

| module | what it is |
|---|---|
| `Lexer` | the lexer over an istream, one action per method or turn of a loop |
| `Lexemes` | the tokens of a text, defined by the text alone, and what the lexer promises in those terms |
| `TokenWindow` | the current token and the deque: `getToken`, `peekToken`, over texts chosen as they are lexed |
| `TokenStream` | what the parser may take them for: a cursor over the tokens of the text |
| `Parser` | the recursive descent; extends `TokenWindow` and `CMinusAST` |
| `Grammar` | the grammar of the parser's comments, completed: which texts are programs, and the tree of each |
| `Syntax` | what the parser promises in terms of `Grammar`; extends both |
| `CMinusAST` | the AST: types, constructors, navigation, the builtins, `IsTree` |
| `TreeWalk` | what the visitors share: the tree and the stack of pending visits |
| `SymbolTable` | the table as the code keeps it; `LexicallyScoped` states that it implements `LexicalScopes` |
| `LexicalScopes` | what a symbol table promises: a stack of environments |
| `SymbolVisitor` | the symbol pass; extends `SymbolTable` and `TreeWalk` |
| `ScopeRules` | the scope rules of C- on a tree: what each use means, what is a fault |
| `StaticScoping` | what the symbol pass promises, in terms of `ScopeRules` only |
| `TypeRules` | the type rules and the return analysis as a judgement on a tree |
| `SemanticVisitor` | the semantic pass; extends `TypeRules` and `TreeWalk` |
| `Execution` | what a run of a function does, said of the tree |
| `CodegenVisitor` | the code generator; extends `Execution` and `TreeWalk` |
| `PrintVisitor` | the printer of `--emit-ast`; extends `TypeRules` and `TreeWalk` |
| `CMinus` | the driver; composes `SymbolVisitor`, `SemanticVisitor`, `CodegenVisitor` and `PrintVisitor` as instances on one tree |
| `Trees_proofs` | what the proofs about passes share: induction over nodes, subtrees as nested intervals, the declarations in scope at a node, that the recursive functions over nodes are defined, the pending work of a walk, sequences |
| `SymbolVisitor_proofs` | theorems and their proofs: the table, the symbol pass with it, and that the pass implements `StaticScoping` |
| `SemanticVisitor_proofs`, `CodegenVisitor_proofs`, `PrintVisitor_proofs`, `Lexer_proofs`, `Parser_proofs` | theorems and their proofs, of the module of that name |
| `CMinus_proofs` | theorems of the driver; has the proof modules of the passes and the printer as instances and puts their invariants one behind the other |
| `MC...` | small programs and bounds for TLC |

**Trees.** A tree is the sequence of its nodes in source order. A node is named
by its position and its children by their distance, so that a pointer becomes a
number, a subtree an interval, and a constructor a concatenation (`Tree`). The
order of positions is the order of source locations. Names are members of a small
set; values of literals do not matter to any pass and are left out. A builtin is
named by a negative number.

**Visits.** The recursion of `accept` and `visit` is the variable `stack`: the
work that the active calls have still to do. A visit replaces its own task by its
steps, the visits of its children among them. Every visit is one action, split
where a child is visited in its middle: `VisitX` is the code before the children,
`CheckX`, `EnterX` or `BranchX` the code between two of them, `FinishX` the code
after them. C++ local variables that live across a child's visit (the blocks of an
`if` or `while`) are kept in the task. A C++ exception empties the stack.

**Lexer.** A text is a sequence of characters, strings of length one; `"eof"` is the
`char` that `EOF` is converted to, which is also the byte 0xFF. `CharIsSigned` says
whether that `char` equals `EOF` again, which is up to the platform. The istream is
external: its position, `eofbit` and `failbit`, with `get`, `peek` and `putback` as the
standard has them (`putback` clears `eofbit` first, so that the last token of a text
that ends without a newline can be put back). `getChar` is recursive over white space
and is one step. The loops of `lexLiteral`, `lexKeywordID` and `eatComment` are one
action per turn, so that `Terminates` is about them. One keyword, three digits and
three letters stand for all: the code treats the members of each class alike.

**Parser.** The recursion of the methods is the variable `stack`, the calls that the
active methods have still to make; their local variables, tokens and trees, are on
`vals` in the order of the text. A method is one action up to its first call and one
for each condition after it (`declarator` is the second part of `variableDeclaration`,
`elsePart` of `ifStatement`). `make` is `make_unique` at the end of a method, with all
the values since the method was called. A lexeme is represented by the place of its
token, so that an identifier in a tree tells which token it was read from, and a node
carries the location the code gives it. A text is not chosen beforehand: `TokenWindow`
chooses the next token when the lexer is asked for it, so one behaviour stands for all
texts that begin alike, and an exception of the lexer is possible wherever a token is: its own `LexerException`, or
the `std::out_of_range` of `std::stoi`, which leaves `parse()` as well (`Unlexable`).

**Symbol table.** `m_table[m_nestLevel]` is `m_table[m_nestLevel + 1]`, sequences
starting at one. A name absent from a hash map is mapped to `nullptr`. `TableNext`
lets a caller do whatever the interface allows; closing only what was opened is the
caller's duty, and `TableUsedAsAllowed` proves that the symbol pass does its duty.

**Semantic pass.** An error is its kind and its location, a line and a column. How a text
is laid out is the constant `SourceLocation`: the place of each node, of which only
`InSourceOrder` is assumed, that a later node is on a later line, or further right on the
same. `addError` appends and sorts by the comparison that the code writes out
(`Precedes`). `std::ranges::sort` is external: any permutation of the list in which no
element precedes one before it (`Sorted`), so equal elements may change places. An
error of missing main has line and column -1. A node that starts with its first child (an assignment, an
operation, an implicit cast) has the location of that child.

**Code generator.** A basic block is a label, the function it was inserted in
(`nullptr` while it is in none) and its instructions. An instruction keeps its
operation, the node it was generated for, its operands and its branch targets. A
value that is only computed (arithmetic, comparison, address of an element) is a
term that remembers which loads, calls and allocations it is computed from: the
IRBuilder folds it when the operands are constants and otherwise puts it in the
same block, right behind those. LLVM's types, and the choice of the integer or the
float form of an operation, are left out. `ValueOf` yields `unset` for an `ir_value`
never assigned, so that a read of one is visible.

**Printer.** A line is which line it is, the node it is written for, its depth and the
type it shows. A `NestGuard` is the step into a depth and the task that leaves it; the
guard at `PrintVisitor.cpp:69` is a temporary, so the model has none there.

**Driver.** The variable `phase` is the function that `main` is in. A pass is an
instance of its module whose variables are those of `CMinus`; it takes steps while
`main` is in the function that started it, and the end of its stack is the end of that
function. The parser is one step here, which yields a tree, a `CMinusException` or the
`std::out_of_range` of `std::stoi`. Files are a function from paths to what is in
them. A stream may fail to open, and what is written to it may get there in part
(`"broken"`), which `main` does not ask about; a call of LLVM or of clang may fail, with
whatever status `std::system` may return (`WaitStatuses`).

**Definitions that are slips.** Next to some definitions stands a variant with a
comment `A slip:`. It is not part of the model; it is what a plausible bug would
make of the definition below it, and shows that the property named with it in
`PROJECT.json` (`mutants`) notices.

## The runs

| run | instance | what it shows |
|---|---|---|
| `lexer` | 15 421 texts: all of up to 2 characters, and up to 6 of those that work together in comments, numbers, names and columns; 235 183 states | the tokens returned, with type, lexeme, line and column, and the exception, are those of the text; every call ends |
| `parser` | eight families of texts with up to 7 free tokens; 995 729 states | accepted exactly if a program; refused at the first wrong token; the tree and the order of its locations are right; the window is a cursor; parsing ends |
| `symbol_table` | 4 names (2 of them builtins), 2 declarations, depth 2; 59 787 states | the table is in bounds and is a stack of environments under any allowed caller, to which `insert` binds the declaration it is given |
| `symbol_visitor` | 1 304 programs, valid and not; 25 950 states | scopes are balanced; links, nest levels and the rejected place are those of static scope; links are final |
| `semantic_visitor` | 891 programs, valid and not; 35 406 states | accepted exactly if well typed; return analysis exact; errors in the order of the text, and none lost; the current function is the enclosing one |
| `codegen_visitor` | the accepted ones of about 2 300 programs; runs of up to 5 decisions; 68 533 states | blocks complete, reachable, with one terminator; every run has the effects the program says; no operand is missing |
| `printer` | 182 programs, each as the parser, the symbol pass and the semantic pass leave it; 14 741 states | the outline read by its indentation is the tree |
| `driver` | 47 programs, two kinds of exception, 29 command lines, 6 wait statuses; 77 022 states | each pass starts from what it takes for granted; every refusal is seen in the exit status and touches no file; the source is lost only where the command line says so; an outline that was written is that of the source, with the types of the type rules |
| `unsigned_char` | texts with a comment left open | where `char` is unsigned, the lexer does not end (below) |
| `missing_main`, `early_main` | the programs of `semantic_visitor` | two disagreements between the messages about main and the check (below) |
| `void_returns` | three programs | a return of a void expression becomes an ill-formed instruction (below) |

**Bounds.** `MaxNestLevel = 2` opens three scopes: a name can be bound in a scope,
its parent and its grandparent, or in the two that are not adjacent, which is all
`lookup` distinguishes. The programs of `MCSymbolVisitor` put a declaration of one
name at every subset of global, parameter, local and block level, with uses before,
inside and after. `MCSemanticVisitor` has each operator with each pair of operands of
seven kinds (each type, an array, a function, a void call, an ill-typed call), and
statements nested two deep, the depth at which one statement's answer is combined
from answers that were combined. `MCCodegenVisitor` nests two statements and puts a
loop around; five decisions (`MaxDecisions`) let a run go round a loop, take either
side of each `if` in it and leave. A larger program only repeats these.

`MCParser` leaves places free in each stretch of the grammar: top-level declarations,
parameters, locals and statements, nested `if` and `while`, an expression, a subscript
that may be cut off by the end of the file or by either exception of the lexer, and any of
the 36 tokens in two adjacent places. Five to seven places hold a declaration with its
look-ahead of two, an `else` that two `if`s could take, an operation whose operand is
an operation, a subscript in a subscript. `MCLexer` has each pair of characters and
each sequence of up to six of `/`, `*`, a letter and a newline, which hold a comment
with stars at both ends and a token behind it. `IntMax` = 99 and `FloatMax` = 199 make
two digits fit and three overflow; `MaxColumn` = 40 is beyond every text; `ExtraCalls`
= 2 calls `getToken` twice after the end of the file. `MCPrintVisitor` has every kind of
node below every kind that may hold it. `MCCMinus` has programs that each pass accepts
and that each pass refuses; `MaxDecisions` = 2 there, as that run is not about runs of
the generated code. That it is a number is all the proofs ask of it (`DecisionsAssumption`).
`MCSourceLocation` puts three nodes on a line and indents them further and further, so
that of two places on different lines either may be further to the left.

**The properties that carry most.**

* `TokensAreText`: a lexer that reads, peeks and puts back returns what a definition of
  lexemes by longest match says, to the column, and past the end only `END_OF_FILE`.
* `AcceptsOnlyPrograms` and `RejectsAtFirstWrongToken`: the predictive parser with its
  ad-hoc look-ahead decides the language of `Grammar`, and has the viable-prefix property.
* `TreeIsWritten`: its tree is the one that `Grammar` gives, node by node.
* `HandOver`: in the composed program each pass, in the step that starts it, starts in
  its own `Init`, so what is checked or proved of a pass alone holds of it in the compiler.
* `SourceSurvives`: the input is overwritten in three cases only: the output has its name
  (`-o`); the output, named after the input, gets the extension that the input has; or a
  program is linked and the input bears the name that `std::tmpnam` made up, with the
  `.ll` that is put behind it afterwards (`tmpnam` only sees to it that the name without
  `.ll` is free).
* `StaticallyScoped`: the symbol pass, which knows a table and an order of visit,
  implements `StaticScoping`, which knows neither.
* `VerdictIsWellTyped`: the error-collecting, error-recovering pass decides the same
  set of programs as the judgement `WellTyped`, and leaves the types of `TypesOf`.
* `AlwaysReturnsIsExact`: `always_returns` is set exactly when control cannot fall out
  of the statement, by a collecting semantics of outcomes.
* `ErrorsSorted`: errors are found in another order than they stand in the text, and
  sorted by two numbers; the property speaks of the places they are about instead.
* `OutlineOfSource`: from the source to the file of `--emit-ast`, through every pass and
  with whatever failures, an outline is of an accepted source, is its whole tree, and
  shows for every expression but a literal the type that the rules give it (`TypesOf`),
  not that of the declaration it refers to.
* `RunsAsWritten`: for every outcome of every condition, running the blocks gives the
  sequence of allocations, loads, stores, calls, decisions and the return that running
  the tree gives. Compared are the operations and the nodes they are for, not the values of
  operands. `NothingAfterTerminator` and `BlocksComplete` make the blocks code
  that LLVM can accept at all; `OperandsComputed` is what SSA dominance asks.

**Fairness.** Each specification has `WF_vars(Next)`: the thread that runs the pass
keeps running; in `Lexer` the parser also keeps calling, and in `CMinus` LLVM and clang
answer. Nothing else is assumed, and there is only one action enabled at a time, but
for what the environment chooses and the order of equal errors. `Terminates` is stated
of the lexer and of the parser, which have loops that wait for a token or a character. The
visits of the passes, and `main`, have none.

**Deadlock.** A pass, the parser and the printer stop when their stack is empty, the
lexer after an exception or the last call, the driver when it has exited; their runs do
not check deadlock. `symbol_table` never stops and checks it.

## Disagreements found

* **A variable called main** (`missing_main`). The check of `SemanticVisitor.cpp:48`
  compares the name of the last declaration, whatever it declares. A program whose
  last declaration is `int main;` is accepted, and "No main function found." is not
  reported.
* **A variable behind main** (`early_main`). `SemanticVisitor.cpp:41` reports a main
  that is not the last *declaration*; the message says "main must be the last
  *function* declared."
* **A return of nothing** (`void_returns`). `SemanticVisitor.cpp:195` compares the
  types only, so `return output(1);` and `return a = 1;` pass in a void function;
  `CodegenVisitor.cpp:315` then makes a return with an operand that is no value, and
  the answer of `llvm::verifyFunction` (line 191) is ignored.

* **A comment left open** (`unsigned_char`). `Lexer.cpp:229` compares a `char` with
  `EOF`. Where `char` is unsigned, as on aarch64-linux, one of the systems `flake.nix`
  builds for, they are never equal: a comment left open is eaten for ever, though line
  238 says "If EOF is hit, put it back for getToken to hit".

`TypeRules` follows the code in the first three, so that the other properties are about
everything else.

Five more were seen while modelling. The model follows the code in each, and they have
no run of their own.

* The grammar in the comments at `Parser.cpp:533` and `:546` names neither `%` nor
  boolean and float literals nor a minus sign, all of which the parser accepts.
  `Productions` in `Grammar` adds them.
* Parentheses leave no node, and a node takes the location of its first operand:
  `(a) + b;` is located at `a`. `AST.hpp:151` says "the location in the source code where
  the construct begins".
* Where `char` is signed the byte 0xFF equals `EOF`, and the lexer, which "takes a source
  file and reads through it" (`Lexer.hpp:164`), stops there (`Lexer.cpp:92`). The texts of
  `lexer` hold no such byte.
* `lexLiteral` takes several dots into one lexeme and `std::stof` reads a prefix of it: the
  value of `1.1.1` is that of `1.1`. `ValueOf` in `Lexemes` says the same.
* The guard at `PrintVisitor.cpp:69` has no name and is gone at once, so below a function
  `m_currentDepth` is not "The current nest depth of the tree" (`PrintVisitor.hpp:54`).
  `OutlineShowsTree` reads the outline with the body as deep as the function.

## What is proved

Checked by TLAPS, for every value of the constants: any set of names that holds the
builtins' (`NameAssumption`), any set of declarations that are not builtins
(`DeclIdAssumption`), any set of texts (`TextsAssumption`), any layout of a text in lines and columns
(`LocationsAssumption`) and any set of programs of the
shape the parser builds (`ProgramsAssumption`: `IsProgram`, which is `IsTree` with a
program at the root; every node has the children its kind asks for, and they follow one
another in the text). What the pass before guarantees is in `Init`, not in an
assumption (that the printed trees have no fault of scope, in `PrintVisitor`, as well), and
`PassesAreHandedOver` proves it there. The driver asks of the constants what
its passes ask (`PassAssumption`, `PlacesAssumption`), and that command lines and wait statuses have their
types (`DriverAssumption`).

**The symbol table.**

* `TableAlwaysInBounds`: the table keeps its type, and its index is that of the last
  scope. The invariant is inductive as it stands once type and bound are taken
  together.
* `TableIsLexicallyScoped`: `TableSpec` implements `LexicalScopes`, and an `insert` is
  the abstract binding of the declaration it is given. The refinement
  mapping gives, for each open scope, the environment that `lookup` would see with
  that scope innermost. The heart is that `insert` changes the views of the top scope
  only and `enterScope` copies the view below it (`LookupAgrees`, `LookupUntouched`).

**The symbol pass.**

* `TypeCorrect`, `ScopesAlwaysBalanced`, `ReferentsAlwaysNamed`: the inductive invariant
  `IInv` adds to them that every pending task is about a node of the kind its step
  expects, that a raised exception has emptied the stack, and that what the table holds
  under a name is a declaration of that name. Each action is shown to be one of four
  shapes on the stack and the table (`StepShapes`), and the conjuncts are proved per shape.
* `TableUsedAsAllowed`: `Spec => TableSpec`, so the pass calls the table only as its
  interface allows; with the theorem before, `PassIsLexicallyScoped`: the table in the
  pass is lexically scoped on every tree.
* `PassIsStaticallyScoped`: the pass implements `StaticScoping` on every tree, which says
  of the tree alone what each use means and where the first fault is. `NestLevelsAreStatic`
  and `LinksStay` come from the same invariant, `WalkInv`: the pending work is a place in
  the tree, what lies before it is done and what lies behind is not; the table holds, for
  each scope open at that place, exactly the declarations of that scope before it
  (`TableOf`); referents and nest levels are there for the nodes before the place, with the
  values of `ScopeRules`; and no fault of the tree has been passed. So what `lookup` finds
  at a use is what the scope rules say, and an exception comes at the first fault.

**The semantic pass.**

* `TypeCorrectness`, `ErrorsStaySorted`, `ErrorsAreKept`, `ResultsStay`, `AnswersAreExact`,
  `ContextIsRight`. `Sorted` is shown to return a list of the same errors, each as often, in
  which none precedes one before it (`SortedParts`); and of two places of the text the
  earlier one precedes the later (`LaterPlace`), so that a list in the order of `Precedes` is in the order of the text.
  Nothing is said of the order of errors of one place, which the sort may change at each
  step. The inductive invariant has, next to the order of the errors, `Results`
  (what no pending task has yet to compute is computed, and no task computes twice) and
  `InContext` (each pending task leaves `m_currentFunction` as the one below it on the
  stack takes it up). An answer of the return analysis is then combined from the exact
  answers of the statements inside.
* `VerdictIsExact`: with or without errors, the pass decides the type rules. A program is
  judged in many places, and a pass that goes on after an error computes types that are
  not those of the rules, so nothing can be said of single nodes once there is one. Each
  task is therefore given the condition of the rules that it stands for, in terms of
  `TypesOf` and not of what the pass computed (`Holds`), and each node the tasks that
  judge it (`Judges`). The invariant `Verdict`, on top of the one above, says: if there is
  an error, then somewhere in the tree a condition fails; as long as there is none, the
  types so far are those of the rules, every condition of a finished node holds, and of a
  node begun every condition holds or its task is still to come before the node's end. A
  step without a new error has checked its condition on exact types, and the first error
  comes from a condition that fails (`Judged`). At the end no node is unfinished
  (`HoldsWellTyped`, `WellTypedHolds`).

**The code generator.**

* `NothingIsDead`, `BlocksAreComplete`, `OnlyVoidReturnsImplicitly`, `TypeCorrectness`. None
  of the properties is inductive: that a block is open when something is written to it
  depends on all that is pending. The invariant `IInv` gives each block a home, the function
  it is or will be placed in, and says: each pending task begins in an open block exactly
  if control can come to it, and leaves one open exactly if control can fall out of its
  node (`InOrder`, by the return analysis); the blocks not yet placed are those that the
  frames of pending `if`s and `while`s keep, each kept by one frame (`Awaits`), empty, and
  branched to already where the frame says so; every other block is placed, reachable from
  the first block of its home, and ended unless it is the one being written to (`Layout`).
  Reachable is said by closure (whatever set holds the first blocks and is closed under
  branches holds the block); that the iteration of `Reached` finds all of it is a separate
  argument, by counting (`FewJumpsEnough`).
* `OperandsAreComputed`: a run of the generated code, whatever its decisions and however
  long, has allocated the place and computed the operands of an instruction when it comes
  to it. This is not inductive in terms of runs, so the invariant `OInv` says of each block
  what a run may rely on where the block begins (`avail`): the allocations of the
  declarations that are visible at the statement the block was created for, and nothing at
  the entry of a function. The code of each block finds its operands in that or before
  itself, and a branch leads to a block that relies on no more than there is (`BlocksFit`).
  The pending work relies on the declarations visible at its node (`SeesInTurn`: each task
  leaves what the next one needs, by the scope rules of the symbol pass) and on the values
  of the operands visited before it, which are in the block that is being written to
  (`UsesInTurn`); the blocks kept by pending `if`s and `while`s begin with what is visible
  at their statement (`FramesFit`). Each action keeps it (`...Computes`), and a run of such
  blocks goes from one that has what it relies on to another (`RunStep`).

**The printer.**

* `PrintTypeCorrect`, `OutlineIsTree`. The code counts the depth up and down
  as visits begin and end, and writes as it goes; the tree gives both at once. `DepthOf` is
  the depth of each node's line, by recursion from its parent: a child is as deep as a
  function, one deeper than most nodes, two deeper where there is a label between. Each
  line also has a place among all lines, a number (`NodeKey`, `LabelKey`, `SemicolonKey`).
  The invariant (`IInv`, by `Reached`) says that the lines written are those of the places
  before the one reached, in order and none left out (`Written`), and that the pending
  tasks lead from that place and the current depth, each from where the one before it ends
  (`Along`), to the end of the tree at depth zero. Each action writes the lines between
  two places and puts tasks on the stack that lead on from the second (`Advances`). So the
  depth is never below zero, and a finished outline holds each line once. That it reads as
  the tree is then about `DepthOf` alone: no line between the one that opens a node's
  children and a child is less deep than the child (`Passed`), and the parameters and
  bodies, for which that is false, are those of functions, which are never inside one
  another (`KidOfFunction`, `FunctionsApart`).

**The driver.**

* `PassesAreHandedOver`: on every tree of the parser, each pass starts in its own `Init`,
  and the printer also with the types that the rules give. The invariant `PassesInv` goes
  through the functions of `main`: the fields a pass has yet to set are unset; in
  `linkSymbols` the invariant of the symbol pass holds (`Linking`), and after it the tree is
  linked (`Linked`); in `checkSemantics` that of the semantic pass, with its verdict
  (`Checking`), and after it the tree is checked (`Checked`); in `codegen` those of the
  generator (`Generating`), in `printAST` that of the printer (`Printing`). What each invariant says when the stack is empty is what the
  next `Init` asks, together with what the pass between has left alone.
* `OnlyCompleteModulesAreWritten`: what LLVM is given to optimize and write is complete, and
  no run of it misses an operand, in the compiler as a whole and not only in a generator
  that starts well.
* `OutlineIsOfTheSource`: a complete outline that `--emit-ast` leaves in a file is that of
  the tree of an accepted source, all of it and with the types of the type rules. The
  invariant (`OutlineInv`) is that a file holds an outline only after the printer has ended,
  and that the printer keeps the types of the rules, which the semantic pass left (`Ruled`).
* `RejectionsAreSeen`: a program that the rules do not accept is answered with 1 or with an
  abort, and no file is touched. It rests on both verdicts: past `linkSymbols` the program
  has no fault of scope, past `checkSemantics` it is well typed (`AcceptedThen`).
* `TypeCorrectness`, `SourceIsKept`: the invariant `FilesInv` says where a file may hold
  anything but a source: at the output path or at that of the temporary file, and nowhere
  before the output is opened.

`CMinus` has each pass as an instance of its module, and `CMinus_proofs` has it as an
instance of the proofs. The two are the same definitions under different names; the lemmas
`ProgramsAgree`, `...Step` and `...Start` say so, as far as it is used.

**The lexer.**

* `LexerTypeCorrect`, `LexemesInOrder`. That the stream is never put back before its start
  and the column never taken below zero is not inductive by itself: it rests on what was
  read last. `PlaceInv` says, method by method, what that is: the switch and `eatComment`
  have read their character (`Fetched`; it is no white space, so the column has been
  counted up) unless the stream has failed, and the loops of `lexLiteral` and
  `lexKeywordID` have a character before them that goes on the lexeme (`Taking`), so that
  `getChar`, which would skip white space, takes just that one. The line of the stream is
  that of the text as far as it has been read (`LineOf`, counted). For the order of the
  tokens the invariant keeps a place before which all of them lie (`Settled`): where the
  stream is between calls, before the character or the lexeme that is being read in one.
  It is put back with the character by `ungetChar`, and the lemmas `ReturnsStep`,
  `ThrowsStep` and `QuietStep` move it on. `LexemesInOrder` is the half of `TokensAreText`
  that says nothing is lexed that is not there: every token is a piece of the text at its
  line, and no two pieces overlap. That nothing is left out, and that each piece is the
  longest, compares with the recursive `LexemesFrom` and is model-checked.

**The token window.**

* `WindowCorrect`, `WindowImplementsStream`: the current token and the deque of the parser
  are a stretch of the tokens of the text, in order and with none left out; so the window
  implements the cursor of `TokenStream`. The invariant `WindowInv` is inductive; each
  method of the parser is shown to move the window by `getToken` or one turn of `peekToken`
  only (`StepMovesWindow`), and these two are shown to advance the cursor, or to look ahead
  (`GetAdvances`, `PeekLooksAhead`).

**Induction over a tree.** The library's induction rules take an operator as a parameter
and cannot be used. `Trees_proofs` has what is needed without them: a set of numbers has
a least member (`Least`, from the well-foundedness of `<`), so an induction takes the least
counterexample, and a recursive function whose value looks only at nodes of lower rank is
defined (`Recursion`). Nodes are numbers, so `OutcomesOf`, `Reached`, `DepthOf` and the
nesting of subtrees are within reach.

**Only model-checked.** Liveness, as the provers know no `ENABLED`. What compares a whole
run with another: `RunsAsWritten`. That the lexer's tokens are all those of the text, and what
the parser makes of them: the operators of `Grammar` and `Lexemes` are declared
`RECURSIVE`, and in modules with such declarations the provers do not run.

## What is not modelled

Every component of `src/src` is modelled. Left out of them: the wording of messages and
of the printed outline; the text of operators and types (`operator<<` in `AST.cpp`); the
values of literals beyond what `Lexer` has; the lines and columns of nodes, beyond their order and the `Lexer`;
LLVM's types and the choice between the integer and the float form of an operation;
comparisons with NaN. Boost's option parsing, LLVM's target, optimizer, verifier and
printer, the file system and clang are outside the repository; the driver calls them and
they may fail. `UnaryOp`, `INCREMENT` and `DECREMENT` have tokens and no syntax.

## Plan

1. Done: all components, their composition by the driver, and the theorems above.
2. Proofs to come: `LocationsOrderNodes` of the parser.
3. Beyond the provers: `RunsAsWritten`, whose runs are of any length, `TreeIsWritten` and
   `TokensAreText`, which compare with recursive operators.
