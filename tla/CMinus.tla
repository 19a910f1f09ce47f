------------------------------- MODULE CMinus -------------------------------
(***************************************************************************)
(* The driver (src/src/CMinus.cpp): main reads the command line, has the   *)
(* source parsed, runs the passes over the tree one after the other, and   *)
(* writes what was asked for.  The passes are the modules of their own,    *)
(* running on the one tree: each is an instance whose variables are those  *)
(* of this module.                                                         *)
(*                                                                         *)
(* The parser is one step here (module Parser models it): it yields a tree *)
(* or throws.  LLVM, the file system and clang are outside the repository: *)
(* they may fail wherever they are called.                                 *)
(***************************************************************************)
EXTENDS TypeRules, TreeWalk

CONSTANTS
  Name, DeclId, Programs, SourceLocation(_), MaxDecisions,  \* as the passes have them
  Invocations,   \* the command lines, parsed
  WaitStatuses   \* what std::system may return

\* An option that is not given.
NoPath == [stem |-> "", ext |-> ""]

\* The input file that stands for standard input.
Stdin == [stem |-> "-", ext |-> ""]

ASSUME DriverAssumption ==
  /\ \A o \in Invocations :
       /\ {o.malformed, o.help, o.emit_ast, o.emit_llvm} \subseteq BOOLEAN
       /\ {o.input, o.output} \subseteq [stem : STRING, ext : STRING]
  /\ WaitStatuses \subseteq Int

\* What each pass asks of the constants, of the parser's trees above all.
ASSUME PassAssumption ==
  /\ \A t \in Programs :
       /\ IsProgram(t)
       /\ DOMAIN t \subseteq DeclId
       /\ \A n \in DeclsOf(t) \cup UsesOf(t) : t[n].name \in Name
  /\ \A i \in DOMAIN g_builtins : g_builtins[i].name \in Name
  /\ DeclId \subseteq Int /\ DeclId \cap ({nullptr} \cup BuiltinDecls) = {}
  /\ MaxDecisions \in Nat

VARIABLES
  phase,     \* the function that main is in
  options,   \* the command line
  source,    \* what the parser makes of the input
  outfile,   \* the output file, once it is known
  files,     \* the content of the files that exist
  status,    \* the exit status, once main has ended
  referent, nest_level, type, always_returns, ir_value,  \* the fields of the tree
  m_table, m_nestLevel, raised,                          \* SymbolVisitor
  m_errors, m_currentFunction,                           \* SemanticVisitor
  blocks, insertBlock,                                   \* CodegenVisitor
  m_currentDepth, m_output                               \* PrintVisitor

driverVars == << options, source, outfile, files, status >>

symbolVars   == << referent, nest_level, m_table, m_nestLevel, raised >>
semanticVars == << type, always_returns, m_errors, m_currentFunction >>
codegenVars  == << ir_value, blocks, insertBlock >>
printVars    == << m_currentDepth, m_output >>

passVars == << symbolVars, semanticVars, codegenVars, printVars >>

vars == << phase, driverVars, ast, stack, passVars >>

SymbolPass   == INSTANCE SymbolVisitor
SemanticPass == INSTANCE SemanticVisitor
Generator    == INSTANCE CodegenVisitor
Printer      == INSTANCE PrintVisitor

ASSUME PlacesAssumption == \A t \in Programs : SemanticPass!InSourceOrder(t)

(***************************************************************************)
(* What the parser makes of a source: a tree, or an exception.             *)
(***************************************************************************)
ParsedTo(t) == [ends |-> "tree", tree |-> t]

Throws(exception) == [ends |-> exception, tree |-> << >>]

\* std::stoi may throw an exception that is no CMinusException (module Lexer).
Sources ==
  {ParsedTo(t) : t \in Programs} \cup {Throws("CMinusException"), Throws("out_of_range")}

\* The program is ended by an exception that nothing catches: SIGABRT.
Aborted == 134

Running == 256

Exit(code) ==
  /\ phase' = "exited"
  /\ status' = code
  /\ UNCHANGED << options, source, outfile, files, ast, stack, passVars >>

\* A file that does not exist is read as an empty one, which is no program.
Init ==
  /\ phase = "getCmdArgs"
  /\ options \in Invocations
  /\ source \in Sources
  /\ \/ files = IF options.input \in {NoPath, Stdin} THEN << >>
                ELSE Assigned(<< >>, options.input, "source")
     \/ files = << >> /\ source = Throws("CMinusException")
  /\ outfile = NoPath
  /\ status = Running
  /\ ast = << >> /\ stack = << >>
  /\ referent = << >> /\ nest_level = << >> /\ type = << >>
  /\ always_returns = << >> /\ ir_value = << >>
  /\ m_table = << >> /\ m_nestLevel = 0 /\ raised = SymbolPass!NoException
  /\ m_errors = << >> /\ m_currentFunction = nullptr
  /\ blocks = << >> /\ insertBlock = nullptr
  /\ m_currentDepth = 0 /\ m_output = << >>

(***************************************************************************)
(* Each step is the end of one function and the call of the next.          *)
(***************************************************************************)

\* accept, with a new visitor.
Accept(p) == phase' = p /\ stack' = << Visit(1) >>

getCmdArgs ==
  /\ phase = "getCmdArgs"
  /\ \/ options.malformed /\ Exit(Aborted)
     \/ /\ ~ options.malformed
        /\ options.help \/ options.input = NoPath \/ (options.emit_ast /\ options.emit_llvm)
        /\ Exit(1)
     \/ /\ ~ options.malformed
        /\ ~ options.help /\ options.input # NoPath /\ ~ (options.emit_ast /\ options.emit_llvm)
        /\ phase' = "getAST"
        /\ UNCHANGED << driverVars, ast, stack, passVars >>

getAST ==
  /\ phase = "getAST"
  /\ \/ /\ source.ends = "tree"
        /\ ast' = source.tree
        /\ Accept("linkSymbols")
        /\ m_table' = << SymbolPass!BuiltinScope >>
        /\ UNCHANGED << driverVars, m_nestLevel, raised, referent, nest_level, semanticVars,
                        codegenVars, printVars >>
     \/ source.ends = "CMinusException" /\ Exit(1)
     \/ source.ends = "out_of_range" /\ Exit(Aborted)

\* A slip: the exception is written and forgotten.
linkSymbolsAnyhow ==
  /\ phase = "linkSymbols" /\ Finished
  /\ Accept("checkSemantics")
  /\ UNCHANGED << driverVars, ast, passVars >>

\* The symbol pass has ended.  It leaves its table; the tree keeps the links.
linkSymbols ==
  /\ phase = "linkSymbols" /\ Finished
  /\ \/ raised # SymbolPass!NoException /\ Exit(1)
     \/ /\ raised = SymbolPass!NoException
        /\ Accept("checkSemantics")
        /\ UNCHANGED << driverVars, ast, passVars >>

\* A slip: the program ends with the wrong status.
checkSemanticsExit0 ==
  /\ phase = "checkSemantics" /\ Finished
  /\ \/ ~ SemanticPass!isValid /\ Exit(0)
     \/ /\ SemanticPass!isValid
        /\ phase' = "getOutputFile"
        /\ UNCHANGED << driverVars, ast, stack, passVars >>

checkSemantics ==
  /\ phase = "checkSemantics" /\ Finished
  /\ \/ ~ SemanticPass!isValid /\ Exit(1)
     \/ /\ SemanticPass!isValid
        /\ phase' = "getOutputFile"
        /\ UNCHANGED << driverVars, ast, stack, passVars >>

\* A slip: the extension of the output is put behind that of the input.
OutputAppended ==
  IF options.output # NoPath THEN options.output
  ELSE [options.input EXCEPT !.ext = IF options.emit_ast THEN @ \o ".ast"
                                     ELSE IF options.emit_llvm THEN @ \o ".ll"
                                     ELSE @]

\* The -o of the command line, or the input with another extension, or none.
OutputPath ==
  IF options.output # NoPath THEN options.output
  ELSE [stem |-> IF options.input = Stdin THEN "a.out" ELSE options.input.stem,
        ext  |-> IF options.emit_ast THEN ".ast" ELSE IF options.emit_llvm THEN ".ll" ELSE ""]

\* Opening for the printer truncates the file.  A file that cannot be opened
\* is not noticed.
getOutputFile ==
  /\ phase = "getOutputFile"
  /\ outfile' = OutputPath
  /\ \/ /\ options.emit_ast
        /\ files' \in {files, Assigned(files, OutputPath, "empty")}
        /\ Accept("printAST")
     \/ /\ ~ options.emit_ast
        /\ phase' = "lookupTarget"
        /\ UNCHANGED << files, stack >>
  /\ UNCHANGED << options, source, status, ast, passVars >>

\* The printer has ended; what was opened is closed.  That a part of it could
\* not be written is not noticed.
printAST ==
  /\ phase = "printAST" /\ Finished
  /\ \E content \in {"ast", "broken"} :
       files' = [p \in DOMAIN files |-> IF files[p] = "empty" THEN content ELSE files[p]]
  /\ phase' = "exited"
  /\ status' = 0
  /\ UNCHANGED << options, source, outfile, ast, stack, passVars >>

\* The start of codegen: LLVM may not know the target.
lookupTarget ==
  /\ phase = "lookupTarget"
  /\ \/ Exit(1)
     \/ /\ Accept("codegen")
        /\ UNCHANGED << driverVars, ast, passVars >>

codegen ==
  /\ phase = "codegen" /\ Finished
  /\ phase' = "optimize"
  /\ UNCHANGED << driverVars, ast, stack, passVars >>

\* The level selects a pipeline of LLVM, which keeps what the module does.
optimize ==
  /\ phase = "optimize"
  /\ phase' = IF options.emit_llvm THEN "emitLLVM" ELSE "assembleLink"
  /\ UNCHANGED << driverVars, ast, stack, passVars >>

\* A raw_fd_ostream that cannot be opened writes nothing.  Its error code is
\* not looked at.  If a write fails, LLVM ends the program when the stream is
\* closed.
emitLLVM ==
  /\ phase = "emitLLVM"
  /\ phase' = "exited"
  /\ \/ files' = Assigned(files, outfile, "llvm") /\ status' = 0
     \/ files' = Assigned(files, outfile, "broken") /\ status' = 1
     \/ status' \in {0, 1} /\ UNCHANGED files
  /\ UNCHANGED << options, source, outfile, ast, stack, passVars >>

\* std::tmpnam names no file that exists, but .ll is then put behind its name.
temp_file == [stem |-> "tmpnam", ext |-> ".ll"]

\* A slip: the status of the command is taken for that of main.
WaitStatus(s) == s

\* The low byte of what main returns is the exit status: that of a wait status
\* tells the signal that ended the command, and is zero if it exited.
ExitStatus(s) == s % 256

\* Only a clang that found its input and exited with 0 has linked a program;
\* another may leave the output file broken.  The temporary file stays.
assembleLink ==
  /\ phase = "assembleLink"
  /\ phase' = "exited"
  /\ \/ /\ files' = Assigned(Assigned(files, temp_file, "llvm"), outfile, "executable")
        /\ 0 \in WaitStatuses
        /\ status' = ExitStatus(0)
     \/ /\ LET written == Assigned(files, temp_file, "llvm")
           IN  files' \in {files, written, Assigned(written, outfile, "broken")}
        /\ \E s \in WaitStatuses \ {0} : status' = ExitStatus(s)
     \/ status' = 1 /\ UNCHANGED files
  /\ UNCHANGED << options, source, outfile, ast, stack, passVars >>

\* A pass runs while main is in the function that started it.
Pass ==
  \/ /\ phase = "linkSymbols"
     /\ SymbolPass!Next
     /\ UNCHANGED << semanticVars, codegenVars, printVars >>
  \/ /\ phase = "checkSemantics"
     /\ SemanticPass!Next
     /\ UNCHANGED << nest_level, m_table, m_nestLevel, raised, codegenVars, printVars >>
  \/ /\ phase = "printAST"
     /\ Printer!Next
     /\ UNCHANGED << nest_level, m_table, m_nestLevel, raised, always_returns, m_errors,
                     m_currentFunction, codegenVars >>
  \/ /\ phase = "codegen"
     /\ Generator!Next
     /\ UNCHANGED << m_table, m_nestLevel, raised, m_errors, m_currentFunction, printVars >>

RunPass == Pass /\ UNCHANGED << phase, driverVars >>

Main ==
  \/ getCmdArgs \/ getAST \/ linkSymbols \/ checkSemantics \/ getOutputFile \/ printAST
  \/ lookupTarget \/ codegen \/ optimize \/ emitLLVM \/ assembleLink

Next == RunPass \/ Main

\* One thread runs main to its end; LLVM and clang answer.
Spec == Init /\ [][Next]_vars /\ WF_vars(Next)

(***************************************************************************)
(* Properties.                                                             *)
(***************************************************************************)

\* Every state is of the shape the code and the system declare: an exit status
\* is a byte, whatever std::system returned.
DriverTypeOK ==
  /\ outfile \in {NoPath, OutputPath}
  /\ \A p \in DOMAIN files : files[p] \in {"source", "empty", "ast", "llvm", "executable", "broken"}
  /\ status \in 0 .. 255 \cup {Running}
  /\ phase = "exited" <=> status # Running

Starts(p) == phase # p /\ phase' = p

\* Each pass starts from what it takes for granted (the Init of its module):
\* what the passes before it left in the tree, the parser's nodes unset, is
\* complete and right.  So whatever holds of a pass on its own holds of the
\* pass in the compiler; the passes themselves check nothing of it.
HandsOver ==
  /\ Starts("linkSymbols")    => SymbolPass!Init'
  /\ Starts("checkSemantics") => SemanticPass!Init'
  /\ Starts("codegen")        => Generator!Init'
  /\ Starts("printAST")       => (Printer!Init /\ type = TypesOf(ast, referent))'

HandOver == [][HandsOver]_vars

\* The source is a program of the language, by its rules alone.
Accepted ==
  /\ source.ends = "tree"
  /\ LET m == Meaning(source.tree)
     IN  m.faults = {} /\ WellTyped(source.tree, m.referents)

\* A program that is not accepted, for whatever fault in whatever pass, is
\* answered with a status that is not 0 and leaves the files as they were; the
\* ways out of it are five std::exit and an exception, in as many functions.
RejectionIsSeen ==
  phase = "exited" /\ ~ Accepted =>
    /\ status \in {1, Aborted}
    /\ \A p \in DOMAIN files : files[p] = "source"

\* The source is only lost when the output file is asked for by its name, when
\* it has the extension that the output gets, which for an executable is none
\* (CMinus.cpp:197): "cminus prog" replaces prog; or, when a program is linked,
\* if it bears by chance the name of the temporary file.
SourceSurvives ==
  \A p \in DOMAIN files \cap {options.input} :
    files[p] # "source" =>
      \/ options.output = p
      \/ options.output = NoPath /\ p.ext = IF options.emit_ast THEN ".ast"
                                            ELSE IF options.emit_llvm THEN ".ll" ELSE ""
      \/ p = temp_file /\ ~ options.emit_ast /\ ~ options.emit_llvm

\* A file that holds the outline whole holds that of an accepted source: it
\* reads as the source's tree, and each expression shows the type that the type
\* rules give it.  The printer shows what it finds in the nodes, and for a use
\* whose type is not set that of the declaration (PrintVisitor.cpp:170).
OutlineOfSource ==
  (\E p \in DOMAIN files : files[p] = "ast") =>
    /\ Accepted
    /\ ast = source.tree
    /\ Printer!OutlineShowsTree
    /\ LET types == TypesOf(ast, Meaning(ast).referents)
       IN  \A i \in Printer!NodeLines :
             LET line == m_output[i]
             IN  line.node \in DOMAIN types /\ line.says \notin Printer!Literals =>
                   line.type = types[line.node]
=============================================================================
