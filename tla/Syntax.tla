------------------------------- MODULE Syntax -------------------------------
(***************************************************************************)
(* What the parser promises, against the grammar it documents and to the   *)
(* passes that walk its trees.                                             *)
(***************************************************************************)
EXTENDS Parser, Grammar

\* The tokens of the text before its end, as far as they were lexed.
Program == SelectSeq(source, LAMBDA t : t # "END_OF_FILE")

\* The tokens that were consumed.
Consumed == SubSeq(source, 1, Cursor - 1)

----------------------------------------------------------------------------
(***************************************************************************)
(* Every tree a method holds is one that the passes can walk: a function   *)
(* ends with its body, a block starts with its locals, a program holds     *)
(* declarations.  SymbolVisitor assumes it of the programs it is given.    *)
(* Of the exceptions that leave parse(), the one main does not catch, a    *)
(* std::out_of_range, is only ever the lexer's, of a literal too large,    *)
(* and never that of match, whose map of names lacks TRUE and FALSE.       *)
(***************************************************************************)
ParserTypeOK ==
  /\ WindowIsSource
  /\ thrown \in {"none", "ParserException"} \cup (Unlexable \cap NextLexemes)
  /\ \A i \in DOMAIN vals :
       \/ vals[i].type \in TokenType /\ vals[i].tree = << >>
       \/ vals[i].type = "tree" /\ IsTree(vals[i].tree)

(***************************************************************************)
(* parse() returns a tree only for a sentence of the grammar: one token of *)
(* look-ahead, two at a declaration, and the bracket scan of an expression *)
(* always choose the alternative that fits.                                *)
(***************************************************************************)
AcceptsOnlyPrograms == Accepted => Derives(Productions, Program)

(***************************************************************************)
(* And it refuses only a text that is no program, at the first token where *)
(* it stops being one: the token named by the exception cannot follow the  *)
(* ones consumed, which some program starts with.                          *)
(***************************************************************************)
RejectsAtFirstWrongToken ==
  thrown = "ParserException" =>
    /\ ViablePrefix(Productions, Consumed)
    /\ IF Current = "END_OF_FILE" THEN ~Derives(Productions, Consumed)
       ELSE ~ViablePrefix(Productions, Append(Consumed, Current))

(***************************************************************************)
(* The tree is the one the text stands for: operators bind and associate   *)
(* as the grammar nests them, an else goes to the nearest if, every name,  *)
(* type and operator is that of its own token, and nothing is dropped or   *)
(* read twice.                                                             *)
(***************************************************************************)
WithoutLocations(tree) ==
  [n \in DOMAIN tree |->
     [field \in DOMAIN tree[n] \ {"loc"} |-> tree[n][field]]]

TreeIsWritten == Accepted => WithoutLocations(Parsed) = ProgramTree(Program)

(***************************************************************************)
(* The locations the parser gives to nodes order them as SemanticVisitor   *)
(* assumes when it sorts its errors (LocationOf): in source order, with a  *)
(* node that starts with its first operand where that operand is.          *)
(***************************************************************************)
Reported == DeclKinds \cup UseKinds \cup StartsWithChild \cup {"Return", "If", "While"}

LocationsOrderNodes ==
  Accepted =>
    LET place == [n \in DOMAIN Parsed |-> LocationOf(Parsed, n)]
        nodes == {n \in DOMAIN Parsed : Parsed[n].kind \in Reported}
    IN  \A m, n \in nodes :
          Parsed[m].loc < Parsed[n].loc <=> place[m] < place[n]

(***************************************************************************)
(* The scan of expression() for a closing bracket only looks: when the     *)
(* file ends first it calls variableExpression, and that call never        *)
(* returns, so the loop is not resumed with the token gone (the comment at *)
(* Parser.cpp:369 relies on it).                                           *)
(***************************************************************************)
ScanNeverResumes == Doing("scan") => Len(vals) = Top.base

(***************************************************************************)
(* Every text is parsed or refused: the end of the file stops each loop    *)
(* that waits for a token.                                                 *)
(***************************************************************************)
Terminates == <>Finished
=============================================================================
