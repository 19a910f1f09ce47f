---------------------------- MODULE SymbolTable ----------------------------
(***************************************************************************)
(* The symbol table of the symbol pass (src/src/symbol/SymbolTable.cpp):   *)
(* a vector of hash maps, one for each open scope, and the index of the    *)
(* innermost one.  m_table[m_nestLevel] of the code is                     *)
(* m_table[m_nestLevel + 1] here, sequences being numbered from one.       *)
(***************************************************************************)
EXTENDS CMinusAST

CONSTANTS
  Name,     \* the identifiers of the programs considered
  DeclId    \* the declarations a user's tree can hold

ASSUME NameAssumption ==
  \A i \in DOMAIN g_builtins : g_builtins[i].name \in Name

ASSUME DeclIdAssumption ==
  DeclId \subseteq Int /\ DeclId \cap ({nullptr} \cup BuiltinDecls) = {}

VARIABLES
  m_table,      \* the open scopes, the global one first
  m_nestLevel   \* index of the innermost scope, from zero

tableVars == << m_table, m_nestLevel >>

AnyDecl == DeclId \cup BuiltinDecls

\* A hash map from names to declarations; it never holds a null pointer, so
\* nullptr marks the names it does not contain.
ScopeTable == [Name -> AnyDecl \cup {nullptr}]

TableTypeOK ==
  /\ m_table \in Seq(ScopeTable)
  /\ m_nestLevel \in Nat

(***************************************************************************)
(* The constructor: the global scope, with every builtin inserted.         *)
(***************************************************************************)
\* A slip: the builtins entered under each other's names.
BuiltinSwapped(x) ==
  CASE x = "input"  -> -2
    [] x = "output" -> -1
    [] OTHER        -> nullptr

BuiltinCalled(x) ==
  IF \E b \in BuiltinDecls : g_builtins[-b].name = x
  THEN CHOOSE b \in BuiltinDecls : g_builtins[-b].name = x
  ELSE nullptr

BuiltinScope == [x \in Name |-> BuiltinCalled(x)]

TableInit ==
  /\ m_table = << BuiltinScope >>
  /\ m_nestLevel = 0

enterScope ==
  /\ m_nestLevel' = m_nestLevel + 1
  /\ m_table' = Append(m_table, [x \in Name |-> nullptr])

\* Slips of exitScope: the index lags behind, or runs ahead.
exitScopeKeepsLevel ==
  /\ m_table' = Front(m_table)
  /\ UNCHANGED m_nestLevel

exitScopeTwice ==
  /\ m_table' = Front(m_table)
  /\ m_nestLevel' = m_nestLevel - 2

exitScope ==
  /\ m_table' = Front(m_table)
  /\ m_nestLevel' = m_nestLevel - 1

\* A slip: the number of scopes for the index of the last.
countOfScopes == Len(m_table)

getNestLevel == m_nestLevel

\* The condition on which insert throws MultipleDeclaredSymbolException.
Declared(x) == m_table[m_nestLevel + 1][x] # nullptr

insert(x, d) ==
  /\ ~ Declared(x)
  /\ m_table' = [m_table EXCEPT ![m_nestLevel + 1][x] = d]
  /\ UNCHANGED m_nestLevel

\* The scopes, of the first k of a table, that hold a declaration of x.
ScopesOf(table, x, k) == {i \in 1 .. k : table[i][x] # nullptr}

\* A slip: the search goes from the global scope inwards.
LookupOutermost(table, x, k) ==
  LET scopes == ScopesOf(table, x, k)
  IN  IF scopes = {}
      THEN nullptr
      ELSE table[CHOOSE i \in scopes : \A j \in scopes : i <= j][x]

\* The answer of a search of the first k scopes, innermost first.
LookupFrom(table, x, k) ==
  LET scopes == ScopesOf(table, x, k)
  IN  IF scopes = {}
      THEN nullptr
      ELSE table[CHOOSE i \in scopes : \A j \in scopes : j <= i][x]

lookup(x) == LookupFrom(m_table, x, Len(m_table))

(***************************************************************************)
(* Every use of the table that its interface allows.  pop_back on the      *)
(* vector of a table whose only scope is the global one would leave        *)
(* m_table[m_nestLevel] out of bounds: closing only what was opened is the *)
(* duty of the caller.                                                     *)
(***************************************************************************)
TableNext ==
  \/ enterScope
  \/ m_nestLevel > 0 /\ exitScope
  \/ \E x \in Name, d \in DeclId : insert(x, d)

TableSpec == TableInit /\ [][TableNext]_tableVars

(***************************************************************************)
(* The index the code writes and reads through is that of the last scope,  *)
(* whatever the sequence of calls: m_nestLevel and the size of m_table are *)
(* kept apart and only agree because every method changes both             *)
(* (SymbolTable.cpp:24-32), and operator[] checks nothing.                 *)
(***************************************************************************)
TableInBounds == Len(m_table) = m_nestLevel + 1

(***************************************************************************)
(* A symbol table promises lexical scope: what lookup answers is what an   *)
(* environment copied at every enterScope and dropped at every exitScope   *)
(* would, and insert binds the name to the declaration it is given.        *)
(***************************************************************************)
Environment ==
  INSTANCE LexicalScopes WITH
    Value <- AnyDecl,
    NoValue <- nullptr,
    Initial <- BuiltinScope,
    views <- [k \in 1 .. Len(m_table) |->
                [x \in Name |-> LookupFrom(m_table, x, k)]],
    declared <- [k \in 1 .. Len(m_table) |->
                   {x \in Name : m_table[k][x] # nullptr}]

LexicallyScoped ==
  /\ Environment!Spec
  /\ [][\A x \in Name, d \in DeclId :
          insert(x, d) => Environment!Bind(x, d)]_tableVars
=============================================================================
