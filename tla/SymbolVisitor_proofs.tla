------------------------ MODULE SymbolVisitor_proofs ------------------------
(***************************************************************************)
(* The symbol table never indexes out of its vector and answers every      *)
(* lookup as lexical scope says, for every set of names and declarations   *)
(* and every depth of nesting.  The symbol pass keeps its scopes balanced  *)
(* and links a use only to a declaration of the same name, on every tree.  *)
(***************************************************************************)
EXTENDS SymbolVisitor, Trees_proofs

(***************************************************************************)
(* The symbol table.                                                       *)
(***************************************************************************)
TableInv == TableTypeOK /\ TableInBounds

LEMMA BuiltinScopeType == BuiltinScope \in ScopeTable
  BY DEF BuiltinScope, BuiltinCalled, ScopeTable, AnyDecl, BuiltinDecls, nullptr

LEMMA InitTyped == TableInit => TableInv
  BY BuiltinScopeType DEF TableInit, TableInv, TableTypeOK, TableInBounds

LEMMA EnterScopeTyped == TableInv /\ enterScope => TableInv'
<1> SUFFICES ASSUME TableInv, enterScope PROVE TableInv'
  OBVIOUS
<1>1. [x \in Name |-> nullptr] \in ScopeTable
  BY DEF ScopeTable
<1>2. QED
  BY <1>1 DEF TableInv, TableTypeOK, TableInBounds, enterScope

LEMMA ExitScopeTyped == TableInv /\ m_nestLevel > 0 /\ exitScope => TableInv'
  BY DEF TableInv, TableTypeOK, TableInBounds, exitScope, Front

LEMMA InsertTyped ==
  ASSUME NEW x \in Name, NEW d \in AnyDecl, TableInv, insert(x, d)
  PROVE  TableInv'
<1>1. m_nestLevel + 1 \in 1 .. Len(m_table)
  BY DEF TableInv, TableTypeOK, TableInBounds
<1>2. [m_table[m_nestLevel + 1] EXCEPT ![x] = d] \in ScopeTable
  BY <1>1 DEF TableInv, TableTypeOK, ScopeTable
<1>3. m_table' \in Seq(ScopeTable) /\ Len(m_table') = Len(m_table)
  BY <1>1, <1>2 DEF TableInv, TableTypeOK, insert
<1>4. QED
  BY <1>3 DEF TableInv, TableTypeOK, TableInBounds, insert

LEMMA NextTyped == TableInv /\ [TableNext]_tableVars => TableInv'
<1> SUFFICES ASSUME TableInv, [TableNext]_tableVars PROVE TableInv'
  OBVIOUS
<1>1. CASE enterScope
  BY <1>1, EnterScopeTyped
<1>2. CASE m_nestLevel > 0 /\ exitScope
  BY <1>2, ExitScopeTyped
<1>3. CASE \E x \in Name, d \in DeclId : insert(x, d)
  BY <1>3, InsertTyped DEF AnyDecl
<1>4. CASE UNCHANGED tableVars
  BY <1>4 DEF tableVars, TableInv, TableTypeOK, TableInBounds
<1>5. QED
  BY <1>1, <1>2, <1>3, <1>4 DEF TableNext

(***************************************************************************)
(* Whatever its caller does, short of closing the global scope, the index  *)
(* m_nestLevel is that of the last scope of m_table.                       *)
(***************************************************************************)
THEOREM TableAlwaysInBounds == TableSpec => [](TableTypeOK /\ TableInBounds)
<1>1. TableSpec => []TableInv
  BY InitTyped, NextTyped, PTL DEF TableSpec
<1>2. TableInv => TableTypeOK /\ TableInBounds
  BY DEF TableInv
<1>3. QED
  BY <1>1, <1>2, PTL

(***************************************************************************)
(* Lookup.  The innermost scope that holds a name exists as soon as one    *)
(* does, and depends only on the scopes searched.                          *)
(***************************************************************************)
LEMMA LeastElement ==
  ASSUME NEW T \in SUBSET Nat, T # {}
  PROVE  \E m \in T : \A n \in T : m <= n
<1> DEFINE R == OpToRel(<, Nat)
<1>1. PICK m \in T : \A n \in T : ~ (<< n, m >> \in R)
  <2>1. IsWellFoundedOn(R, Nat)
    BY NatLessThanWellFounded
  <2> HIDE DEF R
  <2>2. QED
    BY <2>1, WFMin
<1>2. \A n \in T : ~ (n < m)
  BY <1>1 DEF OpToRel
<1>3. QED
  BY <1>2

LEMMA GreatestExists ==
  ASSUME NEW k \in Nat, NEW S \in SUBSET (1 .. k), S # {}
  PROVE  \E i \in S : \A j \in S : j <= i
<1> DEFINE D == {k - i : i \in S}
<1>1. D \in SUBSET Nat
  <2>1. \A i \in S : i \in Int /\ i <= k
    OBVIOUS
  <2>2. \A i \in S : k - i \in Nat
    BY <2>1
  <2>3. QED
    BY <2>2, Zenon
<1>2. PICK m \in D : \A n \in D : m <= n
  <2>1. D # {}
    BY Zenon
  <2> HIDE DEF D
  <2>2. QED
    BY <1>1, <2>1, LeastElement
<1>3. PICK i \in S : m = k - i
  BY <1>2
<1>4. \A j \in S : k - i <= k - j
  BY <1>2, <1>3
<1>5. QED
  BY <1>3, <1>4

LEMMA LookupOfInnermost ==
  ASSUME NEW table, NEW x, NEW k \in Nat, NEW i \in ScopesOf(table, x, k),
         \A j \in ScopesOf(table, x, k) : j <= i
  PROVE  LookupFrom(table, x, k) = table[i][x]
<1> DEFINE scopes == ScopesOf(table, x, k)
           c == CHOOSE h \in scopes : \A j \in scopes : j <= h
<1>1. c \in scopes /\ \A j \in scopes : j <= c
  OBVIOUS
<1>2. scopes \subseteq Int
  BY DEF ScopesOf
<1>3. c = i
  BY <1>1, <1>2
<1>4. QED
  BY <1>3 DEF LookupFrom

LEMMA LookupCases ==
  ASSUME NEW table, NEW x, NEW k \in Nat
  PROVE  \/ ScopesOf(table, x, k) = {} /\ LookupFrom(table, x, k) = nullptr
         \/ \E i \in ScopesOf(table, x, k) :
              /\ \A j \in ScopesOf(table, x, k) : j <= i
              /\ LookupFrom(table, x, k) = table[i][x]
<1>1. CASE ScopesOf(table, x, k) = {}
  BY <1>1 DEF LookupFrom
<1>2. CASE ScopesOf(table, x, k) # {}
  <2>1. ScopesOf(table, x, k) \in SUBSET (1 .. k)
    BY DEF ScopesOf
  <2>2. PICK i \in ScopesOf(table, x, k) :
          \A j \in ScopesOf(table, x, k) : j <= i
    BY <1>2, <2>1, GreatestExists
  <2>3. QED
    BY <2>2, LookupOfInnermost
<1>3. QED
  BY <1>1, <1>2

\* Two tables that agree on x in the scopes that can hold it answer alike.
LEMMA LookupAgrees ==
  ASSUME NEW table, NEW other, NEW x, NEW k \in Nat, NEW l \in Nat,
         ScopesOf(table, x, k) = ScopesOf(other, x, l),
         \A i \in ScopesOf(table, x, k) : table[i][x] = other[i][x]
  PROVE  LookupFrom(table, x, k) = LookupFrom(other, x, l)
<1>1. CASE ScopesOf(table, x, k) = {}
  BY <1>1 DEF LookupFrom
<1>2. ASSUME NEW i \in ScopesOf(table, x, k),
             \A j \in ScopesOf(table, x, k) : j <= i
      PROVE  LookupFrom(table, x, k) = LookupFrom(other, x, l)
  BY <1>2, LookupOfInnermost
<1>3. QED
  BY <1>1, <1>2, LookupCases

\* Scopes that are the same in two tables answer the same.
LEMMA LookupUntouched ==
  ASSUME NEW table, NEW other, NEW x, NEW k \in Nat,
         \A i \in 1 .. k : table[i][x] = other[i][x]
  PROVE  LookupFrom(table, x, k) = LookupFrom(other, x, k)
<1>1. ScopesOf(table, x, k) = ScopesOf(other, x, k)
  BY DEF ScopesOf
<1>2. \A i \in ScopesOf(table, x, k) : table[i][x] = other[i][x]
  BY DEF ScopesOf
<1>3. QED
  BY <1>1, <1>2, LookupAgrees

(***************************************************************************)
(* Refinement.  The environment of a scope is what lookup answers when the *)
(* scopes inside it are closed.                                            *)
(***************************************************************************)
Views == [k \in 1 .. Len(m_table) |-> [x \in Name |-> LookupFrom(m_table, x, k)]]

DeclaredSets ==
  [k \in 1 .. Len(m_table) |-> {x \in Name : m_table[k][x] # nullptr}]

\* A function on 1 .. n + 1 that agrees with f on 1 .. n appends to f.
LEMMA ExtendedByOne ==
  ASSUME NEW n \in Nat, NEW f, NEW g,
         f = [k \in 1 .. n |-> f[k]], g = [k \in 1 .. n + 1 |-> g[k]],
         \A k \in 1 .. n : g[k] = f[k]
  PROVE  g = Append(f, g[n + 1])
<1> DEFINE S == {g[k] : k \in 1 .. n + 1}
<1>1. f \in [1 .. n -> S] /\ g \in [1 .. n + 1 -> S] /\ g[n + 1] \in S
  <2>1. \A k \in 1 .. n + 1 : g[k] \in S
    BY Zenon
  <2> HIDE DEF S
  <2>2. \A k \in 1 .. n : f[k] \in S
    BY <2>1
  <2>3. f \in [1 .. n -> S] /\ g \in [1 .. n + 1 -> S]
    BY <2>1, <2>2, Zenon
  <2>4. QED
    BY <2>1, <2>3
<1> HIDE DEF S
<1>2. f \in Seq(S) /\ g \in Seq(S) /\ n + 1 \in Nat
  BY <1>1, SeqDef
<1>3. Len(f) = n /\ Len(g) = n + 1
  BY <1>1, <1>2, LenProperties
<1>4. /\ Append(f, g[n + 1]) \in Seq(S)
      /\ Len(Append(f, g[n + 1])) = n + 1
      /\ \A k \in 1 .. n : Append(f, g[n + 1])[k] = f[k]
      /\ Append(f, g[n + 1])[n + 1] = g[n + 1]
  BY <1>1, <1>2, <1>3, AppendProperties
<1>5. \A k \in 1 .. n + 1 : g[k] = Append(f, g[n + 1])[k]
  BY <1>4, SMTT(30)
<1>6. QED
  BY <1>2, <1>3, <1>4, <1>5, SeqEqual

\* A function that differs from f at one point only updates f there.
LEMMA UpdatedAt ==
  ASSUME NEW D, NEW m \in D, NEW f, NEW g,
         f = [k \in D |-> f[k]], g = [k \in D |-> g[k]],
         \A k \in D : k # m => g[k] = f[k]
  PROVE  g = [f EXCEPT ![m] = g[m]]
<1>1. [f EXCEPT ![m] = g[m]] = [k \in D |-> IF k = m THEN g[m] ELSE f[k]]
  BY SMT
<1>2. \A k \in D : g[k] = IF k = m THEN g[m] ELSE f[k]
  OBVIOUS
<1>3. QED
  BY <1>1, <1>2, Zenon

LEMMA InitRefines == TableInit => Environment!Init
<1> SUFFICES ASSUME TableInit PROVE Environment!Init
  OBVIOUS
<1>1. Len(m_table) = 1 /\ m_table[1] = BuiltinScope
  BY DEF TableInit
<1>2. ASSUME NEW x \in Name PROVE LookupFrom(m_table, x, 1) = BuiltinScope[x]
  <2>1. CASE BuiltinScope[x] = nullptr
    BY <1>1, <2>1 DEF LookupFrom, ScopesOf
  <2>2. CASE BuiltinScope[x] # nullptr
    <3>1. 1 \in ScopesOf(m_table, x, 1) /\ \A j \in ScopesOf(m_table, x, 1) : j <= 1
      BY <1>1, <2>2 DEF ScopesOf
    <3>2. QED
      BY <1>1, <3>1, LookupOfInnermost
  <2>3. QED
    BY <2>1, <2>2
<1>3. [x \in Name |-> LookupFrom(m_table, x, 1)] = BuiltinScope
  BY <1>2 DEF BuiltinScope
<1>4. Views = << BuiltinScope >>
  BY <1>1, <1>3 DEF Views
<1>5. DeclaredSets = << {x \in Name : BuiltinScope[x] # nullptr} >>
  BY <1>1 DEF DeclaredSets
<1>6. QED
  BY <1>4, <1>5 DEF Environment!Init, Views, DeclaredSets

LEMMA EnterRefines == TableInv /\ enterScope => Environment!Enter
<1> SUFFICES ASSUME TableInv, enterScope PROVE Environment!Enter
  OBVIOUS
<1> PICK n : n = Len(m_table)
  OBVIOUS
<1>1. /\ n \in Nat /\ n > 0
      /\ Len(m_table') = n + 1
      /\ \A i \in 1 .. n : m_table'[i] = m_table[i]
      /\ \A x \in Name : m_table'[n + 1][x] = nullptr
  BY DEF TableInv, TableTypeOK, TableInBounds, enterScope
<1>2. \A x \in Name, k \in 1 .. n :
        LookupFrom(m_table', x, k) = LookupFrom(m_table, x, k)
  BY <1>1, LookupUntouched
<1>3. ASSUME NEW x \in Name
      PROVE  LookupFrom(m_table', x, n + 1) = LookupFrom(m_table', x, n)
  <2>1. ScopesOf(m_table', x, n + 1) = ScopesOf(m_table', x, n)
    BY <1>1 DEF ScopesOf
  <2>2. QED
    BY <1>1, <2>1, LookupAgrees
<1>4. Views' = Append(Views, Last(Views))
  <2>1. Len(Views) = n /\ Last(Views) = Views[n]
    BY <1>1 DEF Views, Last
  <2>2. \A k \in 1 .. n : Views'[k] = Views[k]
    BY <1>1, <1>2 DEF Views
  <2>3. Views'[n + 1] = Views[n]
    BY <1>1, <1>2, <1>3 DEF Views
  <2>4. Views = [k \in 1 .. n |-> Views[k]]
    BY <1>1 DEF Views
  <2>5. Views' = [k \in 1 .. n + 1 |-> Views'[k]]
    BY <1>1 DEF Views
  <2> HIDE DEF Views
  <2>6. QED
    BY <1>1, <2>1, <2>2, <2>3, <2>4, <2>5, ExtendedByOne
<1>5. DeclaredSets' = Append(DeclaredSets, {})
  BY <1>1 DEF DeclaredSets
<1>6. QED
  BY <1>4, <1>5 DEF Environment!Enter, Environment!Last, Last, Views, DeclaredSets

LEMMA ExitRefines ==
  TableInv /\ m_nestLevel > 0 /\ exitScope => Environment!Leave
<1> SUFFICES ASSUME TableInv, m_nestLevel > 0, exitScope PROVE Environment!Leave
  OBVIOUS
<1> PICK n : n = Len(m_table)
  OBVIOUS
<1>1. /\ n \in Nat /\ n > 1
      /\ Len(m_table') = n - 1
      /\ \A i \in 1 .. n - 1 : m_table'[i] = m_table[i]
  BY DEF TableInv, TableTypeOK, TableInBounds, exitScope, Front
<1>2. \A x \in Name, k \in 1 .. n - 1 :
        LookupFrom(m_table', x, k) = LookupFrom(m_table, x, k)
  BY <1>1, LookupUntouched
<1>3. Views' = Front(Views) /\ Len(Views) > 1
  BY <1>1, <1>2 DEF Views, Front
<1>4. DeclaredSets' = Front(DeclaredSets)
  BY <1>1 DEF DeclaredSets, Front
<1>5. QED
  BY <1>3, <1>4 DEF Environment!Leave, Environment!Front, Front, Views, DeclaredSets

LEMMA InsertRefines ==
  ASSUME NEW x \in Name, NEW d \in DeclId, TableInv, insert(x, d)
  PROVE  Environment!Bind(x, d)
<1> PICK n : n = Len(m_table)
  OBVIOUS
<1>1. /\ n \in Nat /\ n > 0
      /\ Len(m_table') = n
      /\ \A i \in 1 .. n, y \in Name :
           m_table'[i][y] = IF i = n /\ y = x THEN d ELSE m_table[i][y]
      /\ m_table[n][x] = nullptr
      /\ d # nullptr
  <2>1. n = m_nestLevel + 1 /\ n \in Nat /\ n > 0
    BY DEF TableInv, TableTypeOK, TableInBounds
  <2>2. m_table' = [m_table EXCEPT ![n] = [m_table[n] EXCEPT ![x] = d]]
    BY <2>1 DEF insert
  <2>3. \A i \in 1 .. n : m_table[i] \in ScopeTable
    BY DEF TableInv, TableTypeOK
  <2>4. \A i \in 1 .. n, y \in Name :
          m_table'[i][y] = IF i = n /\ y = x THEN d ELSE m_table[i][y]
    <3>1. \A i \in 1 .. n : m_table'[i] = IF i = n
                                          THEN [m_table[n] EXCEPT ![x] = d]
                                          ELSE m_table[i]
      <4> DEFINE top == [m_table[n] EXCEPT ![x] = d]
      <4>1. top \in ScopeTable /\ n \in 1 .. Len(m_table)
        BY <2>1, <2>3 DEF ScopeTable, AnyDecl
      <4>2. m_table \in Seq(ScopeTable) /\ m_table' = [m_table EXCEPT ![n] = top]
        BY <2>2 DEF TableInv, TableTypeOK
      <4> HIDE DEF top
      <4>3. \A i \in 1 .. n : m_table'[i] = IF i = n THEN top ELSE m_table[i]
        BY <4>1, <4>2, ExceptSeq
      <4>4. QED
        BY <4>3 DEF top
    <3>2. \A y \in Name :
            [m_table[n] EXCEPT ![x] = d][y] = IF y = x THEN d ELSE m_table[n][y]
      BY <2>1, <2>3 DEF ScopeTable
    <3>3. QED
      BY <3>1, <3>2
  <2>5. Len(m_table') = n
    BY <2>2 DEF TableInv, TableTypeOK
  <2>6. m_table[n][x] = nullptr
    BY <2>1 DEF insert, Declared
  <2>7. d # nullptr
    BY DeclIdAssumption
  <2>8. QED
    BY <2>1, <2>4, <2>5, <2>6, <2>7
<1>2. \A y \in Name, k \in 1 .. n - 1 :
        LookupFrom(m_table', y, k) = LookupFrom(m_table, y, k)
  BY <1>1, LookupUntouched
<1>3. \A y \in Name \ {x} :
        LookupFrom(m_table', y, n) = LookupFrom(m_table, y, n)
  BY <1>1, LookupUntouched
<1>4. LookupFrom(m_table', x, n) = d
  <2>1. n \in ScopesOf(m_table', x, n)
    BY <1>1 DEF ScopesOf
  <2>2. \A j \in ScopesOf(m_table', x, n) : j <= n
    BY <1>1 DEF ScopesOf
  <2>3. QED
    BY <1>1, <2>1, <2>2, LookupOfInnermost
<1>5. Views' = [Views EXCEPT ![n] = [Views[n] EXCEPT ![x] = d]]
  <2>1. \A k \in 1 .. n, y \in Name :
          Views'[k][y] = IF k = n /\ y = x THEN d ELSE Views[k][y]
    BY <1>1, <1>2, <1>3, <1>4 DEF Views
  <2>2. \A k \in 1 .. n : /\ Views'[k] = [y \in Name |-> Views'[k][y]]
                          /\ Views[k] = [y \in Name |-> Views[k][y]]
    BY <1>1 DEF Views
  <2>3. Views' = [k \in 1 .. n |-> Views'[k]] /\ Views = [k \in 1 .. n |-> Views[k]]
    BY <1>1 DEF Views
  <2> HIDE DEF Views
  <2>4. \A k \in 1 .. n : k # n => Views'[k] = Views[k]
    <3>1. ASSUME NEW k \in 1 .. n, k # n PROVE Views'[k] = Views[k]
      <4>1. \A y \in Name : Views'[k][y] = Views[k][y]
        BY <2>1, <3>1
      <4>2. QED
        BY <2>2, <4>1, Zenon
    <3>2. QED
      BY <3>1
  <2>5. Views'[n] = [Views[n] EXCEPT ![x] = d]
    <3>1. n \in 1 .. n
      BY <1>1
    <3>2. /\ \A y \in Name : y # x => Views'[n][y] = Views[n][y]
          /\ Views'[n][x] = d
      BY <2>1, <3>1
    <3>3. QED
      BY <2>2, <3>1, <3>2, UpdatedAt
  <2>6. n \in 1 .. n
    BY <1>1
  <2>7. QED
    BY <2>3, <2>4, <2>5, <2>6, UpdatedAt
<1>6. DeclaredSets' = [DeclaredSets EXCEPT ![n] = DeclaredSets[n] \cup {x}]
  <2>1. /\ DeclaredSets' = [k \in 1 .. n |-> DeclaredSets'[k]]
        /\ DeclaredSets = [k \in 1 .. n |-> DeclaredSets[k]]
        /\ n \in 1 .. n
    BY <1>1 DEF DeclaredSets
  <2>2. \A k \in 1 .. n : k # n => DeclaredSets'[k] = DeclaredSets[k]
    BY <1>1 DEF DeclaredSets
  <2>3. DeclaredSets'[n] = DeclaredSets[n] \cup {x}
    BY <1>1 DEF DeclaredSets
  <2> HIDE DEF DeclaredSets
  <2>4. QED
    BY <2>1, <2>2, <2>3, UpdatedAt
<1>7. x \notin DeclaredSets[n]
  BY <1>1 DEF DeclaredSets
<1>8. Len(Views) = n /\ Len(DeclaredSets) = n
  BY <1>1 DEF Views, DeclaredSets
<1>9. QED
  BY <1>5, <1>6, <1>7, <1>8
     DEF Environment!Bind, Environment!Last, Last, Views, DeclaredSets

LEMMA NextRefines ==
  TableInv /\ [TableNext]_tableVars => [Environment!Next]_Environment!vars
<1> SUFFICES ASSUME TableInv, [TableNext]_tableVars
             PROVE  Environment!Next \/ UNCHANGED Environment!vars
  OBVIOUS
<1>1. CASE enterScope
  BY <1>1, EnterRefines DEF Environment!Next
<1>2. CASE m_nestLevel > 0 /\ exitScope
  BY <1>2, ExitRefines DEF Environment!Next
<1>3. ASSUME NEW x \in Name, NEW d \in DeclId, insert(x, d)
      PROVE  Environment!Next
  <2>1. Environment!Bind(x, d) /\ d \in AnyDecl
    BY <1>3, InsertRefines DEF AnyDecl
  <2>2. QED
    BY <2>1 DEF Environment!Next
<1>4. CASE UNCHANGED tableVars
  BY <1>4 DEF tableVars, Environment!vars
<1>5. QED
  BY <1>1, <1>2, <1>3, <1>4 DEF TableNext

(***************************************************************************)
(* A symbol table implements lexical scope, and its insert is the binding  *)
(* of the name to the declaration inserted.                                *)
(***************************************************************************)
THEOREM TableIsLexicallyScoped == TableSpec => LexicallyScoped
<1>1. TableSpec => []TableInv
  BY InitTyped, NextTyped, PTL DEF TableSpec
<1>2. TableInv =>
        [\A x \in Name, d \in DeclId :
           insert(x, d) => Environment!Bind(x, d)]_tableVars
  BY InsertRefines
<1>3. QED
  BY <1>1, <1>2, InitRefines, NextRefines, PTL
     DEF TableSpec, LexicallyScoped, Environment!Spec

(***************************************************************************)
(* The symbol pass.                                                        *)
(***************************************************************************)
\* The work that may be pending: about nodes of the tree, and a declaration is
\* all that is ever declared.
TaskOf(t) ==
  {k \in SymbolTask :
     /\ k.node \in DOMAIN t
     /\ k.op = "declare" => k.node \in DeclsOf(t)}

\* The tables name their declarations by the names these bear.
TableNamed ==
  \A k \in 1 .. Len(m_table), x \in Name :
    m_table[k][x] # nullptr => Decl(ast, m_table[k][x]).name = x

IInv ==
  /\ TypeOK
  /\ stack \in Seq(TaskOf(ast))
  /\ raised # NoException => stack = << >>
  /\ ScopesBalanced
  /\ TableNamed
  /\ ReferentsNamed

(***************************************************************************)
(* Trees.                                                                  *)
(***************************************************************************)
LEMMA NodesOfTree ==
  ASSUME NEW t \in Programs
  PROVE  /\ DOMAIN t = 1 .. Len(t) /\ Len(t) \in Nat /\ 1 \in DOMAIN t
         /\ DOMAIN t \subseteq DeclId
         /\ \A n \in DeclsOf(t) \cup UsesOf(t) : t[n].name \in Name
<1>1. IsTree(t)
  BY ProgramsAssumption DEF IsProgram
<1>2. DOMAIN t = 1 .. Len(t) /\ Len(t) \in Nat \ {0}
  BY <1>1 DEF IsTree
<1>3. QED
  BY <1>2, ProgramsAssumption

LEMMA KidsTyped ==
  ASSUME NEW t \in Programs, NEW n \in DOMAIN t
  PROVE  /\ Kids(t, n) \in Seq(DOMAIN t)
         /\ Len(Kids(t, n)) = Len(t[n].kids)
         /\ Len(t[n].kids) \in Nat
         /\ \A i \in 1 .. Len(t[n].kids) : Kids(t, n)[i] = Kid(t, n, i)
<1>1. IsTree(t)
  BY ProgramsAssumption DEF IsProgram
<1>2. QED
  BY <1>1, KidsSequence

LEMMA ProgramKids ==
  ASSUME NEW t \in Programs, NEW n \in DOMAIN t, t[n].kind = "Program"
  PROVE  Kids(t, n) \in Seq(DeclsOf(t))
<1>1. IsTree(t)
  BY ProgramsAssumption DEF IsProgram
<1>2. \A i \in 1 .. Len(t[n].kids) :
        Kid(t, n, i) \in DOMAIN t /\ t[Kid(t, n, i)].kind \in DeclKinds
  BY <1>1, NodeShape DEF KidsFit, DeclKinds
<1>3. \A i \in 1 .. Len(Kids(t, n)) : Kids(t, n)[i] \in DeclsOf(t)
  BY <1>2, KidsTyped DEF DeclsOf
<1>4. QED
  BY <1>3, KidsTyped

LEMMA FunctionKids ==
  ASSUME NEW t \in Programs, NEW n \in DOMAIN t, t[n].kind = "Function"
  PROVE  Parameters(t, n) \in Seq(DeclsOf(t)) /\ Body(t, n) \in DOMAIN t
<1>1. IsTree(t)
  BY ProgramsAssumption DEF IsProgram
<1>2. QED
  BY <1>1, FunctionParts

LEMMA CompoundKids ==
  ASSUME NEW t \in Programs, NEW n \in DOMAIN t, t[n].kind = "Compound"
  PROVE  /\ LocalDecls(t, n) \in Seq(DeclsOf(t))
         /\ Statements(t, n) \in Seq(DOMAIN t)
<1>1. IsTree(t)
  BY ProgramsAssumption DEF IsProgram
<1>2. /\ LocalDecls(t, n) \in Seq(DOMAIN t) /\ Statements(t, n) \in Seq(DOMAIN t)
      /\ \A i \in 1 .. Len(LocalDecls(t, n)) :
           t[LocalDecls(t, n)[i]].kind \in {"Variable", "Array"}
  BY <1>1, BlockParts
<1>3. \A i \in 1 .. Len(LocalDecls(t, n)) : LocalDecls(t, n)[i] \in DeclsOf(t)
  BY <1>2 DEF DeclsOf, DeclKinds
<1>4. QED
  BY <1>2, <1>3, MembersTyped

(***************************************************************************)
(* Work.                                                                   *)
(***************************************************************************)
ExitFree(tasks) == \A i \in 1 .. Len(tasks) : tasks[i].op # "exitScope"

LEMMA VisitTasks ==
  ASSUME NEW t \in Programs, NEW ns \in Seq(DOMAIN t)
  PROVE  VisitAll(ns) \in Seq(TaskOf(t)) /\ ExitFree(VisitAll(ns))
<1>1. DOMAIN ns = 1 .. Len(ns) /\ Len(ns) \in Nat
  OBVIOUS
<1>2. \A i \in 1 .. Len(ns) : Visit(ns[i]) \in TaskOf(t)
  BY NodesOfTree DEF Visit, TaskOf, SymbolTask, Task
<1>3. VisitAll(ns) \in [1 .. Len(ns) -> TaskOf(t)]
  BY <1>1, <1>2 DEF VisitAll
<1>4. VisitAll(ns) \in Seq(TaskOf(t)) /\ Len(VisitAll(ns)) = Len(ns)
  BY <1>1, <1>3, SeqDef, LenProperties
<1>5. QED
  BY <1>1, <1>4 DEF ExitFree, VisitAll, Visit

LEMMA DeclareTasks ==
  ASSUME NEW t \in Programs, NEW ns \in Seq(DeclsOf(t))
  PROVE  DeclareAll(ns) \in Seq(TaskOf(t)) /\ ExitFree(DeclareAll(ns))
<1>1. DOMAIN ns = 1 .. Len(ns) /\ Len(ns) \in Nat
  OBVIOUS
<1>2. \A i \in 1 .. Len(ns) : Declare(ns[i]) \in TaskOf(t)
  <2>1. \A i \in 1 .. Len(ns) : ns[i] \in DeclsOf(t)
    OBVIOUS
  <2>2. DeclsOf(t) \subseteq DOMAIN t
    BY DEF DeclsOf
  <2>3. QED
    BY <2>1, <2>2, NodesOfTree DEF Declare, TaskOf, SymbolTask, Task
<1>3. DeclareAll(ns) \in [1 .. Len(ns) -> TaskOf(t)]
  BY <1>1, <1>2 DEF DeclareAll
<1>4. DeclareAll(ns) \in Seq(TaskOf(t)) /\ Len(DeclareAll(ns)) = Len(ns)
  BY <1>1, <1>3, SeqDef, LenProperties
<1>5. QED
  BY <1>1, <1>4 DEF ExitFree, DeclareAll, Declare

LEMMA BothTasks ==
  ASSUME NEW S, NEW first \in Seq(S), NEW second \in Seq(S),
         ExitFree(first), ExitFree(second)
  PROVE  first \o second \in Seq(S) /\ ExitFree(first \o second)
  BY ConcatProperties DEF ExitFree

(***************************************************************************)
(* What a step does to the stack and to the table.                         *)
(***************************************************************************)
QuietStep ==
  \E tasks \in Seq(TaskOf(ast)) :
    /\ ExitFree(tasks)
    /\ Top.op # "exitScope"
    /\ Continue(tasks)
    /\ m_nestLevel' = m_nestLevel
    /\ Len(m_table') = Len(m_table)
    /\ raised' = raised

EnterStep ==
  \E tasks \in Seq(TaskOf(ast)), n \in DOMAIN ast :
    /\ ExitFree(tasks)
    /\ Top.op # "exitScope"
    /\ Continue(tasks \o << Exit(n) >>)
    /\ enterScope
    /\ raised' = raised

ThrowStep ==
  /\ stack' = << >>
  /\ raised' # NoException
  /\ UNCHANGED tableVars

LEMMA TopTyped ==
  ASSUME IInv, stack # << >>
  PROVE  /\ ast \in Programs
         /\ Top \in TaskOf(ast)
         /\ Top.node \in DOMAIN ast
         /\ raised = NoException
         /\ Len(stack) \in Nat \ {0}
<1>1. stack \in Seq(TaskOf(ast)) /\ ast \in Programs
  BY DEF IInv, TypeOK
<1>2. Len(stack) \in Nat \ {0}
  BY <1>1, EmptySeq
<1>3. Top \in TaskOf(ast)
  BY <1>1, <1>2 DEF Top, Last
<1>4. QED
  BY <1>1, <1>2, <1>3 DEF IInv, TaskOf

LEMMA NoTasks ==
  ASSUME NEW S
  PROVE  << >> \in Seq(S) /\ ExitFree(<< >>)
  BY DEF ExitFree

LEMMA StepShapes ==
  ASSUME IInv, Next
  PROVE  /\ stack # << >>
         /\ ast' = ast
         /\ QuietStep \/ EnterStep \/ LeaveScope \/ ThrowStep
<1> DEFINE Shape == /\ stack # << >>
                    /\ ast' = ast
                    /\ QuietStep \/ EnterStep \/ LeaveScope \/ ThrowStep
<1>1. CASE VisitProgram
  <2>1. stack # << >> /\ Top.op = "visit" /\ ast[Top.node].kind = "Program"
    BY <1>1 DEF VisitProgram, Visiting, Doing
  <2>2. Kids(ast, Top.node) \in Seq(DeclsOf(ast)) /\ ast \in Programs
    BY <2>1, TopTyped, ProgramKids
  <2>3. /\ DeclareAll(Kids(ast, Top.node)) \in Seq(TaskOf(ast))
        /\ ExitFree(DeclareAll(Kids(ast, Top.node)))
    BY <2>2, DeclareTasks
  <2>4. QuietStep
    BY <1>1, <2>1, <2>3 DEF VisitProgram, QuietStep, tableVars
  <2>5. QED
    BY <1>1, <2>1, <2>4 DEF VisitProgram
<1>2. CASE DeclareNext
  <2>1. stack # << >> /\ Top.op = "declare"
    BY <1>2 DEF DeclareNext, Doing
  <2>2. ASSUME Throw("MultipleDeclaredSymbol", Top.node) PROVE ThrowStep /\ ast' = ast
    BY <2>2 DEF Throw, ThrowStep, NoException, tableVars
  <2>3. ASSUME insert(ast[Top.node].name, Top.node), Continue(<< Visit(Top.node) >>),
               UNCHANGED << ast, referent, raised >>
        PROVE  QuietStep
    <3>1. Visit(Top.node) \in TaskOf(ast)
      BY <2>1, TopTyped DEF Visit, TaskOf, SymbolTask, Task
    <3>2. << Visit(Top.node) >> \in Seq(TaskOf(ast))
      BY <3>1
    <3>3. ExitFree(<< Visit(Top.node) >>)
      BY DEF ExitFree, Visit
    <3>4. Len(m_table') = Len(m_table)
      BY <2>3 DEF insert, IInv, TypeOK, TableTypeOK
    <3>5. QED
      BY <2>1, <2>3, <3>2, <3>3, <3>4 DEF QuietStep, insert
  <2>4. QED
    BY <1>2, <2>1, <2>2, <2>3 DEF DeclareNext, Doing
<1>3. CASE VisitVariable
  BY <1>3, NoTasks DEF VisitVariable, Visiting, Doing, QuietStep, tableVars
<1>4. CASE VisitFunction
  <2>1. stack # << >> /\ Top.op = "visit" /\ ast[Top.node].kind = "Function"
    BY <1>4 DEF VisitFunction, Visiting, Doing
  <2> DEFINE params == DeclareAll(Parameters(ast, Top.node))
             body == << Visit(Body(ast, Top.node)) >>
             exit == << Exit(Top.node) >>
  <2>2. Parameters(ast, Top.node) \in Seq(DeclsOf(ast)) /\ Body(ast, Top.node) \in DOMAIN ast
    BY <2>1, TopTyped, FunctionKids
  <2>3. params \in Seq(TaskOf(ast)) /\ ExitFree(params)
    BY <2>1, <2>2, TopTyped, DeclareTasks
  <2>4. Visit(Body(ast, Top.node)) \in TaskOf(ast)
    BY <2>1, <2>2, TopTyped, NodesOfTree DEF Visit, TaskOf, SymbolTask, Task
  <2>5. body \in Seq(TaskOf(ast)) /\ ExitFree(body)
    BY <2>4 DEF ExitFree, Visit
  <2>6. Exit(Top.node) \in TaskOf(ast)
    BY <2>1, TopTyped, NodesOfTree DEF Exit, TaskOf, SymbolTask, Task
  <2>7. exit \in Seq(TaskOf(ast))
    BY <2>6
  <2>8. << Visit(Body(ast, Top.node)), Exit(Top.node) >> = body \o exit
    OBVIOUS
  <2> HIDE DEF params, body
  <2>9. params \o (body \o exit) = (params \o body) \o exit
    BY <2>3, <2>5, <2>7, ConcatAssociative
  <2>10. params \o body \in Seq(TaskOf(ast)) /\ ExitFree(params \o body)
    BY <2>3, <2>5, BothTasks
  <2>11. Continue((params \o body) \o exit) /\ enterScope /\ raised' = raised
    BY <1>4, <2>8, <2>9 DEF VisitFunction, params
  <2>12. EnterStep
    BY <2>1, <2>10, <2>11, TopTyped DEF EnterStep
  <2>13. QED
    BY <1>4, <2>1, <2>12 DEF VisitFunction
<1>5. CASE VisitCompound
  <2>1. stack # << >> /\ Top.op = "visit" /\ ast[Top.node].kind = "Compound"
    BY <1>5 DEF VisitCompound, Visiting, Doing
  <2> DEFINE inside == DeclareAll(LocalDecls(ast, Top.node)) \o
                       VisitAll(Statements(ast, Top.node))
  <2>2. /\ LocalDecls(ast, Top.node) \in Seq(DeclsOf(ast))
        /\ Statements(ast, Top.node) \in Seq(DOMAIN ast)
    BY <2>1, TopTyped, CompoundKids
  <2>3. inside \in Seq(TaskOf(ast)) /\ ExitFree(inside)
    BY <2>1, <2>2, TopTyped, DeclareTasks, VisitTasks, BothTasks
  <2>4. \/ Continue(inside \o << Exit(Top.node) >>) /\ enterScope
        \/ Continue(inside) /\ UNCHANGED tableVars
    BY <1>5 DEF VisitCompound
  <2>5. raised' = raised /\ ast' = ast
    BY <1>5 DEF VisitCompound
  <2> HIDE DEF inside
  <2>6. QuietStep \/ EnterStep
    BY <2>1, <2>3, <2>4, <2>5, TopTyped DEF QuietStep, EnterStep, tableVars
  <2>7. QED
    BY <2>1, <2>5, <2>6
<1>6. CASE LeaveScope
  BY <1>6 DEF LeaveScope, Doing
<1>7. ASSUME NEW kinds, VisitChildren(kinds)
      PROVE  Shape
  <2>1. stack # << >> /\ Top.op = "visit"
    BY <1>7 DEF VisitChildren, Visiting, Doing
  <2>2. /\ VisitAll(Kids(ast, Top.node)) \in Seq(TaskOf(ast))
        /\ ExitFree(VisitAll(Kids(ast, Top.node)))
    BY <2>1, TopTyped, KidsTyped, VisitTasks
  <2>3. QuietStep
    BY <1>7, <2>1, <2>2 DEF VisitChildren, QuietStep, tableVars
  <2>4. QED
    BY <1>7, <2>1, <2>3 DEF VisitChildren
<1>8. ASSUME NEW kinds, LinkUse(kinds)
      PROVE  Shape
  <2>1. stack # << >> /\ Top.op = "visit"
    BY <1>8 DEF LinkUse, Visiting, Doing
  <2>2. /\ VisitAll(Kids(ast, Top.node)) \in Seq(TaskOf(ast))
        /\ ExitFree(VisitAll(Kids(ast, Top.node)))
    BY <2>1, TopTyped, KidsTyped, VisitTasks
  <2>3. ASSUME Throw("UndeclaredSymbol", Top.node) PROVE ThrowStep /\ ast' = ast
    BY <2>3 DEF Throw, ThrowStep, NoException, tableVars
  <2>4. ASSUME Continue(VisitAll(Kids(ast, Top.node))),
               UNCHANGED << tableVars, ast, nest_level, raised >>
        PROVE  QuietStep
    BY <2>1, <2>2, <2>4 DEF QuietStep, tableVars
  <2>5. QED
    BY <1>8, <2>1, <2>3, <2>4 DEF LinkUse
<1>9. QED
  BY <1>1, <1>2, <1>3, <1>4, <1>5, <1>6, <1>7, <1>8
     DEF Next, VisitStatement, VisitAssignment, VisitImplicitCast, VisitBinary,
         VisitLiteral, VisitVariableExpr, VisitCall

(***************************************************************************)
(* Scopes.  The exits still to come are counted by m_nestLevel.            *)
(***************************************************************************)
LEMMA PendingExitsFinite ==
  ASSUME IInv
  PROVE  /\ IsFiniteSet(PendingExits)
         /\ Cardinality(PendingExits) \in Nat
         /\ PendingExits = {i \in 1 .. Len(stack) : stack[i].op = "exitScope"}
<1>1. DOMAIN stack = 1 .. Len(stack) /\ Len(stack) \in Nat
  BY DEF IInv
<1>2. IsFiniteSet(1 .. Len(stack))
  BY <1>1, FS_Interval
<1>3. PendingExits \subseteq 1 .. Len(stack)
  BY <1>1 DEF PendingExits
<1>4. IsFiniteSet(PendingExits)
  BY <1>2, <1>3, FS_Subset
<1>5. QED
  BY <1>1, <1>4, FS_CardinalityType DEF PendingExits

LEMMA QuietExits == IInv /\ stack # << >> /\ QuietStep => PendingExits' = PendingExits
<1> SUFFICES ASSUME IInv, stack # << >>, QuietStep PROVE PendingExits' = PendingExits
  OBVIOUS
<1>1. PICK tasks \in Seq(TaskOf(ast)) :
        ExitFree(tasks) /\ Top.op # "exitScope" /\ Continue(tasks)
  BY DEF QuietStep
<1> PICK n : n = Len(stack)
  OBVIOUS
<1>2. n \in Nat \ {0} /\ Len(tasks) \in Nat
  BY TopTyped
<1>3. /\ stack' \in Seq(TaskOf(ast))
      /\ Len(stack') = n - 1 + Len(tasks)
      /\ \A i \in 1 .. n - 1 : stack'[i] = stack[i]
      /\ \A i \in 1 .. Len(tasks) : stack'[n - 1 + i] = tasks[Len(tasks) - i + 1]
  BY <1>1, ContinueStack DEF IInv
<1>4. \A i \in 1 .. Len(tasks) : stack'[n - 1 + i].op # "exitScope"
  <2>1. \A i \in 1 .. Len(tasks) : Len(tasks) - i + 1 \in 1 .. Len(tasks)
    BY <1>2
  <2>2. QED
    BY <1>1, <1>3, <2>1 DEF ExitFree
<1>5. \A i \in 1 .. Len(stack') : i > n - 1 => stack'[i].op # "exitScope"
  <2>1. ASSUME NEW i \in 1 .. Len(stack'), i > n - 1
        PROVE  stack'[i].op # "exitScope"
    <3>1. i - (n - 1) \in 1 .. Len(tasks) /\ i = n - 1 + (i - (n - 1))
      BY <1>2, <1>3, <2>1
    <3>2. QED
      BY <1>4, <3>1
  <2>2. QED
    BY <2>1
<1>6. PendingExits' = {i \in 1 .. n - 1 : stack[i].op = "exitScope"}
  BY <1>2, <1>3, <1>5 DEF PendingExits
<1>7. stack[n].op # "exitScope"
  BY <1>1 DEF Top, Last
<1>8. PendingExits = {i \in 1 .. n - 1 : stack[i].op = "exitScope"}
  BY <1>2, <1>7, PendingExitsFinite
<1>9. QED
  BY <1>6, <1>8

LEMMA EnterExits ==
  ASSUME IInv, stack # << >>, EnterStep
  PROVE  /\ PendingExits' = PendingExits \cup {Len(stack)}
         /\ Len(stack) \notin PendingExits
<1>1. PICK rest \in Seq(TaskOf(ast)), m \in DOMAIN ast :
        /\ ExitFree(rest) /\ Top.op # "exitScope"
        /\ Continue(rest \o << Exit(m) >>)
  BY DEF EnterStep
<1> DEFINE exit == << Exit(m) >>
           tasks == rest \o exit
<1> PICK n : n = Len(stack)
  OBVIOUS
<1>2. n \in Nat \ {0} /\ Len(rest) \in Nat
  BY TopTyped
<1>3. exit \in Seq(TaskOf(ast)) /\ Len(exit) = 1
  <2>1. Exit(m) \in TaskOf(ast)
    BY TopTyped, NodesOfTree DEF Exit, TaskOf, SymbolTask, Task
  <2>2. QED
    BY <2>1
<1>4. /\ tasks \in Seq(TaskOf(ast))
      /\ Len(tasks) = Len(rest) + 1
      /\ \A i \in 1 .. Len(rest) : tasks[i].op # "exitScope"
      /\ tasks[Len(rest) + 1].op = "exitScope"
  <2>1. tasks \in Seq(TaskOf(ast)) /\ Len(tasks) = Len(rest) + 1
    BY <1>3, ConcatProperties
  <2>2. \A i \in 1 .. Len(rest) : tasks[i] = rest[i]
    BY <1>2, <1>3, ConcatProperties
  <2>3. tasks[Len(rest) + 1] = Exit(m)
    BY <1>2, <1>3, ConcatProperties
  <2>4. QED
    BY <1>1, <2>1, <2>2, <2>3 DEF ExitFree, Exit
<1>5. Continue(tasks)
  BY <1>1
<1> HIDE DEF tasks, exit
<1>6. /\ stack' \in Seq(TaskOf(ast))
      /\ Len(stack') = n - 1 + Len(tasks)
      /\ \A i \in 1 .. n - 1 : stack'[i] = stack[i]
      /\ \A i \in 1 .. Len(tasks) : stack'[n - 1 + i] = tasks[Len(tasks) - i + 1]
  BY <1>4, <1>5, ContinueStack DEF IInv
<1>7. stack'[n].op = "exitScope" /\ Len(stack') = n + Len(rest)
  <2>1. 1 \in 1 .. Len(tasks) /\ n - 1 + 1 = n /\ Len(tasks) - 1 + 1 = Len(rest) + 1
    BY <1>2, <1>4
  <2>2. stack'[n] = tasks[Len(rest) + 1]
    BY <1>6, <2>1
  <2>3. QED
    BY <1>2, <1>4, <1>6, <2>2
<1>8. \A i \in 1 .. Len(stack') : i > n => stack'[i].op # "exitScope"
  <2>1. ASSUME NEW i \in 1 .. Len(stack'), i > n
        PROVE  stack'[i].op # "exitScope"
    <3>1. /\ i - (n - 1) \in 1 .. Len(tasks)
          /\ i = n - 1 + (i - (n - 1))
          /\ Len(tasks) - (i - (n - 1)) + 1 \in 1 .. Len(rest)
      BY <1>2, <1>4, <1>7, <2>1
    <3>2. stack'[i] = tasks[Len(tasks) - (i - (n - 1)) + 1]
      BY <1>6, <3>1
    <3>3. QED
      BY <1>4, <3>1, <3>2
  <2>2. QED
    BY <2>1
<1>9. PendingExits' = {i \in 1 .. n - 1 : stack[i].op = "exitScope"} \cup {n}
  <2>1. DOMAIN stack' = 1 .. n + Len(rest)
    BY <1>6, <1>7
  <2>2. \A i \in 1 .. n + Len(rest) :
          stack'[i].op = "exitScope" <=>
            i = n \/ (i \in 1 .. n - 1 /\ stack[i].op = "exitScope")
    <3> SUFFICES ASSUME NEW i \in 1 .. n + Len(rest)
                 PROVE  stack'[i].op = "exitScope" <=>
                          i = n \/ (i \in 1 .. n - 1 /\ stack[i].op = "exitScope")
      OBVIOUS
    <3>1. CASE i > n
      BY <1>2, <1>7, <1>8, <3>1
    <3>2. CASE i = n
      BY <1>7, <3>2
    <3>3. CASE i < n
      <4>1. i \in 1 .. n - 1 /\ i # n
        BY <1>2, <3>3
      <4>2. stack'[i] = stack[i]
        BY <1>6, <4>1
      <4>3. QED
        BY <4>1, <4>2
    <3>4. QED
      BY <1>2, <3>1, <3>2, <3>3
  <2>3. QED
    BY <1>2, <2>1, <2>2 DEF PendingExits
<1>10. stack[n].op # "exitScope"
  BY <1>1 DEF Top, Last
<1>11. PendingExits = {i \in 1 .. n - 1 : stack[i].op = "exitScope"}
  BY <1>2, <1>10, PendingExitsFinite
<1>12. QED
  BY <1>2, <1>9, <1>11

LEMMA LeaveExits ==
  ASSUME IInv, stack # << >>, LeaveScope
  PROVE  /\ PendingExits' = PendingExits \ {Len(stack)}
         /\ Len(stack) \in PendingExits
         /\ stack' \in Seq(TaskOf(ast))
<1> PICK n : n = Len(stack)
  OBVIOUS
<1>1. n \in Nat \ {0} /\ stack \in Seq(TaskOf(ast))
  BY TopTyped DEF IInv
<1>2. Continue(<< >>) /\ << >> \in Seq(TaskOf(ast)) /\ Len(<< >>) = 0
  BY DEF LeaveScope
<1>3. /\ stack' \in Seq(TaskOf(ast))
      /\ Len(stack') = n - 1
      /\ \A i \in 1 .. n - 1 : stack'[i] = stack[i]
  <2>1. stack' \in Seq(TaskOf(ast)) /\ Len(stack') = Len(stack) - 1 + Len(<< >>)
    BY <1>1, <1>2, ContinueStack
  <2>2. \A i \in 1 .. Len(stack) - 1 : stack'[i] = stack[i]
    BY <1>1, <1>2, ContinueStack
  <2>3. QED
    BY <1>1, <1>2, <2>1, <2>2
<1>4. PendingExits' = {i \in 1 .. n - 1 : stack[i].op = "exitScope"}
  BY <1>1, <1>3 DEF PendingExits
<1>5. stack[n].op = "exitScope"
  BY DEF LeaveScope, Doing, Top, Last
<1>6. PendingExits = {i \in 1 .. n - 1 : stack[i].op = "exitScope"} \cup {n}
  BY <1>1, <1>5, PendingExitsFinite
<1>7. QED
  BY <1>1, <1>3, <1>4, <1>6

LEMMA StackKept ==
  ASSUME IInv, Next
  PROVE  /\ stack' \in Seq(TaskOf(ast'))
         /\ raised' # NoException => stack' = << >>
<1>1. stack # << >> /\ ast' = ast /\ stack \in Seq(TaskOf(ast)) /\ raised = NoException
  BY StepShapes, TopTyped DEF IInv
<1>2. CASE QuietStep
  <2>1. PICK tasks \in Seq(TaskOf(ast)) : Continue(tasks) /\ raised' = raised
    BY <1>2 DEF QuietStep
  <2>2. QED
    BY <1>1, <2>1, ContinueStack
<1>3. CASE EnterStep
  <2>1. PICK tasks \in Seq(TaskOf(ast)), m \in DOMAIN ast :
          Continue(tasks \o << Exit(m) >>) /\ raised' = raised
    BY <1>3 DEF EnterStep
  <2>2. Exit(m) \in TaskOf(ast)
    BY <1>1, TopTyped, NodesOfTree DEF Exit, TaskOf, SymbolTask, Task
  <2>3. tasks \o << Exit(m) >> \in Seq(TaskOf(ast))
    BY <2>2
  <2>4. QED
    BY <1>1, <2>1, <2>3, ContinueStack
<1>4. CASE LeaveScope
  BY <1>1, <1>4, LeaveExits DEF LeaveScope
<1>5. CASE ThrowStep
  BY <1>1, <1>5 DEF ThrowStep
<1>6. QED
  BY <1>2, <1>3, <1>4, <1>5, StepShapes

LEMMA BalanceKept == IInv /\ Next => ScopesBalanced'
<1> SUFFICES ASSUME IInv, Next PROVE ScopesBalanced'
  OBVIOUS
<1>1. stack # << >> /\ raised = NoException
  BY StepShapes, TopTyped
<1>2. /\ Len(m_table) = m_nestLevel + 1
      /\ m_nestLevel = Cardinality(PendingExits)
      /\ m_table \in Seq(ScopeTable) /\ m_nestLevel \in Nat
      /\ IsFiniteSet(PendingExits)
  BY <1>1, PendingExitsFinite DEF IInv, ScopesBalanced, TypeOK, TableTypeOK
<1>3. CASE QuietStep
  BY <1>1, <1>2, <1>3, QuietExits DEF QuietStep, ScopesBalanced
<1>4. CASE EnterStep
  <2>1. Cardinality(PendingExits') = Cardinality(PendingExits) + 1
    BY <1>1, <1>2, <1>4, EnterExits, FS_AddElement
  <2>2. Len(m_table') = Len(m_table) + 1 /\ m_nestLevel' = m_nestLevel + 1
    BY <1>2, <1>4 DEF EnterStep, enterScope
  <2>3. QED
    BY <1>2, <2>1, <2>2 DEF ScopesBalanced
<1>5. CASE LeaveScope
  <2>1. Cardinality(PendingExits') = Cardinality(PendingExits) - 1
    BY <1>1, <1>2, <1>5, LeaveExits, FS_RemoveElement
  <2>2. Len(m_table) > 0
    BY <1>2
  <2>3. Len(m_table') = Len(m_table) - 1 /\ m_nestLevel' = m_nestLevel - 1
    BY <1>2, <1>5, <2>2 DEF LeaveScope, exitScope, Front
  <2>4. QED
    BY <1>2, <2>1, <2>3 DEF ScopesBalanced
<1>6. CASE ThrowStep
  BY <1>6 DEF ThrowStep, ScopesBalanced
<1>7. QED
  BY <1>3, <1>4, <1>5, <1>6, StepShapes

(***************************************************************************)
(* The table is used as its interface allows.                              *)
(***************************************************************************)
TableUse ==
  \/ UNCHANGED tableVars
  \/ enterScope
  \/ m_nestLevel > 0 /\ exitScope
  \/ \E d \in DeclsOf(ast) : insert(ast[d].name, d)

LEMMA TableUses == IInv /\ Next => TableUse
<1> SUFFICES ASSUME IInv, Next PROVE TableUse
  OBVIOUS
<1>1. stack # << >> /\ raised = NoException
  BY StepShapes, TopTyped
<1>2. CASE DeclareNext
  <2>1. Top.node \in DeclsOf(ast)
    BY <1>1, <1>2, TopTyped DEF DeclareNext, Doing, TaskOf
  <2>2. insert(ast[Top.node].name, Top.node) \/ UNCHANGED tableVars
    BY <1>2 DEF DeclareNext, Throw, tableVars
  <2>3. QED
    BY <2>1, <2>2 DEF TableUse
<1>3. CASE VisitFunction \/ VisitCompound
  BY <1>3 DEF VisitFunction, VisitCompound, TableUse
<1>4. CASE LeaveScope
  <2>1. Len(stack) \in PendingExits
    BY <1>1, <1>4, LeaveExits
  <2>2. Cardinality(PendingExits) # 0
    BY <2>1, PendingExitsFinite, FS_EmptySet
  <2>3. m_nestLevel > 0
    BY <1>1, <2>2, PendingExitsFinite DEF IInv, ScopesBalanced
  <2>4. QED
    BY <1>4, <2>3 DEF LeaveScope, TableUse
<1>5. CASE VisitProgram \/ VisitVariable
  BY <1>5 DEF VisitProgram, VisitVariable, TableUse
<1>6. ASSUME NEW kinds, VisitChildren(kinds) \/ LinkUse(kinds) PROVE TableUse
  BY <1>6 DEF VisitChildren, LinkUse, Throw, TableUse, tableVars
<1>7. QED
  BY <1>2, <1>3, <1>4, <1>5, <1>6
     DEF Next, VisitStatement, VisitAssignment, VisitImplicitCast, VisitBinary,
         VisitLiteral, VisitVariableExpr, VisitCall

LEMMA DeclsNamed ==
  ASSUME NEW t \in Programs, NEW d \in DeclsOf(t)
  PROVE  d \in DeclId /\ t[d].name \in Name /\ Decl(t, d) = t[d]
<1>1. d \in DeclId /\ t[d].name \in Name
  BY NodesOfTree DEF DeclsOf
<1>2. d \notin BuiltinDecls
  BY <1>1, DeclIdAssumption
<1>3. QED
  BY <1>1, <1>2 DEF Decl

LEMMA TableKept ==
  ASSUME IInv, Next
  PROVE  [TableNext]_tableVars /\ TableTypeOK'
<1>1. stack # << >> /\ ast \in Programs
  BY StepShapes, TopTyped
<1>2. TableInv
  BY <1>1, TopTyped DEF IInv, TypeOK, ScopesBalanced, TableInv, TableInBounds
<1>3. [TableNext]_tableVars
  <2>1. ASSUME NEW d \in DeclsOf(ast), insert(ast[d].name, d) PROVE TableNext
    BY <1>1, <2>1, DeclsNamed DEF TableNext
  <2>2. QED
    BY <2>1, TableUses DEF TableUse, TableNext
<1>4. QED
  BY <1>2, <1>3, NextTyped DEF TableInv

(***************************************************************************)
(* Names.  A scope holds a declaration under its own name, so that is what *)
(* a lookup finds.                                                         *)
(***************************************************************************)
LEMMA LookupNamed ==
  ASSUME IInv, NEW x \in Name, lookup(x) # nullptr
  PROVE  lookup(x) \in AnyDecl /\ Decl(ast, lookup(x)).name = x
<1>1. Len(m_table) \in Nat /\ \A k \in 1 .. Len(m_table) : m_table[k] \in ScopeTable
  BY DEF IInv, TypeOK, TableTypeOK
<1>2. PICK i \in ScopesOf(m_table, x, Len(m_table)) : lookup(x) = m_table[i][x]
  BY <1>1, LookupCases DEF lookup
<1>3. i \in 1 .. Len(m_table) /\ m_table[i][x] # nullptr
  BY <1>2 DEF ScopesOf
<1>4. QED
  BY <1>1, <1>2, <1>3 DEF IInv, TableNamed, ScopeTable

LEMMA InsertNamed ==
  ASSUME IInv, ast \in Programs, Len(m_table) = m_nestLevel + 1,
         NEW d \in DeclsOf(ast), insert(ast[d].name, d), ast' = ast
  PROVE  TableNamed'
<1> DEFINE x == ast[d].name
<1> PICK n : n = Len(m_table)
  OBVIOUS
<1>1. /\ d \in DeclId /\ x \in Name /\ Decl(ast, d).name = x
  BY DeclsNamed
<1>2. /\ n \in Nat /\ n = m_nestLevel + 1 /\ n \in 1 .. n
      /\ m_table \in Seq(ScopeTable)
      /\ \A k \in 1 .. n : m_table[k] \in ScopeTable
  BY DEF IInv, TypeOK, TableTypeOK
<1> HIDE DEF x
<1>3. [m_table[n] EXCEPT ![x] = d] \in ScopeTable
  BY <1>1, <1>2 DEF ScopeTable, AnyDecl
<1>4. /\ Len(m_table') = n
      /\ \A k \in 1 .. n : m_table'[k] = IF k = n
                                         THEN [m_table[n] EXCEPT ![x] = d]
                                         ELSE m_table[k]
  <2>1. m_table' = [m_table EXCEPT ![n] = [m_table[n] EXCEPT ![x] = d]]
    BY <1>2 DEF insert, x
  <2>2. QED
    BY <1>2, <1>3, <2>1, ExceptSeq
<1>5. \A y \in Name : [m_table[n] EXCEPT ![x] = d][y] = IF y = x THEN d ELSE m_table[n][y]
  BY <1>2 DEF ScopeTable
<1>6. ASSUME NEW k \in 1 .. n, NEW y \in Name, m_table'[k][y] # nullptr
      PROVE  Decl(ast, m_table'[k][y]).name = y
  <2>1. CASE k = n /\ y = x
    BY <1>1, <1>4, <1>5, <2>1
  <2>2. CASE ~ (k = n /\ y = x)
    <3>1. m_table'[k][y] = m_table[k][y]
      BY <1>4, <1>5, <2>2
    <3>2. QED
      BY <1>2, <1>6, <3>1 DEF IInv, TableNamed
  <2>3. QED
    BY <2>1, <2>2
<1>7. QED
  BY <1>4, <1>6 DEF TableNamed

LEMMA TableNamesKept == IInv /\ Next => TableNamed'
<1> SUFFICES ASSUME IInv, Next PROVE TableNamed'
  OBVIOUS
<1>1. stack # << >> /\ ast' = ast /\ ast \in Programs /\ raised = NoException
  BY StepShapes, TopTyped
<1>2. /\ m_table \in Seq(ScopeTable) /\ m_nestLevel \in Nat
      /\ Len(m_table) = m_nestLevel + 1
  BY <1>1 DEF IInv, TypeOK, TableTypeOK, ScopesBalanced
<1>3. CASE UNCHANGED tableVars
  BY <1>1, <1>3 DEF tableVars, IInv, TableNamed
<1>4. CASE enterScope
  <2>1. /\ Len(m_table') = Len(m_table) + 1
        /\ \A k \in 1 .. Len(m_table) : m_table'[k] = m_table[k]
        /\ \A x \in Name : m_table'[Len(m_table) + 1][x] = nullptr
    BY <1>2, <1>4 DEF enterScope
  <2>2. QED
    BY <1>1, <1>2, <2>1 DEF IInv, TableNamed
<1>5. CASE m_nestLevel > 0 /\ exitScope
  <2>1. /\ Len(m_table') = Len(m_table) - 1
        /\ \A k \in 1 .. Len(m_table) - 1 : m_table'[k] = m_table[k]
    BY <1>2, <1>5 DEF exitScope, Front
  <2>2. QED
    BY <1>1, <1>2, <2>1 DEF IInv, TableNamed
<1>6. CASE \E d \in DeclsOf(ast) : insert(ast[d].name, d)
  BY <1>1, <1>2, <1>6, InsertNamed
<1>7. QED
  BY <1>3, <1>4, <1>5, <1>6, TableUses DEF TableUse

(***************************************************************************)
(* What a step records in the tree.                                        *)
(***************************************************************************)
Recorded ==
  \/ UNCHANGED << referent, nest_level, raised >>
  \/ /\ \E d \in DeclsOf(ast) : nest_level' = Assigned(nest_level, d, m_nestLevel)
     /\ UNCHANGED << referent, raised >>
  \/ /\ \E n \in UsesOf(ast) :
          /\ lookup(ast[n].name) # nullptr
          /\ referent' = Assigned(referent, n, lookup(ast[n].name))
     /\ UNCHANGED << nest_level, raised >>
  \/ /\ \E type \in {"MultipleDeclaredSymbol", "UndeclaredSymbol"}, n \in DOMAIN ast :
          raised' = [type |-> type, node |-> n]
     /\ UNCHANGED << referent, nest_level >>

LEMMA StepRecords == IInv /\ Next => Recorded
<1> SUFFICES ASSUME IInv, Next PROVE Recorded
  OBVIOUS
<1>1. stack # << >> /\ Top \in TaskOf(ast) /\ Top.node \in DOMAIN ast
  BY StepShapes, TopTyped
<1>2. CASE DeclareNext
  <2>1. Top.node \in DeclsOf(ast)
    BY <1>1, <1>2 DEF DeclareNext, Doing, TaskOf
  <2>2. CASE nest_level' = Assigned(nest_level, Top.node, getNestLevel)
             /\ UNCHANGED << ast, referent, raised >>
    BY <2>1, <2>2 DEF getNestLevel, Recorded
  <2>3. CASE Throw("MultipleDeclaredSymbol", Top.node)
    BY <1>1, <2>3 DEF Throw, Recorded
  <2>4. QED
    BY <1>2, <2>2, <2>3 DEF DeclareNext, Doing
<1>3. ASSUME NEW kinds \in SUBSET UseKinds, LinkUse(kinds) PROVE Recorded
  <2>1. Top.node \in UsesOf(ast)
    BY <1>1, <1>3 DEF LinkUse, Visiting, Doing, UsesOf
  <2>2. CASE /\ lookup(ast[Top.node].name) # nullptr
             /\ referent' = Assigned(referent, Top.node, lookup(ast[Top.node].name))
             /\ UNCHANGED << tableVars, ast, nest_level, raised >>
    BY <2>1, <2>2 DEF Recorded
  <2>3. CASE Throw("UndeclaredSymbol", Top.node)
    BY <1>1, <2>3 DEF Throw, Recorded
  <2>4. QED
    BY <1>3, <2>2, <2>3 DEF LinkUse
<1>4. CASE VisitVariableExpr \/ VisitCall
  <2>1. {"VariableExpr", "Subscript"} \in SUBSET UseKinds /\ {"Call"} \in SUBSET UseKinds
    BY DEF UseKinds
  <2>2. QED
    BY <1>3, <1>4, <2>1 DEF VisitVariableExpr, VisitCall
<1>5. ASSUME NEW kinds, VisitChildren(kinds) PROVE Recorded
  BY <1>5 DEF VisitChildren, Recorded
<1>6. CASE VisitProgram \/ VisitVariable \/ VisitFunction \/ VisitCompound \/ LeaveScope
  BY <1>6 DEF VisitProgram, VisitVariable, VisitFunction, VisitCompound,
              LeaveScope, Recorded
<1>7. QED
  BY <1>2, <1>4, <1>5, <1>6
     DEF Next, VisitStatement, VisitAssignment, VisitImplicitCast, VisitBinary,
         VisitLiteral

LEMMA RecordsTyped ==
  ASSUME IInv, Next
  PROVE  /\ DOMAIN referent' \subseteq UsesOf(ast)
         /\ \A n \in DOMAIN referent' : referent'[n] \in AnyDecl
         /\ DOMAIN nest_level' \subseteq DeclsOf(ast)
         /\ \A d \in DOMAIN nest_level' : nest_level'[d] \in Nat
         /\ raised'.type \in {"none", "MultipleDeclaredSymbol", "UndeclaredSymbol"}
         /\ raised'.node \in {0} \cup DOMAIN ast
         /\ \A n \in DOMAIN referent' : Decl(ast, referent'[n]).name = ast[n].name
<1> DEFINE
  ReferentsOK(f) == /\ DOMAIN f \subseteq UsesOf(ast)
                    /\ \A n \in DOMAIN f : f[n] \in AnyDecl
                    /\ \A n \in DOMAIN f : Decl(ast, f[n]).name = ast[n].name
  LevelsOK(f) == /\ DOMAIN f \subseteq DeclsOf(ast)
                 /\ \A d \in DOMAIN f : f[d] \in Nat
  RaisedOK(r) == /\ r.type \in {"none", "MultipleDeclaredSymbol", "UndeclaredSymbol"}
                 /\ r.node \in {0} \cup DOMAIN ast
<1>1. ReferentsOK(referent) /\ LevelsOK(nest_level) /\ RaisedOK(raised)
  BY DEF IInv, TypeOK, ReferentsNamed
<1>2. ASSUME NEW d \in DeclsOf(ast)
      PROVE  LevelsOK(Assigned(nest_level, d, m_nestLevel))
  <2>1. m_nestLevel \in Nat
    BY DEF IInv, TypeOK, TableTypeOK
  <2>2. PICK f : f = Assigned(nest_level, d, m_nestLevel)
    OBVIOUS
  <2>3. /\ DOMAIN f = {d} \cup DOMAIN nest_level /\ f[d] = m_nestLevel
        /\ \A e \in DOMAIN nest_level : e # d => f[e] = nest_level[e]
    BY <2>2 DEF Assigned
  <2>4. LevelsOK(f)
    BY <1>1, <2>1, <2>3
  <2>5. QED
    BY <2>2, <2>4
<1>3. ASSUME NEW n \in UsesOf(ast), lookup(ast[n].name) # nullptr
      PROVE  ReferentsOK(Assigned(referent, n, lookup(ast[n].name)))
  <2>1. ast[n].name \in Name
    BY NodesOfTree DEF IInv, TypeOK
  <2>2. /\ lookup(ast[n].name) \in AnyDecl
        /\ Decl(ast, lookup(ast[n].name)).name = ast[n].name
    BY <1>3, <2>1, LookupNamed
  <2>3. PICK f : f = Assigned(referent, n, lookup(ast[n].name))
    OBVIOUS
  <2>4. /\ DOMAIN f = {n} \cup DOMAIN referent /\ f[n] = lookup(ast[n].name)
        /\ \A m \in DOMAIN referent : m # n => f[m] = referent[m]
    BY <2>3 DEF Assigned
  <2>5. ReferentsOK(f)
    BY <1>1, <2>2, <2>4
  <2>6. QED
    BY <2>3, <2>5
<1>4. ReferentsOK(referent') /\ LevelsOK(nest_level') /\ RaisedOK(raised')
  <2> HIDE DEF ReferentsOK, LevelsOK
  <2>1. QED
    BY <1>1, <1>2, <1>3, StepRecords DEF Recorded
<1>5. QED
  BY <1>4

(***************************************************************************)
(* The invariant.                                                          *)
(***************************************************************************)
LEMMA InitInv == Init => IInv
<1> SUFFICES ASSUME Init PROVE IInv
  OBVIOUS
<1>1. TableTypeOK /\ Len(m_table) = m_nestLevel + 1 /\ m_nestLevel = 0
  BY InitTyped DEF Init, TableInit, TableInv, TableInBounds
<1>2. /\ ast \in Programs /\ stack = << Visit(1) >> /\ raised = NoException
      /\ referent = << >> /\ nest_level = << >>
  BY DEF Init
<1>3. Visit(1) \in TaskOf(ast) /\ Visit(1).op # "exitScope"
  BY <1>2, NodesOfTree DEF Visit, TaskOf, SymbolTask, Task
<1>4. stack \in Seq(TaskOf(ast))
  BY <1>2, <1>3
<1>5. PendingExits = {}
  BY <1>2, <1>3 DEF PendingExits
<1>6. ScopesBalanced
  BY <1>1, <1>5, FS_EmptySet DEF ScopesBalanced
<1>7. TypeOK
  BY <1>1, <1>2, <1>3 DEF TypeOK, NoException, TaskOf
<1>8. ReferentsNamed
  BY <1>2 DEF ReferentsNamed
<1>9. TableNamed
  <2>1. m_table = << BuiltinScope >>
    BY DEF Init, TableInit
  <2>2. ASSUME NEW x \in Name, BuiltinScope[x] # nullptr
        PROVE  Decl(ast, BuiltinScope[x]).name = x
    BY <2>2 DEF BuiltinScope, BuiltinCalled, Decl
  <2>3. QED
    BY <2>1, <2>2 DEF TableNamed
<1>10. QED
  BY <1>2, <1>4, <1>6, <1>7, <1>8, <1>9 DEF IInv

LEMMA NextInv == IInv /\ [Next]_vars => IInv'
<1> SUFFICES ASSUME IInv, [Next]_vars PROVE IInv'
  OBVIOUS
<1>1. CASE Next
  <2>1. ast' = ast /\ ast \in Programs
    BY <1>1, StepShapes, TopTyped
  <2>2. stack' \in Seq(TaskOf(ast)) /\ (raised' # NoException => stack' = << >>)
    BY <1>1, <2>1, StackKept
  <2>3. stack' \in Seq(SymbolTask) /\ \A i \in DOMAIN stack' : stack'[i].node \in DOMAIN ast
    <3>1. TaskOf(ast) \subseteq SymbolTask /\ \A k \in TaskOf(ast) : k.node \in DOMAIN ast
      BY DEF TaskOf
    <3>2. QED
      BY <2>2, <3>1
  <2>4. TypeOK'
    BY <1>1, <2>1, <2>3, TableKept, RecordsTyped DEF TypeOK
  <2>5. ReferentsNamed'
    BY <1>1, <2>1, RecordsTyped DEF ReferentsNamed
  <2>6. QED
    BY <1>1, <2>1, <2>2, <2>4, <2>5, BalanceKept, TableNamesKept DEF IInv
<1>2. CASE UNCHANGED vars
  BY <1>2 DEF vars, IInv, TypeOK, TableTypeOK, ScopesBalanced, PendingExits,
              TableNamed, ReferentsNamed
<1>3. QED
  BY <1>1, <1>2

LEMMA InvHolds == Spec => []IInv
  BY InitInv, NextInv, PTL DEF Spec

(***************************************************************************)
(* The pass stays within its types: all it records and all it has left to  *)
(* do is about nodes of its tree.                                          *)
(***************************************************************************)
THEOREM TypeCorrect == Spec => []TypeOK
<1>1. IInv => TypeOK
  BY DEF IInv
<1>2. QED
  BY <1>1, InvHolds, PTL

(***************************************************************************)
(* Every scope opened is closed, however blocks, functions and exceptions  *)
(* are nested, and the unchecked index of the table is in bounds.          *)
(***************************************************************************)
THEOREM ScopesAlwaysBalanced == Spec => []ScopesBalanced
<1>1. IInv => ScopesBalanced
  BY DEF IInv
<1>2. QED
  BY <1>1, InvHolds, PTL

(***************************************************************************)
(* A use is never linked to a declaration of another name.                 *)
(***************************************************************************)
THEOREM ReferentsAlwaysNamed == Spec => []ReferentsNamed
<1>1. IInv => ReferentsNamed
  BY DEF IInv
<1>2. QED
  BY <1>1, InvHolds, PTL

(***************************************************************************)
(* The pass uses the table only in the ways its interface allows: in       *)
(* particular it never closes the global scope.                            *)
(***************************************************************************)
THEOREM TableUsedAsAllowed == Spec => TableSpec
<1>1. Init => TableInit
  BY DEF Init
<1>2. IInv /\ [Next]_vars => [TableNext]_tableVars
  BY TableKept DEF vars, tableVars
<1>3. QED
  BY <1>1, <1>2, InvHolds, PTL DEF Spec, TableSpec

(***************************************************************************)
(* Hence what the pass looks up is what lexical scope says.                *)
(***************************************************************************)
THEOREM PassIsLexicallyScoped == Spec => LexicallyScoped
  BY TableUsedAsAllowed, TableIsLexicallyScoped

(***************************************************************************)
(* The symbol pass implements the scope rules, on every tree: it links     *)
(* every use as module StaticScoping says, records the static depth of     *)
(* every declaration, and rejects a program at its first fault.            *)
(*                                                                         *)
(* The walk goes through the tree in the order of the source.  All that    *)
(* the pass knows is a function of the place it has come to and of the     *)
(* scopes that are open there.                                             *)
(***************************************************************************)

\* The scopes that are open where node n stands; that of the program always is.
Around(t, n) == ScopesAround(t, n) \cup {1}

\* The scopes that are open for the children of n.
Inside(t, n) == Around(t, n) \cup IF OpensScope(t, n) THEN {n} ELSE {}

\* A place of the walk: the first node not dealt with, and the open scopes.
Place(p, scopes) == [at |-> p, open |-> scopes]

End(t) == Place(Len(t) + 1, {1})

\* Where a task begins, and where it leaves the walk.
Begins(t) ==
  [k \in TaskOf(t) |->
     IF k.op = "exitScope" THEN Place(k.node + t[k.node].span, Around(t, k.node) \cup {k.node})
     ELSE IF k.op = "visit" /\ k.node \in DeclsOf(t) THEN Place(k.node + 1, Around(t, k.node))
     ELSE Place(k.node, Around(t, k.node))]

Leaves(t) == [k \in TaskOf(t) |-> Place(k.node + t[k.node].span, Around(t, k.node))]

Here == IF stack = << >> THEN End(ast) ELSE Begins(ast)[Top]

(***************************************************************************)
(* A table is that of a place p when scopes, in order, are its open scopes *)
(* and every one holds what was declared in it so far, under its name.     *)
(***************************************************************************)
InDepthOrder(table, scopes, open) ==
  /\ scopes \in Seq(Nat) /\ Len(scopes) = Len(table) /\ Len(table) \in Nat \ {0}
  /\ scopes[1] = 1
  /\ \A i, j \in 1 .. Len(table) : i < j => scopes[i] < scopes[j]
  /\ \A i \in 1 .. Len(table) : scopes[i] \in open
  /\ \A a \in open : \E i \in 1 .. Len(table) : scopes[i] = a

HoldsDeclared(t, table, scopes, at) ==
  \A i \in 1 .. Len(table), d \in DeclsOf(t) :
    Owner(t, d) = scopes[i] /\ d < at => table[i][t[d].name] = d

HoldsNoMore(t, table, scopes, at) ==
  \A i \in 1 .. Len(table), x \in Name :
    table[i][x] # nullptr =>
      \/ /\ table[i][x] \in DeclsOf(t) /\ table[i][x] < at
         /\ Owner(t, table[i][x]) = scopes[i] /\ t[table[i][x]].name = x
      \/ i = 1 /\ table[i][x] = BuiltinNamed(x)

HoldsBuiltins(table) ==
  \A x \in Name : BuiltinNamed(x) # nullptr => table[1][x] = BuiltinNamed(x)

TableOf(t, table, scopes, p) ==
  /\ InDepthOrder(table, scopes, p.open)
  /\ HoldsDeclared(t, table, scopes, p.at)
  /\ HoldsNoMore(t, table, scopes, p.at)
  /\ HoldsBuiltins(table)

\* What the pass has come to, as long as it goes on.
WalkedTo(p) ==
  /\ Chained(stack, Begins(ast), Leaves(ast), p, End(ast))
  /\ IsFiniteSet(p.open) /\ Cardinality(p.open) = Len(m_table)
  /\ \E scopes : TableOf(ast, m_table, scopes, p)
  /\ DOMAIN referent = {n \in UsesOf(ast) : n < p.at}
  /\ DOMAIN nest_level = {d \in DeclsOf(ast) : d < p.at}
  /\ \A f \in Meaning(ast).faults : p.at <= f

RecordsRight ==
  /\ \A n \in DOMAIN referent : referent[n] = Meaning(ast).referents[n]
  /\ \A d \in DOMAIN nest_level : nest_level[d] = Depth(ast, d)

WalkInv ==
  /\ IInv
  /\ RecordsRight
  /\ raised = NoException => WalkedTo(Here)

(***************************************************************************)
(* The scope rules.                                                        *)
(***************************************************************************)
InForce(t, n) == {d \in DeclsOf(t) : /\ d < n
                                     /\ t[d].name = t[n].name
                                     /\ Within(t, n, Owner(t, d))}

Redeclares(t, d) ==
  \/ \E e \in DeclsOf(t) : /\ e < d
                           /\ t[e].name = t[d].name
                           /\ Owner(t, e) = Owner(t, d)
  \/ Owner(t, d) = 1 /\ BuiltinNamed(t[d].name) # nullptr

LEMMA FaultCases ==
  ASSUME NEW t
  PROVE  Meaning(t).faults =
           {d \in DeclsOf(t) : Redeclares(t, d)} \cup
           {n \in UsesOf(t) : Meaning(t).referents[n] = nullptr}
<1> DEFINE owner == [d \in DeclsOf(t) |-> Owner(t, d)]
           Again(d) == \/ \E e \in DeclsOf(t) : /\ e < d
                                                /\ t[e].name = t[d].name
                                                /\ owner[e] = owner[d]
                       \/ owner[d] = 1 /\ BuiltinNamed(t[d].name) # nullptr
<1>1. Meaning(t).faults = {d \in DeclsOf(t) : Again(d)} \cup
                          {n \in UsesOf(t) : Meaning(t).referents[n] = nullptr}
  BY DEF Meaning
<1>2. \A d \in DeclsOf(t) : Again(d) <=> Redeclares(t, d)
  BY DEF Redeclares
<1> HIDE DEF Again
<1>3. QED
  BY <1>1, <1>2

LEMMA ReferentCases ==
  ASSUME NEW t, NEW n \in UsesOf(t)
  PROVE  /\ DOMAIN Meaning(t).referents = UsesOf(t)
         /\ InForce(t, n) = {} => Meaning(t).referents[n] = BuiltinNamed(t[n].name)
         /\ \A d \in InForce(t, n) :
              (\A e \in InForce(t, n) : Owner(t, e) <= Owner(t, d) /\
                                        (Owner(t, d) <= Owner(t, e) => e = d))
              => Meaning(t).referents[n] = d
<1> DEFINE owner == [d \in DeclsOf(t) |-> Owner(t, d)]
           Before(m) == {d \in DeclsOf(t) : /\ d < m
                                           /\ t[d].name = t[m].name
                                           /\ Within(t, m, owner[d])}
           Innermost(ds) == CHOOSE d \in ds : \A e \in ds : owner[e] <= owner[d]
           referents == [m \in UsesOf(t) |-> IF Before(m) = {} THEN BuiltinNamed(t[m].name)
                                                            ELSE Innermost(Before(m))]
<1>1. Meaning(t).referents = referents
  BY DEF Meaning
<1>2. Before(n) = InForce(t, n)
  BY DEF InForce
<1>3. \A d \in InForce(t, n) : owner[d] = Owner(t, d)
  BY DEF InForce
<1>4. DOMAIN referents = UsesOf(t)
  OBVIOUS
<1>5. referents[n] = IF Before(n) = {} THEN BuiltinNamed(t[n].name) ELSE Innermost(Before(n))
  OBVIOUS
<1> HIDE DEF owner, Before, referents
<1>6. ASSUME NEW d \in InForce(t, n),
             \A e \in InForce(t, n) : Owner(t, e) <= Owner(t, d) /\
                                      (Owner(t, d) <= Owner(t, e) => e = d)
      PROVE  referents[n] = d
  <2> PICK ds : ds = InForce(t, n)
    OBVIOUS
  <2>1. d \in ds /\ \A e \in ds : owner[e] <= owner[d]
    BY <1>3, <1>6
  <2>2. Innermost(ds) \in ds /\ \A e \in ds : owner[e] <= owner[Innermost(ds)]
    BY <2>1
  <2>3. Innermost(ds) = d
    <3> HIDE DEF Innermost
    <3> QED
      BY <1>3, <1>6, <2>1, <2>2
  <2>4. Before(n) = ds /\ ds # {}
    BY <1>2, <2>1
  <2>5. QED
    BY <1>5, <2>3, <2>4
<1>7. QED
  BY <1>1, <1>2, <1>4, <1>5, <1>6

(***************************************************************************)
(* Scopes around a node.                                                   *)
(***************************************************************************)
LEMMA AroundTyped ==
  ASSUME NEW t, IsProgram(t), NEW n \in DOMAIN t
  PROVE  /\ n \in Nat \ {0}
         /\ Around(t, n) \subseteq 1 .. n
         /\ n # 1 => Around(t, n) = ScopesAround(t, n) /\ n \notin Around(t, n)
         /\ \A a \in Around(t, n) : a \in DOMAIN t /\ Within(t, n, a)
         /\ \A a \in DOMAIN t : OpensScope(t, a) /\ Within(t, n, a) => a \in Around(t, n) \/ a = n
<1>1. /\ IsTree(t) /\ DOMAIN t = 1 .. Len(t) /\ Len(t) \in Nat \ {0}
      /\ t[1].span = Len(t) /\ n \in 1 .. Len(t)
  BY NodeShape DEF IsProgram, IsTree
<1>2. n # 1 => 1 \in ScopesAround(t, n)
  BY <1>1, OwnerAround DEF ScopesAround, OpensScope, Within, IsProgram
<1>3. Within(t, n, 1)
  BY <1>1 DEF Within
<1>4. ScopesAround(t, n) \subseteq 1 .. n - 1
  BY DEF ScopesAround
<1>5. \A a \in ScopesAround(t, n) : Within(t, n, a)
  BY DEF ScopesAround
<1>6. ASSUME NEW a \in DOMAIN t, OpensScope(t, a), Within(t, n, a), a # n
      PROVE  a \in ScopesAround(t, n)
  <2>1. a <= n /\ a \in 1 .. n - 1
    BY <1>1, <1>6 DEF Within
  <2>2. QED
    BY <1>6, <2>1 DEF ScopesAround
<1>7. QED
  BY <1>1, <1>2, <1>3, <1>4, <1>5, <1>6 DEF Around

LEMMA AroundKids ==
  ASSUME NEW t, IsProgram(t), NEW n \in DOMAIN t, NEW i \in 1 .. Len(t[n].kids)
  PROVE  Around(t, Kid(t, n, i)) = Inside(t, n)
<1> PICK m : m = Kid(t, n, i)
  OBVIOUS
<1>1. /\ IsTree(t) /\ DOMAIN t = 1 .. Len(t) /\ Len(t) \in Nat \ {0}
      /\ m \in DOMAIN t /\ n \in Nat \ {0} /\ m \in Nat /\ n < m
      /\ t[n].span \in Nat \ {0}
  BY NodeShape, KidsInside DEF IsProgram
<1>2. \A b \in DOMAIN t : Within(t, m, b) <=> Within(t, n, b) \/ b = m
  BY <1>1, AroundKid
<1>3. Within(t, n, n)
  BY <1>1 DEF Within
<1>4. \A a \in Around(t, m) : a \in Inside(t, n)
  <2> SUFFICES ASSUME NEW a \in ScopesAround(t, m) PROVE a \in Inside(t, n)
    BY DEF Around, Inside
  <2>1. a \in DOMAIN t /\ a # m /\ Within(t, m, a) /\ OpensScope(t, a)
    BY <1>1 DEF ScopesAround
  <2>2. Within(t, n, a)
    BY <1>2, <2>1
  <2>3. a \in Around(t, n) \/ a = n
    BY <2>1, <2>2, AroundTyped
  <2>4. QED
    BY <2>1, <2>3 DEF Inside
<1>5. \A a \in Inside(t, n) : a \in Around(t, m)
  <2> SUFFICES ASSUME NEW a \in Inside(t, n), a # 1 PROVE a \in Around(t, m)
    BY DEF Around
  <2>1. a \in DOMAIN t /\ Within(t, n, a) /\ OpensScope(t, a)
    BY <1>3, AroundTyped DEF Inside, Around, ScopesAround
  <2>2. a # m /\ Within(t, m, a)
    BY <1>1, <1>2, <2>1, AroundTyped DEF Inside
  <2>3. QED
    BY <1>1, <2>1, <2>2, AroundTyped
<1>6. QED
  BY <1>4, <1>5

\* The scope of a declaration is the last of those around it.
LEMMA OwnerIsLast ==
  ASSUME NEW t, IsProgram(t), NEW d \in DeclsOf(t)
  PROVE  /\ d \in DOMAIN t /\ d # 1
         /\ Owner(t, d) \in Around(t, d) /\ Owner(t, d) < d
         /\ \A a \in Around(t, d) : a <= Owner(t, d)
         /\ OpensScope(t, Owner(t, d)) /\ Within(t, d, Owner(t, d))
<1>1. d \in DOMAIN t /\ d # 1
  BY DEF DeclsOf, IsProgram, DeclKinds
<1>2. Around(t, d) = ScopesAround(t, d)
  BY <1>1, AroundTyped
<1>3. d \in Nat
  BY <1>1, AroundTyped
<1>4. QED
  BY <1>1, <1>2, <1>3, OwnerAround DEF ScopesAround

LEMMA KidKinds ==
  ASSUME NEW t, IsTree(t), NEW n \in DOMAIN t, NEW i \in 1 .. Len(t[n].kids),
         t[n].kind \in {"If", "While", "Return", "ExpressionStmt"} \cup ExpressionKinds
  PROVE  Kid(t, n, i) \notin DeclsOf(t)
<1>1. KidsFit(t, n)
  BY NodeShape
<1>2. CASE t[n].kind \in {"Return", "ExpressionStmt"} \cup ExpressionKinds
  <2>1. t[Kid(t, n, i)].kind \in ExpressionKinds
    BY <1>1, <1>2 DEF KidsFit
  <2>2. QED
    BY <2>1 DEF DeclsOf, DeclKinds, ExpressionKinds, LiteralKinds
<1>3. CASE t[n].kind \in {"If", "While"}
  <2>1. Len(t[n].kids) \in {2, 3} /\ i \in 1 .. Len(t[n].kids)
    BY <1>3, KidCounts
  <2>2. i \in 1 .. 1 \/ i \in 2 .. Len(t[n].kids)
    BY <2>1
  <2>3. t[Kid(t, n, i)].kind \in ExpressionKinds \cup StatementKinds
    BY <1>1, <1>3, <2>2 DEF KidsFit
  <2>4. QED
    BY <2>3 DEF DeclsOf, DeclKinds, ExpressionKinds, LiteralKinds, StatementKinds
<1>4. QED
  BY <1>2, <1>3

(***************************************************************************)
(* The tasks of a visit lead through the subtree in the order of the       *)
(* source.                                                                 *)
(***************************************************************************)
ForKid(k, t, n, i) ==
  \/ k = Declare(Kid(t, n, i))
  \/ k = Visit(Kid(t, n, i)) /\ Kid(t, n, i) \notin DeclsOf(t)

ForKids(list, t, n) ==
  /\ list \in Seq(TaskOf(t))
  /\ Len(list) = Len(t[n].kids)
  /\ \A i \in 1 .. Len(t[n].kids) : ForKid(list[i], t, n, i)

LEMMA KidPlaces ==
  ASSUME NEW t, IsProgram(t), NEW n \in DOMAIN t, NEW list, ForKids(list, t, n),
         NEW i \in 1 .. Len(t[n].kids)
  PROVE  /\ Begins(t)[list[i]] = Place(KidStart(t, n, i), Inside(t, n))
         /\ Leaves(t)[list[i]] = Place(KidStart(t, n, i + 1), Inside(t, n))
<1> PICK m : m = Kid(t, n, i)
  OBVIOUS
<1>1. /\ IsTree(t) /\ m \in DOMAIN t /\ m = KidStart(t, n, i)
      /\ Around(t, m) = Inside(t, n)
  BY NodeShape, AroundKids DEF IsProgram
<1>2. KidStart(t, n, i + 1) = m + t[m].span
  <2>1. i + 1 # 1 /\ (i + 1) - 1 = i
    OBVIOUS
  <2>2. QED
    BY <2>1 DEF KidStart
<1>3. list[i] \in TaskOf(t) /\ ForKid(list[i], t, n, i)
  BY DEF ForKids
<1> PICK k : k = list[i]
  OBVIOUS
<1>4. k \in TaskOf(t) /\ k.node = m /\ k.op \in {"visit", "declare"}
      /\ (k.op = "visit" => m \notin DeclsOf(t))
  BY <1>3 DEF ForKid, Declare, Visit
<1>5. Begins(t)[k] = Place(m, Around(t, m))
  BY <1>4 DEF Begins
<1>6. Leaves(t)[k] = Place(m + t[m].span, Around(t, m))
  BY <1>4 DEF Leaves
<1>7. QED
  BY <1>1, <1>2, <1>5, <1>6

\* A visit that opens no scope.
LEMMA PlainVisit ==
  ASSUME NEW n, IsProgram(ast), stack # << >>, Top \in TaskOf(ast), Top.node = n,
         n \in DOMAIN ast, n = 1 \/ ~ OpensScope(ast, n), NEW list, ForKids(list, ast, n)
  PROVE  Leads(list, Begins(ast), Leaves(ast), Place(n + 1, Around(ast, n)))
<1> PICK l : l = Len(ast[n].kids)
  OBVIOUS
<1> PICK open : open = Around(ast, n)
  OBVIOUS
<1>1. IsTree(ast) /\ l \in Nat /\ n + ast[n].span = KidStart(ast, n, l + 1)
  BY NodeShape DEF IsProgram
<1>2. open = Inside(ast, n)
  BY DEF Inside, Around
<1>3. Leaves(ast)[Top] = Place(KidStart(ast, n, l + 1), open)
  BY <1>1 DEF Leaves
<1>4. list \in Seq(TaskOf(ast)) /\ Len(list) = l
  BY DEF ForKids
<1>5. \A i \in 1 .. l : /\ Begins(ast)[list[i]] = Place(KidStart(ast, n, i), open)
                        /\ Leaves(ast)[list[i]] = Place(KidStart(ast, n, i + 1), open)
  BY <1>2, KidPlaces
<1>6. KidStart(ast, n, 1) = n + 1
  BY DEF KidStart
<1>7. CASE l = 0
  <2>1. list = << >> /\ l + 1 = 1 /\ 1 .. Len(list) - 1 = {}
    BY <1>4, <1>7, EmptySeq
  <2>2. QED
    BY <1>3, <1>6, <2>1 DEF Leads
<1>8. CASE l # 0
  <2>1. list # << >> /\ 1 \in 1 .. l /\ l \in 1 .. l
    BY <1>1, <1>4, <1>8, EmptySeq
  <2>2. \A i \in 1 .. l - 1 : i \in 1 .. l /\ i + 1 \in 1 .. l
    BY <1>1
  <2>3. \A i \in 1 .. l - 1 : Leaves(ast)[list[i]] = Begins(ast)[list[i + 1]]
    BY <1>5, <2>2
  <2>4. QED
    BY <1>3, <1>4, <1>5, <1>6, <2>1, <2>3 DEF Leads
<1>9. QED
  BY <1>7, <1>8

\* A visit that opens a scope, and leaves it when the children are done.
LEMMA ScopedVisit ==
  ASSUME NEW n, IsProgram(ast), stack # << >>, Top \in TaskOf(ast), Top.node = n,
         n \in DOMAIN ast, n # 1, OpensScope(ast, n), NEW list, ForKids(list, ast, n),
         Exit(n) \in TaskOf(ast)
  PROVE  /\ list \o << Exit(n) >> \in Seq(TaskOf(ast))
         /\ Leads(list \o << Exit(n) >>, Begins(ast), Leaves(ast), Place(n + 1, Inside(ast, n)))
<1> PICK l : l = Len(ast[n].kids)
  OBVIOUS
<1> PICK tasks : tasks = list \o << Exit(n) >>
  OBVIOUS
<1> PICK open : open = Inside(ast, n)
  OBVIOUS
<1>1. IsTree(ast) /\ l \in Nat /\ n + ast[n].span = KidStart(ast, n, l + 1)
  BY NodeShape DEF IsProgram
<1>2. /\ Begins(ast)[Exit(n)] = Place(KidStart(ast, n, l + 1), open)
      /\ Leaves(ast)[Exit(n)] = Leaves(ast)[Top]
  <2>1. open = Around(ast, n) \cup {n}
    BY DEF Inside
  <2>2. Exit(n).op = "exitScope" /\ Exit(n).node = n
    BY DEF Exit
  <2>3. QED
    BY <1>1, <2>1, <2>2 DEF Begins, Leaves
<1>3. list \in Seq(TaskOf(ast)) /\ Len(list) = l
  BY DEF ForKids
<1>4. /\ tasks \in Seq(TaskOf(ast)) /\ Len(tasks) = l + 1
      /\ \A i \in 1 .. l : tasks[i] = list[i]
      /\ tasks[l + 1] = Exit(n)
  BY <1>3, OneMore
<1>5. \A i \in 1 .. l : /\ Begins(ast)[tasks[i]] = Place(KidStart(ast, n, i), open)
                        /\ Leaves(ast)[tasks[i]] = Place(KidStart(ast, n, i + 1), open)
  BY <1>4, KidPlaces
<1>6. \A i \in 1 .. l + 1 : Begins(ast)[tasks[i]] = Place(KidStart(ast, n, i), open)
  <2>1. \A i \in 1 .. l + 1 : i \in 1 .. l \/ i = l + 1
    BY <1>1
  <2>2. QED
    BY <1>2, <1>4, <1>5, <2>1
<1>7. \A i \in 1 .. l : Leaves(ast)[tasks[i]] = Begins(ast)[tasks[i + 1]]
  <2>1. \A i \in 1 .. l : i + 1 \in 1 .. l + 1
    BY <1>1
  <2>2. QED
    BY <1>5, <1>6, <2>1
<1>8. KidStart(ast, n, 1) = n + 1
  BY DEF KidStart
<1>9. tasks # << >> /\ 1 \in 1 .. l + 1 /\ Len(tasks) - 1 = l
  BY <1>1, <1>4, EmptySeq
<1>10. QED
  BY <1>2, <1>4, <1>6, <1>7, <1>8, <1>9 DEF Leads

(***************************************************************************)
(* The lists of tasks that the visits put on the stack.                    *)
(***************************************************************************)
LEMMA DeclareAllTasks ==
  ASSUME NEW t \in Programs, NEW ns \in Seq(DeclsOf(t))
  PROVE  /\ DeclareAll(ns) \in Seq(TaskOf(t)) /\ Len(DeclareAll(ns)) = Len(ns)
         /\ \A i \in 1 .. Len(ns) : DeclareAll(ns)[i] = Declare(ns[i])
<1>1. DOMAIN ns = 1 .. Len(ns) /\ Len(ns) \in Nat
  OBVIOUS
<1>2. DeclareAll(ns) = [i \in 1 .. Len(ns) |-> Declare(ns[i])]
  BY <1>1 DEF DeclareAll
<1>3. DeclareAll(ns) \in Seq(TaskOf(t))
  BY DeclareTasks
<1>4. QED
  BY <1>1, <1>2, <1>3

LEMMA VisitAllTasks ==
  ASSUME NEW t \in Programs, NEW ns \in Seq(DOMAIN t)
  PROVE  /\ VisitAll(ns) \in Seq(TaskOf(t)) /\ Len(VisitAll(ns)) = Len(ns)
         /\ \A i \in 1 .. Len(ns) : VisitAll(ns)[i] = Visit(ns[i])
<1>1. DOMAIN ns = 1 .. Len(ns) /\ Len(ns) \in Nat
  OBVIOUS
<1>2. VisitAll(ns) = [i \in 1 .. Len(ns) |-> Visit(ns[i])]
  BY <1>1 DEF VisitAll
<1>3. VisitAll(ns) \in Seq(TaskOf(t))
  BY VisitTasks
<1>4. QED
  BY <1>1, <1>2, <1>3

LEMMA VisitsKids ==
  ASSUME NEW t \in Programs, NEW n \in DOMAIN t,
         \A i \in 1 .. Len(t[n].kids) : Kid(t, n, i) \notin DeclsOf(t)
  PROVE  ForKids(VisitAll(Kids(t, n)), t, n)
<1>1. /\ Kids(t, n) \in Seq(DOMAIN t) /\ Len(Kids(t, n)) = Len(t[n].kids)
      /\ \A i \in 1 .. Len(t[n].kids) : Kids(t, n)[i] = Kid(t, n, i)
  BY KidsTyped
<1>2. QED
  BY <1>1, VisitAllTasks DEF ForKids, ForKid

LEMMA DeclaresKids ==
  ASSUME NEW t \in Programs, NEW n \in DOMAIN t, t[n].kind = "Program"
  PROVE  ForKids(DeclareAll(Kids(t, n)), t, n)
<1>1. /\ Kids(t, n) \in Seq(DeclsOf(t)) /\ Len(Kids(t, n)) = Len(t[n].kids)
      /\ \A i \in 1 .. Len(t[n].kids) : Kids(t, n)[i] = Kid(t, n, i)
  BY KidsTyped, ProgramKids
<1>2. QED
  BY <1>1, DeclareAllTasks DEF ForKids, ForKid

LEMMA FunctionTasks ==
  ASSUME NEW t \in Programs, NEW n \in DOMAIN t, t[n].kind = "Function"
  PROVE  ForKids(DeclareAll(Parameters(t, n)) \o << Visit(Body(t, n)) >>, t, n)
<1> PICK l : l = Len(t[n].kids) - 1
  OBVIOUS
<1> PICK first : first = DeclareAll(Parameters(t, n))
  OBVIOUS
<1> PICK last : last = Visit(Body(t, n))
  OBVIOUS
<1> PICK tasks : tasks = first \o << last >>
  OBVIOUS
<1>1. IsTree(t) /\ t \in Programs
  BY ProgramsAssumption DEF IsProgram
<1>2. /\ l \in Nat /\ Len(t[n].kids) = l + 1
      /\ Parameters(t, n) \in Seq(DeclsOf(t)) /\ Len(Parameters(t, n)) = l
      /\ \A i \in 1 .. l : Parameters(t, n)[i] = Kid(t, n, i)
      /\ Body(t, n) = Kid(t, n, l + 1) /\ Body(t, n) \in DOMAIN t
      /\ t[Body(t, n)].kind = "Compound"
  BY <1>1, FunctionParts
<1>3. /\ first \in Seq(TaskOf(t)) /\ Len(first) = l
      /\ \A i \in 1 .. l : first[i] = Declare(Kid(t, n, i))
  BY <1>2, DeclareAllTasks
<1>4. last \in TaskOf(t)
  BY <1>2, NodesOfTree DEF Visit, TaskOf, SymbolTask, Task
<1>5. Body(t, n) \notin DeclsOf(t)
  BY <1>2 DEF DeclsOf, DeclKinds
<1>6. /\ tasks \in Seq(TaskOf(t)) /\ Len(tasks) = l + 1
      /\ \A i \in 1 .. l : tasks[i] = first[i]
      /\ tasks[l + 1] = last
  BY <1>3, <1>4, OneMore
<1>7. ASSUME NEW i \in 1 .. l + 1 PROVE ForKid(tasks[i], t, n, i)
  <2>1. i \in 1 .. l \/ i = l + 1
    BY <1>2
  <2>2. CASE i \in 1 .. l
    BY <1>3, <1>6, <2>2 DEF ForKid
  <2>3. CASE i = l + 1
    BY <1>2, <1>5, <1>6, <2>3 DEF ForKid
  <2>4. QED
    BY <2>1, <2>2, <2>3
<1>8. QED
  BY <1>2, <1>6, <1>7 DEF ForKids

LEMMA CompoundTasks ==
  ASSUME NEW t \in Programs, NEW n \in DOMAIN t, t[n].kind = "Compound"
  PROVE  ForKids(DeclareAll(LocalDecls(t, n)) \o VisitAll(Statements(t, n)), t, n)
<1>k. PICK k : k = t[n].locals
  OBVIOUS
<1>l. PICK l : l = Len(t[n].kids) - k
  OBVIOUS
<1>f. PICK first : first = DeclareAll(LocalDecls(t, n))
  OBVIOUS
<1>s. PICK second : second = VisitAll(Statements(t, n))
  OBVIOUS
<1>t. PICK tasks : tasks = first \o second
  OBVIOUS
<1>1. IsTree(t) /\ t \in Programs
  BY ProgramsAssumption DEF IsProgram
<1>2. /\ k \in Nat /\ l \in Nat /\ Len(t[n].kids) = k + l
      /\ LocalDecls(t, n) \in Seq(DeclsOf(t)) /\ Len(LocalDecls(t, n)) = k
      /\ \A i \in 1 .. k : LocalDecls(t, n)[i] = Kid(t, n, i)
      /\ Statements(t, n) \in Seq(DOMAIN t) /\ Len(Statements(t, n)) = l
      /\ \A i \in 1 .. l : /\ Statements(t, n)[i] = Kid(t, n, k + i)
                           /\ t[Kid(t, n, k + i)].kind \in StatementKinds
  BY <1>1, <1>k, <1>l, BlockParts, CompoundKids
<1>3. /\ first \in Seq(TaskOf(t)) /\ Len(first) = k
      /\ \A i \in 1 .. k : first[i] = Declare(Kid(t, n, i))
  BY <1>2, <1>f, DeclareAllTasks
<1>4. /\ second \in Seq(TaskOf(t)) /\ Len(second) = l
      /\ \A i \in 1 .. l : second[i] = Visit(Kid(t, n, k + i))
  BY <1>2, <1>s, VisitAllTasks
<1>5. \A i \in 1 .. l : Kid(t, n, k + i) \notin DeclsOf(t)
  BY <1>2 DEF DeclsOf, DeclKinds, StatementKinds
<1>6. /\ tasks \in Seq(TaskOf(t)) /\ Len(tasks) = k + l
      /\ \A i \in 1 .. k + l : tasks[i] = IF i <= k THEN first[i] ELSE second[i - k]
  <2>1. /\ tasks \in Seq(TaskOf(t)) /\ Len(tasks) = Len(first) + Len(second)
        /\ \A i \in 1 .. Len(first) + Len(second) :
             tasks[i] = IF i <= Len(first) THEN first[i] ELSE second[i - Len(first)]
    <3>1. first \in Seq(TaskOf(t)) /\ second \in Seq(TaskOf(t))
      BY <1>3, <1>4
    <3>2. QED
      BY <1>t, <3>1, ConcatProperties
  <2>2. Len(first) = k /\ Len(second) = l
    BY <1>3, <1>4
  <2>3. QED
    BY <2>1, <2>2
<1>7. ASSUME NEW i \in 1 .. k + l PROVE ForKid(tasks[i], t, n, i)
  <2>1. CASE i <= k
    <3>1. i \in 1 .. k
      BY <1>2, <2>1
    <3>2. QED
      BY <1>3, <1>6, <2>1, <3>1 DEF ForKid
  <2>2. CASE ~ i <= k
    <3>1. i - k \in 1 .. l /\ k + (i - k) = i
      BY <1>2, <2>2
    <3>2. tasks[i] = second[i - k]
      BY <1>6, <2>2
    <3>3. second[i - k] = Visit(Kid(t, n, k + (i - k))) /\ Kid(t, n, k + (i - k)) \notin DeclsOf(t)
      BY <1>4, <1>5, <3>1
    <3>4. QED
      BY <3>1, <3>2, <3>3 DEF ForKid
  <2>3. QED
    BY <2>1, <2>2
<1>8. QED
  BY <1>2, <1>6, <1>7, <1>f, <1>s, <1>t DEF ForKids

(***************************************************************************)
(* What a step does: it leads the walk to the place q, passing a node by,  *)
(* opening or closing a scope, declaring or linking - or it throws.        *)
(***************************************************************************)
Steps(q) ==
  /\ stack # << >> /\ ast' = ast
  /\ \E tasks \in Seq(TaskOf(ast)) :
       Continue(tasks) /\ Leads(tasks, Begins(ast), Leaves(ast), q)

Silent(n) == n \notin DeclsOf(ast) \cup UsesOf(ast)

Passes(q) ==
  /\ UNCHANGED << tableVars, referent, nest_level, raised >>
  /\ q.open = Here.open
  /\ \/ q.at = Here.at
     \/ q.at = Here.at + 1 /\ Silent(Here.at)

Opens(n, q) ==
  /\ enterScope
  /\ UNCHANGED << referent, nest_level, raised >>
  /\ q = Place(n + 1, Here.open \cup {n})
  /\ \A a \in Here.open : a < n
  /\ \/ Here.at = n + 1
     \/ Here.at = n /\ Silent(n)

Closes(n, q) ==
  /\ exitScope
  /\ UNCHANGED << referent, nest_level, raised >>
  /\ n # 1 /\ 1 \in q.open
  /\ Here = Place(q.at, q.open \cup {n})
  /\ \A a \in q.open : a < n

Declares(d, q) ==
  /\ d \in DeclsOf(ast)
  /\ Here = Place(d, Around(ast, d))
  /\ q = Place(d + 1, Around(ast, d))
  /\ insert(ast[d].name, d)
  /\ nest_level' = Assigned(nest_level, d, m_nestLevel)
  /\ UNCHANGED << referent, raised >>

Links(n, q) ==
  /\ n \in UsesOf(ast)
  /\ Here = Place(n, Around(ast, n))
  /\ q = Place(n + 1, Around(ast, n))
  /\ lookup(ast[n].name) # nullptr
  /\ referent' = Assigned(referent, n, lookup(ast[n].name))
  /\ UNCHANGED << tableVars, nest_level, raised >>

Throws(n) ==
  /\ stack # << >> /\ stack' = << >> /\ UNCHANGED << ast, tableVars, referent, nest_level >>
  /\ Here = Place(n, Around(ast, n))
  /\ raised' # NoException /\ raised'.node = n
  /\ \/ n \in DeclsOf(ast) /\ Declared(ast[n].name)
     \/ n \in UsesOf(ast) /\ lookup(ast[n].name) = nullptr

Moves(q) ==
  /\ Steps(q)
  /\ \/ Passes(q)
     \/ \E n \in DOMAIN ast : Opens(n, q) \/ Closes(n, q) \/ Declares(n, q) \/ Links(n, q)

\* What is known of the task on top.
LEMMA AtTop ==
  ASSUME IInv, stack # << >>, NEW n, n = Top.node
  PROVE  /\ ast \in Programs /\ IsProgram(ast) /\ IsTree(ast) /\ n \in DOMAIN ast
         /\ n \in Nat \ {0} /\ Top \in TaskOf(ast) /\ raised = NoException
         /\ Exit(n) \in TaskOf(ast) /\ Visit(n) \in TaskOf(ast)
         /\ Top.op = "visit" /\ n \notin DeclsOf(ast) => Here = Place(n, Around(ast, n))
         /\ Top.op = "visit" /\ n \in DeclsOf(ast) => Here = Place(n + 1, Around(ast, n))
         /\ Top.op = "declare" => Here = Place(n, Around(ast, n)) /\ n \in DeclsOf(ast)
         /\ Top.op = "exitScope" =>
              Here = Place(n + ast[n].span, Around(ast, n) \cup {n})
<1>1. ast \in Programs /\ Top \in TaskOf(ast) /\ n \in DOMAIN ast /\ raised = NoException
  BY TopTyped
<1>2. IsProgram(ast) /\ IsTree(ast)
  BY <1>1, ProgramsAssumption DEF IsProgram
<1>3. n \in Nat \ {0}
  BY <1>1, <1>2, AroundTyped
<1>4. Exit(n) \in TaskOf(ast) /\ Visit(n) \in TaskOf(ast)
  BY <1>1, <1>3 DEF Exit, Visit, TaskOf, SymbolTask, Task
<1>5. Top.op = "declare" => n \in DeclsOf(ast)
  BY <1>1 DEF TaskOf
<1>6. Here = Begins(ast)[Top]
  BY DEF Here
<1>7. QED
  BY <1>1, <1>2, <1>3, <1>4, <1>5, <1>6 DEF Begins

\* A visit that only passes on to the children.
LEMMA PassingVisit ==
  ASSUME IInv, stack # << >>, NEW n, n = Top.node, Top.op = "visit",
         n = 1 \/ ~ OpensScope(ast, n), ast' = ast,
         NEW list, ForKids(list, ast, n), Continue(list)
  PROVE  Steps(Place(n + 1, Around(ast, n)))
<1>1. Leads(list, Begins(ast), Leaves(ast), Place(n + 1, Around(ast, n)))
  BY AtTop, PlainVisit
<1>2. list \in Seq(TaskOf(ast))
  BY DEF ForKids
<1>3. QED
  BY <1>1, <1>2 DEF Steps

LEMMA ProgramMoves ==
  ASSUME IInv, VisitProgram
  PROVE  \E q : Moves(q)
<1>n. PICK n : n = Top.node
  OBVIOUS
<1>1. stack # << >> /\ Top.op = "visit" /\ ast[n].kind = "Program"
  BY <1>n DEF VisitProgram, Visiting, Doing
<1>2. /\ ast \in Programs /\ IsProgram(ast) /\ IsTree(ast) /\ n \in DOMAIN ast /\ n \in Nat
      /\ Top.op = "visit" /\ n \notin DeclsOf(ast) => Here = Place(n, Around(ast, n))
  BY <1>1, <1>n, AtTop
<1>3. n = 1
  <2>1. n = 1 \/ \E i \in 1 .. Len(ast[1].kids) : n = Kid(ast, 1, i)
    BY <1>1, <1>2, KidsOfRoot
  <2>2. ASSUME NEW i \in 1 .. Len(ast[1].kids), n = Kid(ast, 1, i) PROVE FALSE
    <3>1. 1 \in DOMAIN ast /\ ast[1].kind = "Program"
      BY <1>2 DEF IsTree, IsProgram
    <3>2. KidsFit(ast, 1)
      BY <1>2, <3>1, NodeShape
    <3>3. ast[Kid(ast, 1, i)].kind \in {"Variable", "Array", "Function"}
      BY <3>1, <3>2 DEF KidsFit
    <3>4. QED
      BY <1>1, <2>2, <3>3
  <2>3. QED
    BY <2>1, <2>2
<1>4. n \notin DeclsOf(ast) \cup UsesOf(ast)
  BY <1>1 DEF DeclsOf, UsesOf, DeclKinds, UseKinds
<1>5. ForKids(DeclareAll(Kids(ast, n)), ast, n)
  BY <1>1, <1>2, DeclaresKids
<1>6. /\ Continue(DeclareAll(Kids(ast, n))) /\ ast' = ast
      /\ UNCHANGED << tableVars, referent, nest_level, raised >>
  BY <1>n DEF VisitProgram
<1>7. Steps(Place(n + 1, Around(ast, n)))
  BY <1>1, <1>3, <1>5, <1>6, <1>n, PassingVisit
<1>8. Passes(Place(n + 1, Around(ast, n)))
  BY <1>1, <1>2, <1>4, <1>6 DEF Passes, Silent, Place
<1>9. QED
  BY <1>7, <1>8 DEF Moves

LEMMA VariableMoves ==
  ASSUME IInv, VisitVariable
  PROVE  \E q : Moves(q)
<1>n. PICK n : n = Top.node
  OBVIOUS
<1>1. stack # << >> /\ Top.op = "visit" /\ ast[n].kind \in {"Variable", "Array", "Parameter"}
  BY <1>n DEF VisitVariable, Visiting, Doing
<1>2. /\ ast \in Programs /\ IsTree(ast) /\ n \in DOMAIN ast
      /\ Top.op = "visit" /\ n \in DeclsOf(ast) => Here = Place(n + 1, Around(ast, n))
  BY <1>1, <1>n, AtTop
<1>3. n \in DeclsOf(ast)
  BY <1>1, <1>2 DEF DeclsOf, DeclKinds
<1>4. ForKids(<< >>, ast, n)
  <2>1. Len(ast[n].kids) = 0 /\ Len(<< >>) = 0 /\ 1 .. 0 = {}
    BY <1>1, <1>2, KidCounts
  <2>2. QED
    BY <2>1 DEF ForKids
<1>5. ~ OpensScope(ast, n)
  BY <1>1 DEF OpensScope
<1>6. /\ Continue(<< >>) /\ ast' = ast
      /\ UNCHANGED << tableVars, referent, nest_level, raised >>
  BY DEF VisitVariable
<1>7. Steps(Place(n + 1, Around(ast, n)))
  BY <1>1, <1>4, <1>5, <1>6, <1>n, PassingVisit
<1>8. Passes(Place(n + 1, Around(ast, n)))
  BY <1>1, <1>2, <1>3, <1>6 DEF Passes, Place
<1>9. QED
  BY <1>7, <1>8 DEF Moves

LEMMA ChildrenMove ==
  ASSUME IInv, NEW kinds, VisitChildren(kinds),
         kinds \subseteq {"If", "While", "Return", "ExpressionStmt", "Assignment", "ImplicitCast",
                          "Additive", "Multiplicative", "Relational"} \cup LiteralKinds
  PROVE  \E q : Moves(q)
<1>n. PICK n : n = Top.node
  OBVIOUS
<1>1. stack # << >> /\ Top.op = "visit" /\ ast[n].kind \in kinds
  BY <1>n DEF VisitChildren, Visiting, Doing
<1>2. /\ ast \in Programs /\ IsTree(ast) /\ n \in DOMAIN ast
      /\ Top.op = "visit" /\ n \notin DeclsOf(ast) => Here = Place(n, Around(ast, n))
  BY <1>1, <1>n, AtTop
<1>3. n \notin DeclsOf(ast) \cup UsesOf(ast)
  BY <1>1 DEF DeclsOf, UsesOf, DeclKinds, UseKinds, LiteralKinds
<1>4. ForKids(VisitAll(Kids(ast, n)), ast, n)
  <2>1. ast[n].kind \in {"If", "While", "Return", "ExpressionStmt"} \cup ExpressionKinds
    BY <1>1 DEF ExpressionKinds, LiteralKinds
  <2>2. QED
    BY <1>2, <2>1, KidKinds, VisitsKids
<1>5. ~ OpensScope(ast, n)
  BY <1>1 DEF OpensScope, LiteralKinds
<1>6. /\ Continue(VisitAll(Kids(ast, n))) /\ ast' = ast
      /\ UNCHANGED << tableVars, referent, nest_level, raised >>
  BY <1>n DEF VisitChildren
<1>7. Steps(Place(n + 1, Around(ast, n)))
  BY <1>1, <1>4, <1>5, <1>6, <1>n, PassingVisit
<1>8. Passes(Place(n + 1, Around(ast, n)))
  BY <1>1, <1>2, <1>3, <1>6 DEF Passes, Silent, Place
<1>9. QED
  BY <1>7, <1>8 DEF Moves

\* A visit that opens a scope of its own.
LEMMA OpeningVisit ==
  ASSUME IInv, stack # << >>, NEW n, n = Top.node, Top.op = "visit", n # 1,
         OpensScope(ast, n), n \notin UsesOf(ast),
         enterScope, UNCHANGED << ast, referent, nest_level, raised >>,
         NEW list, ForKids(list, ast, n), Continue(list \o << Exit(n) >>)
  PROVE  \E q : Moves(q)
<1>1. /\ ast \in Programs /\ IsProgram(ast) /\ n \in DOMAIN ast /\ n \in Nat \ {0}
      /\ Top \in TaskOf(ast) /\ Exit(n) \in TaskOf(ast)
      /\ n \notin DeclsOf(ast) => Here = Place(n, Around(ast, n))
      /\ n \in DeclsOf(ast) => Here = Place(n + 1, Around(ast, n))
  BY AtTop
<1>2. /\ list \o << Exit(n) >> \in Seq(TaskOf(ast))
      /\ Leads(list \o << Exit(n) >>, Begins(ast), Leaves(ast), Place(n + 1, Inside(ast, n)))
  BY <1>1, ScopedVisit
<1>3. Steps(Place(n + 1, Inside(ast, n)))
  BY <1>2 DEF Steps
<1>4. Around(ast, n) \subseteq 1 .. n /\ n \notin Around(ast, n)
  BY <1>1, AroundTyped
<1>5. \A a \in Around(ast, n) : a < n
  BY <1>1, <1>4
<1>6. Here.open = Around(ast, n) /\ (Here.at = n + 1 \/ (Here.at = n /\ Silent(n)))
  BY <1>1 DEF Place, Silent
<1>7. Inside(ast, n) = Here.open \cup {n}
  BY <1>6 DEF Inside
<1>8. Opens(n, Place(n + 1, Inside(ast, n)))
  BY <1>5, <1>6, <1>7 DEF Opens
<1>9. QED
  BY <1>1, <1>3, <1>8 DEF Moves

LEMMA FunctionMoves ==
  ASSUME IInv, VisitFunction
  PROVE  \E q : Moves(q)
<1>n. PICK n : n = Top.node
  OBVIOUS
<1>1. stack # << >> /\ Top.op = "visit" /\ ast[n].kind = "Function"
  BY <1>n DEF VisitFunction, Visiting, Doing
<1>2. /\ ast \in Programs /\ IsProgram(ast) /\ IsTree(ast) /\ n \in DOMAIN ast
      /\ Exit(n) \in TaskOf(ast)
  BY <1>1, <1>n, AtTop
<1>3. n # 1 /\ OpensScope(ast, n) /\ n \notin UsesOf(ast)
  BY <1>1, <1>2 DEF OpensScope, UsesOf, UseKinds, IsProgram
<1> DEFINE params == DeclareAll(Parameters(ast, n))
           body == Visit(Body(ast, n))
<1>4. ForKids(params \o << body >>, ast, n)
  BY <1>1, <1>2, FunctionTasks
<1>5. << body, Exit(n) >> = << body >> \o << Exit(n) >>
  BY TwoInARow
<1>6. params \o (<< body >> \o << Exit(n) >>) = (params \o << body >>) \o << Exit(n) >>
  <2>1. Parameters(ast, n) \in Seq(DeclsOf(ast)) /\ Body(ast, n) \in DOMAIN ast
    BY <1>1, <1>2, FunctionKids
  <2>2. params \in Seq(TaskOf(ast))
    BY <1>2, <2>1, DeclareAllTasks
  <2>3. body \in TaskOf(ast)
    BY <1>2, <2>1, NodesOfTree DEF Visit, TaskOf, SymbolTask, Task
  <2>4. << body >> \in Seq(TaskOf(ast)) /\ << Exit(n) >> \in Seq(TaskOf(ast))
    BY <1>2, <2>3
  <2> HIDE DEF params, body
  <2>5. QED
    BY <2>2, <2>4, ConcatAssociative
<1>7. /\ Continue(params \o << body, Exit(n) >>)
      /\ enterScope /\ UNCHANGED << ast, referent, nest_level, raised >>
  BY <1>n DEF VisitFunction
<1> HIDE DEF params, body
<1>8. Continue((params \o << body >>) \o << Exit(n) >>)
  BY <1>5, <1>6, <1>7
<1>9. QED
  BY <1>1, <1>3, <1>4, <1>7, <1>8, <1>n, OpeningVisit

LEMMA CompoundMoves ==
  ASSUME IInv, VisitCompound
  PROVE  \E q : Moves(q)
<1>n. PICK n : n = Top.node
  OBVIOUS
<1>1. stack # << >> /\ Top.op = "visit" /\ ast[n].kind = "Compound"
  BY <1>n DEF VisitCompound, Visiting, Doing
<1>2. /\ ast \in Programs /\ IsProgram(ast) /\ IsTree(ast) /\ n \in DOMAIN ast
      /\ Top.op = "visit" /\ n \notin DeclsOf(ast) => Here = Place(n, Around(ast, n))
  BY <1>1, <1>n, AtTop
<1>3. n # 1 /\ n \notin UsesOf(ast) /\ n \notin DeclsOf(ast)
  BY <1>1, <1>2 DEF UsesOf, UseKinds, DeclsOf, DeclKinds, IsProgram
<1> DEFINE inside == DeclareAll(LocalDecls(ast, n)) \o VisitAll(Statements(ast, n))
<1>4. ForKids(inside, ast, n)
  BY <1>1, <1>2, CompoundTasks
<1>5. /\ UNCHANGED << ast, referent, nest_level, raised >>
      /\ \/ /\ ~ ast[n].is_function_body
            /\ enterScope /\ Continue(inside \o << Exit(n) >>)
         \/ /\ ast[n].is_function_body
            /\ Continue(inside) /\ UNCHANGED tableVars
  BY <1>n DEF VisitCompound
<1> HIDE DEF inside
<1>6. CASE ~ ast[n].is_function_body
  <2>1. OpensScope(ast, n)
    BY <1>1, <1>6 DEF OpensScope
  <2>2. QED
    BY <1>1, <1>3, <1>4, <1>5, <1>6, <1>n, <2>1, OpeningVisit
<1>7. CASE ast[n].is_function_body
  <2>1. ~ OpensScope(ast, n)
    BY <1>1, <1>7 DEF OpensScope
  <2>2. Steps(Place(n + 1, Around(ast, n)))
    BY <1>1, <1>4, <1>5, <1>7, <1>n, <2>1, PassingVisit
  <2>3. Passes(Place(n + 1, Around(ast, n)))
    BY <1>1, <1>2, <1>3, <1>5, <1>7 DEF Passes, Silent, Place
  <2>4. QED
    BY <2>2, <2>3 DEF Moves
<1>8. QED
  BY <1>6, <1>7

LEMMA ExitMoves ==
  ASSUME IInv, LeaveScope
  PROVE  \E q : Moves(q)
<1>n. PICK n : n = Top.node
  OBVIOUS
<1>1. stack # << >> /\ Top.op = "exitScope" /\ ast[n].kind \in {"Function", "Compound"}
  BY <1>n DEF LeaveScope, Doing
<1>2. /\ ast \in Programs /\ IsProgram(ast) /\ n \in DOMAIN ast /\ n \in Nat \ {0}
      /\ Top \in TaskOf(ast)
      /\ Here = Place(n + ast[n].span, Around(ast, n) \cup {n})
  BY <1>1, <1>n, AtTop
<1>3. n # 1
  BY <1>1, <1>2 DEF IsProgram
<1>4. \A a \in Around(ast, n) : a < n
  <2>1. Around(ast, n) \subseteq 1 .. n /\ n \notin Around(ast, n)
    BY <1>2, <1>3, AroundTyped
  <2>2. QED
    BY <1>2, <2>1
<1> DEFINE q == Place(n + ast[n].span, Around(ast, n))
<1>5. /\ Continue(<< >>) /\ exitScope
      /\ UNCHANGED << ast, referent, nest_level, raised >>
  BY DEF LeaveScope
<1>6. Leads(<< >>, Begins(ast), Leaves(ast), q)
  <2>1. q = Leaves(ast)[Top]
    BY <1>2, <1>n DEF Leaves
  <2>2. Len(<< >>) = 0 /\ 1 .. 0 - 1 = {}
    OBVIOUS
  <2> HIDE DEF q
  <2>3. QED
    BY <2>1, <2>2 DEF Leads
<1>7. Steps(q)
  <2>1. << >> \in Seq(TaskOf(ast))
    OBVIOUS
  <2> HIDE DEF q
  <2>2. QED
    BY <1>1, <1>5, <1>6, <2>1 DEF Steps
<1>8. Closes(n, q)
  BY <1>2, <1>3, <1>4, <1>5 DEF Closes, Place, Around
<1>9. QED
  BY <1>2, <1>7, <1>8 DEF Moves

LEMMA DeclareMoves ==
  ASSUME IInv, DeclareNext
  PROVE  (\E q : Moves(q)) \/ \E n \in DOMAIN ast : Throws(n)
<1>n. PICK n : n = Top.node
  OBVIOUS
<1>1. stack # << >> /\ Top.op = "declare"
  BY <1>n DEF DeclareNext, Doing
<1>2. /\ ast \in Programs /\ IsProgram(ast) /\ IsTree(ast) /\ n \in DOMAIN ast
      /\ Visit(n) \in TaskOf(ast) /\ Top \in TaskOf(ast) /\ raised = NoException
      /\ Here = Place(n, Around(ast, n)) /\ n \in DeclsOf(ast)
  BY <1>1, <1>n, AtTop
<1>3. \/ /\ insert(ast[n].name, n)
         /\ nest_level' = Assigned(nest_level, n, getNestLevel)
         /\ Continue(<< Visit(n) >>)
         /\ UNCHANGED << ast, referent, raised >>
      \/ /\ Declared(ast[n].name)
         /\ Throw("MultipleDeclaredSymbol", n)
  BY <1>n DEF DeclareNext
<1>4. CASE /\ insert(ast[n].name, n)
           /\ nest_level' = Assigned(nest_level, n, getNestLevel)
           /\ Continue(<< Visit(n) >>)
           /\ UNCHANGED << ast, referent, raised >>
  <2> DEFINE q == Place(n + 1, Around(ast, n))
  <2>1. Begins(ast)[Visit(n)] = q /\ Leaves(ast)[Visit(n)] = Leaves(ast)[Top]
    <3>1. Visit(n).op = "visit" /\ Visit(n).node = n
      BY DEF Visit
    <3>2. QED
      BY <1>2, <1>n, <3>1 DEF Begins, Leaves
  <2>2. << Visit(n) >> \in Seq(TaskOf(ast))
    BY <1>2
  <2>3. Leads(<< Visit(n) >>, Begins(ast), Leaves(ast), q)
    <3>1. /\ << Visit(n) >> # << >> /\ << Visit(n) >>[1] = Visit(n)
          /\ Len(<< Visit(n) >>) = 1 /\ 1 .. 1 - 1 = {}
      OBVIOUS
    <3> HIDE DEF q
    <3>2. QED
      BY <2>1, <3>1 DEF Leads
  <2>4. Steps(q)
    BY <1>1, <1>4, <2>2, <2>3 DEF Steps
  <2>5. Declares(n, q)
    BY <1>2, <1>4 DEF Declares, getNestLevel
  <2>6. QED
    BY <1>2, <2>4, <2>5 DEF Moves
<1>5. CASE Declared(ast[n].name) /\ Throw("MultipleDeclaredSymbol", n)
  BY <1>1, <1>2, <1>5 DEF Throws, Throw, NoException, tableVars
<1>6. QED
  BY <1>3, <1>4, <1>5

LEMMA LinkMoves ==
  ASSUME IInv, NEW kinds, LinkUse(kinds), kinds \subseteq UseKinds
  PROVE  (\E q : Moves(q)) \/ \E n \in DOMAIN ast : Throws(n)
<1>n. PICK n : n = Top.node
  OBVIOUS
<1>1. stack # << >> /\ Top.op = "visit" /\ ast[n].kind \in UseKinds
  BY <1>n DEF LinkUse, Visiting, Doing
<1>2. /\ ast \in Programs /\ IsTree(ast) /\ n \in DOMAIN ast
      /\ Top.op = "visit" /\ n \notin DeclsOf(ast) => Here = Place(n, Around(ast, n))
      /\ raised = NoException
  BY <1>1, <1>n, AtTop
<1>3. n \in UsesOf(ast) /\ n \notin DeclsOf(ast) /\ ~ OpensScope(ast, n)
  BY <1>1, <1>2 DEF UsesOf, DeclsOf, DeclKinds, UseKinds, OpensScope
<1>4. ForKids(VisitAll(Kids(ast, n)), ast, n)
  <2>1. ast[n].kind \in {"If", "While", "Return", "ExpressionStmt"} \cup ExpressionKinds
    BY <1>1 DEF ExpressionKinds, UseKinds
  <2>2. QED
    BY <1>2, <2>1, KidKinds, VisitsKids
<1>5. \/ /\ lookup(ast[n].name) # nullptr
         /\ referent' = Assigned(referent, n, lookup(ast[n].name))
         /\ Continue(VisitAll(Kids(ast, n)))
         /\ UNCHANGED << tableVars, ast, nest_level, raised >>
      \/ /\ lookup(ast[n].name) = nullptr
         /\ Throw("UndeclaredSymbol", n)
  BY <1>n DEF LinkUse
<1>6. CASE /\ lookup(ast[n].name) # nullptr
           /\ referent' = Assigned(referent, n, lookup(ast[n].name))
           /\ Continue(VisitAll(Kids(ast, n)))
           /\ UNCHANGED << tableVars, ast, nest_level, raised >>
  <2>1. Steps(Place(n + 1, Around(ast, n)))
    BY <1>1, <1>3, <1>4, <1>6, <1>n, PassingVisit
  <2>2. Links(n, Place(n + 1, Around(ast, n)))
    BY <1>1, <1>2, <1>3, <1>6 DEF Links
  <2>3. QED
    BY <1>2, <2>1, <2>2 DEF Moves
<1>7. CASE lookup(ast[n].name) = nullptr /\ Throw("UndeclaredSymbol", n)
  BY <1>1, <1>2, <1>3, <1>7 DEF Throws, Throw, NoException, tableVars
<1>8. QED
  BY <1>5, <1>6, <1>7

LEMMA EveryStepMoves ==
  ASSUME IInv, Next
  PROVE  (\E q : Moves(q)) \/ \E n \in DOMAIN ast : Throws(n)
<1>1. CASE VisitProgram
  BY <1>1, ProgramMoves
<1>2. CASE DeclareNext
  BY <1>2, DeclareMoves
<1>3. CASE VisitVariable
  BY <1>3, VariableMoves
<1>4. CASE VisitFunction
  BY <1>4, FunctionMoves
<1>5. CASE VisitCompound
  BY <1>5, CompoundMoves
<1>6. CASE LeaveScope
  BY <1>6, ExitMoves
<1>7. CASE VisitStatement \/ VisitAssignment \/ VisitImplicitCast \/ VisitBinary \/ VisitLiteral
  <2>1. PICK kinds : /\ VisitChildren(kinds)
                     /\ kinds \in {{"If", "While", "Return", "ExpressionStmt"}, {"Assignment"},
                                   {"ImplicitCast"}, {"Additive", "Multiplicative", "Relational"},
                                   LiteralKinds}
    BY <1>7 DEF VisitStatement, VisitAssignment, VisitImplicitCast, VisitBinary, VisitLiteral,
                LiteralKinds
  <2>2. kinds \subseteq {"If", "While", "Return", "ExpressionStmt", "Assignment", "ImplicitCast",
                         "Additive", "Multiplicative", "Relational"} \cup LiteralKinds
    BY <2>1
  <2>3. QED
    BY <2>1, <2>2, ChildrenMove
<1>8. CASE VisitVariableExpr \/ VisitCall
  <2>1. PICK kinds : LinkUse(kinds) /\ kinds \in {{"VariableExpr", "Subscript"}, {"Call"}}
    BY <1>8 DEF VisitVariableExpr, VisitCall
  <2>2. kinds \subseteq UseKinds
    BY <2>1 DEF UseKinds
  <2>3. QED
    BY <2>1, <2>2, LinkMoves
<1>9. QED
  BY <1>1, <1>2, <1>3, <1>4, <1>5, <1>6, <1>7, <1>8 DEF Next

(***************************************************************************)
(* The table from place to place.                                          *)
(***************************************************************************)
LEMMA TableForward ==
  ASSUME NEW t, NEW table, NEW scopes, NEW p, NEW q, TableOf(t, table, scopes, p),
         q.open = p.open, p.at \in Nat, q.at \in Nat, p.at <= q.at, DeclsOf(t) \subseteq Nat,
         \A d \in DeclsOf(t) : d < q.at => d < p.at
  PROVE  TableOf(t, table, scopes, q)
<1>1. ASSUME NEW i \in 1 .. Len(table), NEW d \in DeclsOf(t), Owner(t, d) = scopes[i], d < q.at
      PROVE  table[i][t[d].name] = d
  BY <1>1 DEF TableOf, HoldsDeclared
<1>2. ASSUME NEW i \in 1 .. Len(table), NEW x \in Name, table[i][x] # nullptr
      PROVE  \/ /\ table[i][x] \in DeclsOf(t) /\ table[i][x] < q.at
                /\ Owner(t, table[i][x]) = scopes[i] /\ t[table[i][x]].name = x
             \/ i = 1 /\ table[i][x] = BuiltinNamed(x)
  <2>1. \/ /\ table[i][x] \in DeclsOf(t) /\ table[i][x] < p.at
           /\ Owner(t, table[i][x]) = scopes[i] /\ t[table[i][x]].name = x
        \/ i = 1 /\ table[i][x] = BuiltinNamed(x)
    BY <1>2 DEF TableOf, HoldsNoMore
  <2>2. table[i][x] \in DeclsOf(t) /\ table[i][x] < p.at => table[i][x] < q.at
    OBVIOUS
  <2>3. QED
    BY <2>1, <2>2
<1>3. QED
  BY <1>1, <1>2 DEF TableOf, HoldsDeclared, HoldsNoMore

LEMMA TableExtended ==
  ASSUME NEW t, IsProgram(t), NEW table \in Seq(ScopeTable), NEW scopes, NEW p, NEW n \in Nat,
         TableOf(t, table, scopes, p), p.at = n + 1, \A a \in p.open : a < n,
         DeclsOf(t) \subseteq Nat
  PROVE  TableOf(t, Append(table, [x \in Name |-> nullptr]), Append(scopes, n),
                 Place(n + 1, p.open \cup {n}))
<1> DEFINE none == [x \in Name |-> nullptr]
<1>1. PICK k : k = Len(table)
  OBVIOUS
<1>2. PICK next : next = Append(table, none)
  OBVIOUS
<1>3. PICK open : open = Append(scopes, n)
  OBVIOUS
<1>4. k \in Nat \ {0} /\ scopes \in Seq(Nat) /\ Len(scopes) = k
  BY <1>1 DEF TableOf, InDepthOrder
<1>5. none \in ScopeTable
  BY DEF ScopeTable
<1>6. Len(next) = k + 1 /\ next[k + 1] = none /\ \A i \in 1 .. k : next[i] = table[i]
  BY <1>1, <1>2, <1>4, <1>5
<1>7. open \in Seq(Nat) /\ Len(open) = k + 1 /\ open[k + 1] = n
      /\ \A i \in 1 .. k : open[i] = scopes[i]
  BY <1>3, <1>4
<1>8. \A x \in Name : none[x] = nullptr
  OBVIOUS
<1> HIDE DEF none
<1>9. \A i \in 1 .. k + 1 : i \in 1 .. k \/ i = k + 1
  BY <1>4
<1>10. open[1] = 1
  <2>1. 1 \in 1 .. k /\ scopes[1] = 1
    BY <1>4 DEF TableOf, InDepthOrder
  <2>2. QED
    BY <1>7, <2>1
<1>11. ASSUME NEW i \in 1 .. k + 1, NEW j \in 1 .. k + 1, i < j PROVE open[i] < open[j]
  <2>0. i \in 1 .. k
    BY <1>4, <1>11
  <2>1. scopes[i] \in p.open /\ scopes[i] < n
    BY <1>1, <2>0 DEF TableOf, InDepthOrder
  <2>2. CASE j \in 1 .. k
    BY <1>1, <1>7, <1>11, <2>0, <2>2 DEF TableOf, InDepthOrder
  <2>3. CASE j = k + 1
    BY <1>7, <2>0, <2>1, <2>3
  <2>4. QED
    BY <1>9, <2>2, <2>3
<1>12. \A i \in 1 .. k + 1 : open[i] \in p.open \cup {n}
  BY <1>1, <1>7, <1>9 DEF TableOf, InDepthOrder
<1>13. \A a \in p.open \cup {n} : \E i \in 1 .. k + 1 : open[i] = a
  <2>1. ASSUME NEW a \in p.open PROVE \E i \in 1 .. k + 1 : open[i] = a
    <3>1. PICK i \in 1 .. k : scopes[i] = a
      BY <1>1 DEF TableOf, InDepthOrder
    <3>2. i \in 1 .. k + 1
      BY <1>4
    <3>3. QED
      BY <1>7, <3>1, <3>2
  <2>2. k + 1 \in 1 .. k + 1
    BY <1>4
  <2>3. QED
    BY <1>7, <2>1, <2>2
<1>14. ASSUME NEW i \in 1 .. k + 1, NEW d \in DeclsOf(t), Owner(t, d) = open[i], d < n + 1
       PROVE  next[i][t[d].name] = d
  <2>1. i # k + 1
    BY <1>7, <1>14, OwnerIsLast
  <2>2. i \in 1 .. k /\ Owner(t, d) = scopes[i]
    BY <1>7, <1>9, <1>14, <2>1
  <2>3. QED
    BY <1>1, <1>6, <1>14, <2>2 DEF TableOf, HoldsDeclared
<1>15. ASSUME NEW i \in 1 .. k + 1, NEW x \in Name, next[i][x] # nullptr
       PROVE  \/ /\ next[i][x] \in DeclsOf(t) /\ next[i][x] < n + 1
                 /\ Owner(t, next[i][x]) = open[i] /\ t[next[i][x]].name = x
              \/ i = 1 /\ next[i][x] = BuiltinNamed(x)
  <2>1. i \in 1 .. k
    BY <1>6, <1>8, <1>9, <1>15
  <2>2. next[i] = table[i] /\ open[i] = scopes[i]
    BY <1>6, <1>7, <2>1
  <2>3. QED
    BY <1>1, <1>15, <2>1, <2>2 DEF TableOf, HoldsNoMore
<1>16. \A x \in Name : BuiltinNamed(x) # nullptr => next[1][x] = BuiltinNamed(x)
  <2>1. 1 \in 1 .. k /\ HoldsBuiltins(table)
    BY <1>4 DEF TableOf
  <2>2. QED
    BY <1>6, <2>1 DEF HoldsBuiltins
<1>17. TableOf(t, next, open, Place(n + 1, p.open \cup {n}))
  BY <1>4, <1>6, <1>7, <1>10, <1>11, <1>12, <1>13, <1>14, <1>15, <1>16
     DEF TableOf, Place, InDepthOrder, HoldsDeclared, HoldsNoMore, HoldsBuiltins
<1>18. QED
  BY <1>2, <1>3, <1>17 DEF none

LEMMA ButLast ==
  ASSUME NEW S, NEW s \in Seq(S), NEW j \in Nat, Len(s) = j + 1
  PROVE  Front(s) \in Seq(S) /\ Len(Front(s)) = j /\ \A i \in 1 .. j : Front(s)[i] = s[i]
<1>1. s # << >> /\ Len(s) - 1 = j
  BY EmptySeq
<1>2. QED
  BY <1>1, FrontParts

LEMMA TableClosed ==
  ASSUME NEW t, NEW table \in Seq(ScopeTable), NEW scopes, NEW q, NEW n,
         TableOf(t, table, scopes, Place(q.at, q.open \cup {n})),
         1 \in q.open, \A a \in q.open : a < n /\ a # n
  PROVE  /\ Len(table) > 1
         /\ TableOf(t, Front(table), Front(scopes), q)
<1>1. PICK k : k = Len(table)
  OBVIOUS
<1>2. PICK next : next = Front(table)
  OBVIOUS
<1>3. PICK open : open = Front(scopes)
  OBVIOUS
<1> DEFINE p == Place(q.at, q.open \cup {n})
<1>4. p.at = q.at /\ p.open = q.open \cup {n} /\ TableOf(t, table, scopes, p)
  BY DEF Place
<1> HIDE DEF p
<1>5. /\ k \in Nat \ {0} /\ scopes \in Seq(Nat) /\ Len(scopes) = k /\ scopes[1] = 1
      /\ \A i \in 1 .. k : scopes[i] \in Nat
  BY <1>1, <1>4 DEF TableOf, InDepthOrder
<1>6. /\ \A i, j \in 1 .. k : i < j => scopes[i] < scopes[j]
      /\ \A i \in 1 .. k : scopes[i] \in q.open \cup {n}
      /\ \A a \in q.open \cup {n} : \E i \in 1 .. k : scopes[i] = a
  BY <1>1, <1>4 DEF TableOf, InDepthOrder
<1>7. PICK m \in 1 .. k : scopes[m] = n
  BY <1>6
<1>8. m = k
  <2>1. ASSUME m < k PROVE FALSE
    <3>1. k \in 1 .. k
      BY <1>5
    <3>2. n < scopes[k]
      BY <1>6, <1>7, <2>1, <3>1
    <3>3. scopes[k] \in q.open
      BY <1>5, <1>6, <1>7, <3>1, <3>2
    <3>4. scopes[k] < n
      BY <3>3
    <3>5. QED
      BY <1>5, <1>7, <3>1, <3>2, <3>4
  <2>2. QED
    BY <1>5, <2>1
<1>9. k > 1
  <2>1. n # 1
    OBVIOUS
  <2>2. QED
    BY <1>5, <1>7, <1>8, <2>1
<1>10. PICK j \in Nat \ {0} : k = j + 1
  <2>1. k - 1 \in Nat \ {0} /\ k = (k - 1) + 1
    BY <1>5, <1>9
  <2>2. QED
    BY <2>1
<1>11. Len(next) = j /\ \A i \in 1 .. j : next[i] = table[i]
  BY <1>1, <1>2, <1>10, ButLast
<1>12. open \in Seq(Nat) /\ Len(open) = j /\ \A i \in 1 .. j : open[i] = scopes[i]
  BY <1>3, <1>5, <1>10, ButLast
<1>13. \A i \in 1 .. j : i \in 1 .. k /\ i # k
  BY <1>10
<1>14. \A i \in 1 .. k : i \in 1 .. j \/ i = k
  BY <1>10
<1>15. \A i \in 1 .. j : open[i] \in q.open
  <2>1. ASSUME NEW i \in 1 .. j PROVE scopes[i] # n
    <3>1. i \in 1 .. k /\ i < k /\ k \in 1 .. k
      BY <1>5, <1>10
    <3>2. scopes[i] < scopes[k]
      BY <1>6, <3>1
    <3>3. QED
      BY <1>5, <1>7, <1>8, <3>1, <3>2
  <2>2. QED
    BY <1>6, <1>12, <1>13, <2>1
<1>16. \A a \in q.open : \E i \in 1 .. j : open[i] = a
  <2>1. ASSUME NEW a \in q.open PROVE \E i \in 1 .. j : open[i] = a
    <3>1. PICK i \in 1 .. k : scopes[i] = a
      BY <1>6
    <3>2. i # k
      BY <1>7, <1>8, <3>1
    <3>3. QED
      BY <1>12, <1>14, <3>1, <3>2
  <2>2. QED
    BY <2>1
<1>17. \A i \in 1 .. j, d \in DeclsOf(t) :
         Owner(t, d) = open[i] /\ d < q.at => next[i][t[d].name] = d
  BY <1>1, <1>4, <1>11, <1>12, <1>13 DEF TableOf, HoldsDeclared
<1>18. ASSUME NEW i \in 1 .. j, NEW x \in Name, next[i][x] # nullptr
       PROVE  \/ /\ next[i][x] \in DeclsOf(t) /\ next[i][x] < q.at
                 /\ Owner(t, next[i][x]) = open[i] /\ t[next[i][x]].name = x
              \/ i = 1 /\ next[i][x] = BuiltinNamed(x)
  <2>1. next[i] = table[i] /\ open[i] = scopes[i] /\ i \in 1 .. Len(table)
    BY <1>1, <1>11, <1>12, <1>13
  <2>2. HoldsNoMore(t, table, scopes, q.at)
    BY <1>4 DEF TableOf
  <2>3. QED
    BY <1>18, <2>1, <2>2 DEF HoldsNoMore
<1>19. 1 \in 1 .. j /\ j \in Nat \ {0}
  BY <1>10
<1>20. \A x \in Name : BuiltinNamed(x) # nullptr => next[1][x] = BuiltinNamed(x)
  BY <1>4, <1>11, <1>19 DEF TableOf, HoldsBuiltins
<1>21. \A a, b \in 1 .. j : a < b => open[a] < open[b]
  BY <1>6, <1>12, <1>13
<1>22. open[1] = 1
  BY <1>5, <1>12, <1>19
<1>23. TableOf(t, next, open, q)
  BY <1>11, <1>12, <1>15, <1>16, <1>17, <1>18, <1>19, <1>20, <1>21, <1>22
     DEF TableOf, InDepthOrder, HoldsDeclared, HoldsNoMore, HoldsBuiltins
<1>24. QED
  BY <1>1, <1>2, <1>3, <1>9, <1>23

LEMMA OwnerOpen ==
  ASSUME NEW t, IsProgram(t), NEW d \in DeclsOf(t), NEW table, NEW scopes,
         InDepthOrder(table, scopes, Around(t, d)), NEW k, k = Len(table)
  PROVE  Owner(t, d) = scopes[k]
<1>1. /\ k \in Nat \ {0} /\ k \in 1 .. k
      /\ \A i \in 1 .. k : scopes[i] \in Nat
  BY DEF InDepthOrder
<1>2. PICK i \in 1 .. k : scopes[i] = Owner(t, d)
  BY OwnerIsLast DEF InDepthOrder
<1>3. scopes[k] <= Owner(t, d)
  BY <1>1, OwnerIsLast DEF InDepthOrder
<1>4. i = k \/ i < k
  BY <1>1
<1>5. i < k => scopes[i] < scopes[k]
  BY <1>1 DEF InDepthOrder
<1>6. QED
  BY <1>1, <1>2, <1>3, <1>4, <1>5

LEMMA TableDeclares ==
  ASSUME NEW t, NEW table \in Seq(ScopeTable), NEW scopes, NEW d \in DeclsOf(t),
         TableOf(t, table, scopes, Place(d, Around(t, d))),
         IsProgram(t), DeclsOf(t) \subseteq Nat \cap DeclId, \A e \in DeclsOf(t) : t[e].name \in Name,
         NEW k, k = Len(table), table[k][t[d].name] = nullptr
  PROVE  /\ ~ Redeclares(t, d)
         /\ TableOf(t, [table EXCEPT ![k][t[d].name] = d], scopes, Place(d + 1, Around(t, d)))
<1> PICK x : x = t[d].name
  OBVIOUS
<1>0. d \in Nat /\ d \in DeclId /\ x \in Name /\ DeclsOf(t) \subseteq DeclId
  OBVIOUS
<1>1. PICK next : next = [table EXCEPT ![k][x] = d]
  OBVIOUS
<1>2. /\ InDepthOrder(table, scopes, Around(t, d))
      /\ HoldsDeclared(t, table, scopes, d)
      /\ HoldsNoMore(t, table, scopes, d)
      /\ HoldsBuiltins(table)
  BY DEF TableOf, Place
<1>3. /\ k \in Nat \ {0} /\ k \in 1 .. k
      /\ \A i \in 1 .. k : table[i] \in ScopeTable
      /\ scopes \in Seq(Nat) /\ Len(scopes) = k /\ scopes[1] = 1
      /\ \A i \in 1 .. k : scopes[i] \in Nat
  BY <1>2 DEF InDepthOrder
<1>4. /\ Len(next) = k
      /\ \A i \in 1 .. k, y \in Name :
           next[i][y] = IF i = k /\ y = x THEN d ELSE table[i][y]
  <2>1. [table[k] EXCEPT ![x] = d] \in ScopeTable
    BY <1>0, <1>3 DEF ScopeTable, AnyDecl
  <2>2. next = [table EXCEPT ![k] = [table[k] EXCEPT ![x] = d]]
    BY <1>1
  <2>3. /\ Len(next) = k
        /\ \A i \in 1 .. k : next[i] = IF i = k THEN [table[k] EXCEPT ![x] = d] ELSE table[i]
    BY <1>3, <2>1, <2>2, ExceptSeq
  <2>4. \A y \in Name : [table[k] EXCEPT ![x] = d][y] = IF y = x THEN d ELSE table[k][y]
    BY <1>3 DEF ScopeTable
  <2>5. QED
    BY <2>3, <2>4
<1>5. Owner(t, d) = scopes[k]
  BY <1>2, OwnerOpen
<1>6. \A i \in 1 .. k : scopes[i] = scopes[k] => i = k
  <2>1. \A i \in 1 .. k : i < k => scopes[i] < scopes[k]
    BY <1>2, <1>3 DEF InDepthOrder
  <2>2. \A i \in 1 .. k : i < k \/ i = k
    BY <1>3
  <2>3. QED
    BY <1>3, <2>1, <2>2
<1>7. table[k][x] = nullptr
  OBVIOUS
<1>8. ASSUME NEW e \in DeclsOf(t), e < d, t[e].name = x, Owner(t, e) = Owner(t, d) PROVE FALSE
  <2>1. table[k][x] = e
    BY <1>2, <1>3, <1>5, <1>8 DEF HoldsDeclared
  <2>2. e # nullptr
    BY <1>0, DeclIdAssumption
  <2>3. QED
    BY <1>7, <2>1, <2>2
<1>9. ASSUME k = 1, BuiltinNamed(x) # nullptr PROVE FALSE
  BY <1>0, <1>2, <1>7, <1>9 DEF HoldsBuiltins
<1>10. ~ Redeclares(t, d)
  <2>1. Owner(t, d) = 1 => k = 1
    <3>1. 1 \in 1 .. k
      BY <1>3
    <3>2. QED
      BY <1>3, <1>5, <1>6, <3>1
  <2>2. QED
    BY <1>8, <1>9, <2>1 DEF Redeclares
<1>11. InDepthOrder(next, scopes, Around(t, d))
  BY <1>2, <1>4 DEF InDepthOrder
<1>12. HoldsDeclared(t, next, scopes, d + 1)
  <2> SUFFICES ASSUME NEW i \in 1 .. k, NEW e \in DeclsOf(t), Owner(t, e) = scopes[i], e < d + 1
               PROVE  next[i][t[e].name] = e
    BY <1>4 DEF HoldsDeclared
  <2>1. e \in Nat /\ t[e].name \in Name
    OBVIOUS
  <2>2. CASE e = d
    BY <1>4, <1>5, <1>6, <2>1, <2>2
  <2>3. CASE e # d
    <3>1. e < d
      BY <1>0, <2>1, <2>3
    <3>2. table[i][t[e].name] = e
      BY <1>2, <3>1 DEF HoldsDeclared
    <3>3. ~ (i = k /\ t[e].name = x)
      BY <1>5, <1>8, <3>1
    <3>4. QED
      BY <1>4, <2>1, <3>2, <3>3
  <2>4. QED
    BY <2>2, <2>3
<1>13. HoldsNoMore(t, next, scopes, d + 1)
  <2> SUFFICES ASSUME NEW i \in 1 .. k, NEW y \in Name, next[i][y] # nullptr
               PROVE  \/ /\ next[i][y] \in DeclsOf(t) /\ next[i][y] < d + 1
                         /\ Owner(t, next[i][y]) = scopes[i] /\ t[next[i][y]].name = y
                      \/ i = 1 /\ next[i][y] = BuiltinNamed(y)
    BY <1>4 DEF HoldsNoMore
  <2>1. CASE i = k /\ y = x
    BY <1>0, <1>4, <1>5, <2>1
  <2>2. CASE ~ (i = k /\ y = x)
    <3>1. next[i][y] = table[i][y]
      BY <1>4, <2>2
    <3>2. \/ /\ table[i][y] \in DeclsOf(t) /\ table[i][y] < d
             /\ Owner(t, table[i][y]) = scopes[i] /\ t[table[i][y]].name = y
          \/ i = 1 /\ table[i][y] = BuiltinNamed(y)
      BY <1>2, <3>1 DEF HoldsNoMore
    <3>3. table[i][y] \in DeclsOf(t) /\ table[i][y] < d => table[i][y] < d + 1
      BY <1>0
    <3>4. QED
      BY <3>1, <3>2, <3>3
  <2>3. QED
    BY <2>1, <2>2
<1>14. HoldsBuiltins(next)
  <2>1. ASSUME NEW y \in Name, BuiltinNamed(y) # nullptr PROVE next[1][y] = BuiltinNamed(y)
    <3>1. 1 \in 1 .. k /\ table[1][y] = BuiltinNamed(y)
      BY <1>2, <1>3, <2>1 DEF HoldsBuiltins
    <3>2. ~ (1 = k /\ y = x)
      BY <1>9, <2>1
    <3>3. QED
      BY <1>4, <3>1, <3>2
  <2>2. QED
    BY <2>1 DEF HoldsBuiltins
<1>15. TableOf(t, next, scopes, Place(d + 1, Around(t, d)))
  BY <1>11, <1>12, <1>13, <1>14 DEF TableOf, Place
<1>16. QED
  BY <1>1, <1>10, <1>15

LEMMA BuiltinsTyped ==
  ASSUME NEW x, BuiltinNamed(x) # nullptr
  PROVE  BuiltinNamed(x) \in BuiltinDecls
<1> DEFINE named == {b \in BuiltinDecls : g_builtins[-b].name = x}
<1>1. named # {} /\ BuiltinNamed(x) = Min(named)
  BY DEF BuiltinNamed
<1>2. \E b \in named : \A c \in named : b <= c
  BY <1>1 DEF BuiltinDecls
<1>3. Min(named) \in named
  BY <1>2 DEF Min
<1>4. QED
  BY <1>1, <1>3

\* The search of the table finds what the scope rules say.
LEMMA LookupIsMeaning ==
  ASSUME NEW t, IsProgram(t), NEW table, NEW scopes, NEW n \in UsesOf(t), NEW x \in Name,
         x = t[n].name, TableOf(t, table, scopes, Place(n, Around(t, n))),
         DeclsOf(t) \subseteq DeclId
  PROVE  LookupFrom(table, x, Len(table)) = Meaning(t).referents[n]
<1>1. PICK k : k = Len(table)
  OBVIOUS
<1>2. /\ InDepthOrder(table, scopes, Around(t, n))
      /\ HoldsDeclared(t, table, scopes, n)
      /\ HoldsNoMore(t, table, scopes, n)
      /\ HoldsBuiltins(table)
  BY DEF TableOf, Place
<1>3. /\ k \in Nat \ {0} /\ scopes[1] = 1
      /\ \A i \in 1 .. k : scopes[i] \in Nat
      /\ \A i, j \in 1 .. k : i < j => scopes[i] < scopes[j]
  BY <1>1, <1>2 DEF InDepthOrder
<1>4. n \in DOMAIN t /\ n \in Nat
  <2>1. n \in DOMAIN t
    BY DEF UsesOf
  <2>2. QED
    BY <2>1, AroundTyped
<1>5. ASSUME NEW e \in InForce(t, n)
      PROVE  \E j \in ScopesOf(table, x, k) : scopes[j] = Owner(t, e) /\ table[j][x] = e
  <2>1. e \in DeclsOf(t) /\ e < n /\ t[e].name = x /\ Within(t, n, Owner(t, e))
    BY DEF InForce
  <2>2. /\ e \in DOMAIN t /\ Owner(t, e) \in Around(t, e) /\ Owner(t, e) < e
        /\ OpensScope(t, Owner(t, e))
    BY <2>1, OwnerIsLast
  <2>3. Owner(t, e) \in DOMAIN t /\ e \in Nat /\ Owner(t, e) \in Nat
    <3>1. Owner(t, e) \in DOMAIN t /\ e \in Nat
      BY <2>2, AroundTyped
    <3>2. QED
      BY <3>1, AroundTyped
  <2>4. Owner(t, e) # n
    BY <1>4, <2>1, <2>2, <2>3
  <2>5. Owner(t, e) \in Around(t, n)
    BY <1>4, <2>1, <2>2, <2>3, <2>4, AroundTyped
  <2>6. PICK j \in 1 .. k : scopes[j] = Owner(t, e)
    BY <1>1, <1>2, <2>5 DEF InDepthOrder
  <2>7. table[j][x] = e
    BY <1>1, <1>2, <2>1, <2>6 DEF HoldsDeclared
  <2>8. e # nullptr
    BY <2>1, DeclIdAssumption
  <2>9. QED
    BY <2>6, <2>7, <2>8 DEF ScopesOf
<1>6. CASE ScopesOf(table, x, k) = {} /\ LookupFrom(table, x, k) = nullptr
  <2>1. InForce(t, n) = {}
    BY <1>5, <1>6
  <2>2. BuiltinNamed(x) = nullptr
    <3>1. 1 \in 1 .. k
      BY <1>3
    <3>2. table[1][x] = nullptr
      BY <1>6, <3>1 DEF ScopesOf
    <3>3. QED
      BY <1>2, <3>2 DEF HoldsBuiltins
  <2>3. QED
    BY <1>1, <1>6, <2>1, <2>2, ReferentCases
<1>7. ASSUME NEW i \in ScopesOf(table, x, k), \A j \in ScopesOf(table, x, k) : j <= i,
             LookupFrom(table, x, k) = table[i][x]
      PROVE  LookupFrom(table, x, k) = Meaning(t).referents[n]
  <2>1. PICK v : v = table[i][x]
    OBVIOUS
  <2>2. i \in 1 .. k /\ v # nullptr
    BY <2>1 DEF ScopesOf
  <2>3. \/ v \in DeclsOf(t) /\ v < n /\ Owner(t, v) = scopes[i] /\ t[v].name = x
        \/ i = 1 /\ v = BuiltinNamed(x)
    BY <1>1, <1>2, <2>1, <2>2 DEF HoldsNoMore
  <2>4. CASE v \in DeclsOf(t) /\ v < n /\ Owner(t, v) = scopes[i] /\ t[v].name = x
    <3>1. Within(t, n, Owner(t, v))
      <4>1. scopes[i] \in Around(t, n)
        BY <1>1, <1>2, <2>2 DEF InDepthOrder
      <4>2. QED
        BY <1>4, <2>4, <4>1, AroundTyped
    <3>2. v \in InForce(t, n)
      BY <2>4, <3>1 DEF InForce
    <3>3. ASSUME NEW e \in InForce(t, n)
          PROVE  /\ Owner(t, e) <= Owner(t, v)
                 /\ Owner(t, v) <= Owner(t, e) => e = v
      <4>1. PICK j \in ScopesOf(table, x, k) : scopes[j] = Owner(t, e) /\ table[j][x] = e
        BY <1>5
      <4>2. j \in 1 .. k /\ j <= i
        BY <1>7 DEF ScopesOf
      <4>3. CASE j = i
        BY <1>3, <2>1, <2>2, <2>4, <4>1, <4>3
      <4>4. CASE j # i
        <5>1. scopes[j] < scopes[i]
          BY <1>3, <2>2, <4>2, <4>4
        <5>2. QED
          BY <1>3, <2>2, <2>4, <4>1, <4>2, <5>1
      <4>5. QED
        BY <4>3, <4>4
    <3>4. Meaning(t).referents[n] = v
      BY <3>2, <3>3, ReferentCases
    <3>5. QED
      BY <1>7, <2>1, <3>4
  <2>5. CASE i = 1 /\ v = BuiltinNamed(x)
    <3>1. v \in BuiltinDecls
      BY <2>2, <2>5, BuiltinsTyped
    <3>2. ASSUME NEW e \in InForce(t, n) PROVE FALSE
      <4>1. PICK j \in ScopesOf(table, x, k) : table[j][x] = e
        BY <1>5
      <4>2. j = 1
        BY <1>3, <1>7, <2>5 DEF ScopesOf
      <4>3. e = v /\ e \in DeclId
        BY <2>1, <2>5, <4>1, <4>2 DEF InForce
      <4>4. QED
        BY <3>1, <4>3, DeclIdAssumption
    <3>3. InForce(t, n) = {}
      BY <3>2
    <3>4. Meaning(t).referents[n] = BuiltinNamed(x)
      BY <3>3, ReferentCases
    <3>5. QED
      BY <1>7, <2>1, <2>5, <3>4
  <2>6. QED
    BY <2>3, <2>4, <2>5
<1>8. QED
  <2>1. k \in Nat
    BY <1>3
  <2>2. QED
    BY <1>1, <1>6, <1>7, <2>1, LookupCases

(***************************************************************************)
(* Every step brings the walk to its next place.                           *)
(***************************************************************************)
Arrives(q) ==
  /\ IsFiniteSet(q.open) /\ Cardinality(q.open) = Len(m_table')
  /\ \E scopes : TableOf(ast, m_table', scopes, q)
  /\ DOMAIN referent' = {n \in UsesOf(ast) : n < q.at}
  /\ DOMAIN nest_level' = {d \in DeclsOf(ast) : d < q.at}
  /\ \A f \in Meaning(ast).faults : q.at <= f
  /\ \A n \in DOMAIN referent' : referent'[n] = Meaning(ast).referents[n]
  /\ \A d \in DOMAIN nest_level' : nest_level'[d] = Depth(ast, d)

LEMMA WalkFacts ==
  ASSUME WalkInv, stack # << >>
  PROVE  /\ IInv /\ ast \in Programs /\ IsProgram(ast) /\ raised = NoException
         /\ DeclsOf(ast) \subseteq Nat \cap DeclId /\ UsesOf(ast) \subseteq Nat
         /\ \A n \in DeclsOf(ast) \cup UsesOf(ast) : ast[n].name \in Name
         /\ Meaning(ast).faults \subseteq DeclsOf(ast) \cup UsesOf(ast)
         /\ m_table \in Seq(ScopeTable) /\ Len(m_table) = m_nestLevel + 1
         /\ m_nestLevel \in Nat
         /\ WalkedTo(Here) /\ RecordsRight
         /\ Here.at \in Nat
<1>1. IInv /\ ast \in Programs /\ IsProgram(ast) /\ raised = NoException
  BY AtTop DEF WalkInv
<1>2. DOMAIN ast \subseteq Nat /\ DOMAIN ast \subseteq DeclId
  BY <1>1, AroundTyped, ProgramsAssumption
<1>3. DeclsOf(ast) \subseteq Nat \cap DeclId /\ UsesOf(ast) \subseteq Nat
  BY <1>2 DEF DeclsOf, UsesOf
<1>4. \A n \in DeclsOf(ast) \cup UsesOf(ast) : ast[n].name \in Name
  BY <1>1, ProgramsAssumption
<1>5. Meaning(ast).faults \subseteq DeclsOf(ast) \cup UsesOf(ast)
  BY FaultCases
<1>6. m_table \in Seq(ScopeTable) /\ Len(m_table) = m_nestLevel + 1 /\ m_nestLevel \in Nat
  BY <1>1 DEF IInv, TypeOK, TableTypeOK, ScopesBalanced
<1>7. Here.at \in Nat
  <2>1. PICK n : n = Top.node
    OBVIOUS
  <2>2. n \in Nat /\ Top \in TaskOf(ast) /\ n \in DOMAIN ast /\ IsTree(ast)
    BY <1>1, <2>1, AtTop
  <2>3. Top.op \in {"visit", "declare", "exitScope"}
    BY <2>2 DEF TaskOf, SymbolTask, Task
  <2>4. Here = Place(n, Around(ast, n)) \/ Here = Place(n + 1, Around(ast, n)) \/
        Here = Place(n + ast[n].span, Around(ast, n) \cup {n})
    BY <1>1, <2>1, <2>3, AtTop
  <2>5. ast[n].span \in Nat
    BY <2>2, NodeShape
  <2>6. QED
    BY <2>2, <2>4, <2>5 DEF Place
<1>8. QED
  BY <1>1, <1>3, <1>4, <1>5, <1>6, <1>7 DEF WalkInv

LEMMA PassArrives ==
  ASSUME WalkInv, stack # << >>, NEW q, Passes(q)
  PROVE  Arrives(q)
<1>1. PICK p : p = Here
  OBVIOUS
<1>2. /\ DeclsOf(ast) \subseteq Nat /\ UsesOf(ast) \subseteq Nat /\ p.at \in Nat
      /\ Meaning(ast).faults \subseteq DeclsOf(ast) \cup UsesOf(ast)
      /\ WalkedTo(p) /\ RecordsRight
  BY <1>1, WalkFacts
<1>3. /\ UNCHANGED << tableVars, referent, nest_level >> /\ q.open = p.open
      /\ q.at = p.at \/ (q.at = p.at + 1 /\ p.at \notin DeclsOf(ast) \cup UsesOf(ast))
  BY <1>1 DEF Passes, Silent
<1>4. q.at \in Nat /\ p.at <= q.at
  BY <1>2, <1>3
<1>5. \A n \in DeclsOf(ast) \cup UsesOf(ast) : n < q.at <=> n < p.at
  BY <1>2, <1>3
<1>6. PICK scopes : TableOf(ast, m_table, scopes, p)
  BY <1>2 DEF WalkedTo
<1>7. TableOf(ast, m_table, scopes, q)
  BY <1>2, <1>3, <1>4, <1>5, <1>6, TableForward
<1>8. \A f \in Meaning(ast).faults : q.at <= f
  <2>1. \A f \in Meaning(ast).faults : p.at <= f /\ ~ f < p.at /\ f \in Nat
    BY <1>2 DEF WalkedTo
  <2>2. QED
    BY <1>2, <1>4, <1>5, <2>1
<1>9. /\ DOMAIN referent = {n \in UsesOf(ast) : n < q.at}
      /\ DOMAIN nest_level = {d \in DeclsOf(ast) : d < q.at}
  BY <1>2, <1>5 DEF WalkedTo
<1>10. IsFiniteSet(q.open) /\ Cardinality(q.open) = Len(m_table)
  BY <1>2, <1>3 DEF WalkedTo
<1>11. QED
  BY <1>2, <1>3, <1>7, <1>8, <1>9, <1>10 DEF Arrives, RecordsRight, tableVars

LEMMA OpenArrives ==
  ASSUME WalkInv, stack # << >>, NEW q, NEW n \in DOMAIN ast, Opens(n, q)
  PROVE  Arrives(q)
<1>1. PICK p : p = Here
  OBVIOUS
<1>2. /\ DeclsOf(ast) \subseteq Nat /\ UsesOf(ast) \subseteq Nat /\ p.at \in Nat
      /\ Meaning(ast).faults \subseteq DeclsOf(ast) \cup UsesOf(ast)
      /\ WalkedTo(p) /\ RecordsRight /\ IsProgram(ast) /\ m_table \in Seq(ScopeTable)
  BY <1>1, WalkFacts
<1>3. /\ enterScope /\ UNCHANGED << referent, nest_level >>
      /\ q = Place(n + 1, p.open \cup {n}) /\ \A a \in p.open : a < n
      /\ p.at = n + 1 \/ (p.at = n /\ n \notin DeclsOf(ast) \cup UsesOf(ast))
  BY <1>1 DEF Opens, Silent
<1>4. n \in Nat
  BY <1>2, AroundTyped
<1>5. PICK r : r = Place(n + 1, p.open)
  OBVIOUS
<1>6. r.at = n + 1 /\ r.open = p.open /\ q = Place(n + 1, r.open \cup {n})
      /\ q.at = n + 1 /\ q.open = p.open \cup {n}
  BY <1>3, <1>5 DEF Place
<1>7. \A m \in DeclsOf(ast) \cup UsesOf(ast) : m < n + 1 <=> m < p.at
  BY <1>2, <1>3, <1>4
<1>8. PICK scopes : TableOf(ast, m_table, scopes, p)
  BY <1>2 DEF WalkedTo
<1>9. TableOf(ast, m_table, scopes, r)
  <2>1. r.at \in Nat /\ p.at <= r.at
    BY <1>3, <1>4, <1>6
  <2>2. QED
    BY <1>2, <1>6, <1>7, <1>8, <2>1, TableForward
<1>10. TableOf(ast, m_table', Append(scopes, n), q)
  <2>1. TableOf(ast, Append(m_table, [x \in Name |-> nullptr]), Append(scopes, n),
                Place(n + 1, r.open \cup {n}))
    BY <1>2, <1>3, <1>4, <1>6, <1>9, TableExtended
  <2>2. QED
    BY <1>3, <1>6, <2>1 DEF enterScope
<1>11. \A f \in Meaning(ast).faults : n + 1 <= f
  <2>1. \A f \in Meaning(ast).faults : p.at <= f /\ ~ f < p.at /\ f \in Nat
    BY <1>2 DEF WalkedTo
  <2>2. QED
    BY <1>2, <1>4, <1>7, <2>1
<1>12. /\ DOMAIN referent = {m \in UsesOf(ast) : m < n + 1}
       /\ DOMAIN nest_level = {d \in DeclsOf(ast) : d < n + 1}
  BY <1>2, <1>7 DEF WalkedTo
<1>13. IsFiniteSet(q.open) /\ Cardinality(q.open) = Len(m_table')
  <2>1. IsFiniteSet(p.open) /\ Cardinality(p.open) = Len(m_table)
    BY <1>2 DEF WalkedTo
  <2>2. n \notin p.open
    BY <1>3, <1>4
  <2>3. IsFiniteSet(q.open) /\ Cardinality(q.open) = Cardinality(p.open) + 1
    BY <1>6, <2>1, <2>2, FS_AddElement, ZenonT(40)
  <2>4. Len(m_table') = Len(m_table) + 1
    BY <1>2, <1>3 DEF enterScope
  <2>5. QED
    BY <2>1, <2>3, <2>4
<1>14. QED
  BY <1>2, <1>3, <1>6, <1>10, <1>11, <1>12, <1>13 DEF Arrives, RecordsRight

LEMMA CloseArrives ==
  ASSUME WalkInv, stack # << >>, NEW q, NEW n \in DOMAIN ast, Closes(n, q)
  PROVE  Arrives(q)
<1>1. PICK p : p = Here
  OBVIOUS
<1>2. /\ WalkedTo(p) /\ RecordsRight /\ IsProgram(ast) /\ m_table \in Seq(ScopeTable)
  BY <1>1, WalkFacts
<1>3. /\ exitScope /\ UNCHANGED << referent, nest_level >>
      /\ n # 1 /\ 1 \in q.open /\ p = Place(q.at, q.open \cup {n}) /\ \A a \in q.open : a < n
  BY <1>1 DEF Closes
<1>4. p.at = q.at /\ p.open = q.open \cup {n}
  BY <1>3 DEF Place
<1>5. n \in Nat
  BY <1>2, AroundTyped
<1>6. \A a \in q.open : a < n /\ a # n
  BY <1>3, <1>5
<1>7. PICK scopes : TableOf(ast, m_table, scopes, p)
  BY <1>2 DEF WalkedTo
<1>8. Len(m_table) > 1 /\ TableOf(ast, Front(m_table), Front(scopes), q)
  BY <1>2, <1>3, <1>6, <1>7, TableClosed
<1>9. IsFiniteSet(q.open) /\ Cardinality(q.open) = Len(m_table')
  <2>1. IsFiniteSet(p.open) /\ Cardinality(p.open) = Len(m_table)
    BY <1>2 DEF WalkedTo
  <2>2. n \in p.open /\ q.open = p.open \ {n}
    BY <1>4, <1>6
  <2>3. IsFiniteSet(q.open) /\ Cardinality(q.open) = Cardinality(p.open) - 1
    BY <2>1, <2>2, FS_RemoveElement
  <2>4. Len(m_table') = Len(m_table) - 1
    BY <1>2, <1>3, <1>8, FrontParts, EmptySeq DEF exitScope
  <2>5. QED
    BY <2>1, <2>3, <2>4
<1>10. TableOf(ast, m_table', Front(scopes), q)
  BY <1>3, <1>8 DEF exitScope
<1>11. QED
  BY <1>2, <1>3, <1>4, <1>9, <1>10 DEF Arrives, RecordsRight, WalkedTo

LEMMA DeclareArrives ==
  ASSUME WalkInv, stack # << >>, NEW q, NEW d \in DOMAIN ast, Declares(d, q)
  PROVE  Arrives(q) /\ d \notin DOMAIN nest_level
<1>1. PICK p : p = Here
  OBVIOUS
<1>2. /\ DeclsOf(ast) \subseteq Nat \cap DeclId /\ UsesOf(ast) \subseteq Nat
      /\ \A e \in DeclsOf(ast) : ast[e].name \in Name
      /\ Meaning(ast).faults \subseteq DeclsOf(ast) \cup UsesOf(ast)
      /\ WalkedTo(p) /\ RecordsRight /\ IsProgram(ast)
      /\ m_table \in Seq(ScopeTable) /\ Len(m_table) = m_nestLevel + 1 /\ m_nestLevel \in Nat
  BY <1>1, WalkFacts
<1>3. /\ d \in DeclsOf(ast) /\ p = Place(d, Around(ast, d)) /\ q = Place(d + 1, Around(ast, d))
      /\ insert(ast[d].name, d) /\ referent' = referent
      /\ nest_level' = Assigned(nest_level, d, m_nestLevel)
  BY <1>1 DEF Declares
<1>4. d \in Nat /\ d \notin UsesOf(ast) /\ p.at = d /\ p.open = Around(ast, d)
      /\ q.at = d + 1 /\ q.open = Around(ast, d)
  BY <1>2, <1>3 DEF Place, DeclsOf, UsesOf, DeclKinds, UseKinds
<1>5. PICK scopes : TableOf(ast, m_table, scopes, p)
  BY <1>2 DEF WalkedTo
<1>6. PICK k : k = Len(m_table)
  OBVIOUS
<1>7. /\ m_table[k][ast[d].name] = nullptr
      /\ m_table' = [m_table EXCEPT ![k][ast[d].name] = d]
  BY <1>2, <1>3, <1>6 DEF insert, Declared
<1>8. ~ Redeclares(ast, d) /\ TableOf(ast, m_table', scopes, q)
  BY <1>2, <1>3, <1>5, <1>6, <1>7, TableDeclares
<1>9. \A f \in Meaning(ast).faults : d + 1 <= f
  <2>1. \A f \in Meaning(ast).faults : d <= f /\ f \in Nat
    BY <1>2, <1>4 DEF WalkedTo
  <2>2. d \notin Meaning(ast).faults
    BY <1>4, <1>8, FaultCases
  <2>3. QED
    BY <1>4, <2>1, <2>2
<1>10. /\ DOMAIN referent = {n \in UsesOf(ast) : n < d}
       /\ DOMAIN nest_level = {e \in DeclsOf(ast) : e < d}
       /\ IsFiniteSet(p.open) /\ Cardinality(p.open) = Len(m_table)
  BY <1>2, <1>4 DEF WalkedTo
<1>11. DOMAIN referent' = {n \in UsesOf(ast) : n < d + 1}
  BY <1>2, <1>3, <1>4, <1>10
<1>12. /\ DOMAIN nest_level' = DOMAIN nest_level \cup {d} /\ nest_level'[d] = m_nestLevel
       /\ \A e \in DOMAIN nest_level : e # d => nest_level'[e] = nest_level[e]
  <2>1. PICK f : f = Assigned(nest_level, d, m_nestLevel)
    OBVIOUS
  <2>2. /\ DOMAIN f = DOMAIN nest_level \cup {d} /\ f[d] = m_nestLevel
        /\ \A e \in DOMAIN nest_level : e # d => f[e] = nest_level[e]
    BY <2>1 DEF Assigned
  <2>3. nest_level' = f
    BY <1>3, <2>1
  <2>4. QED
    BY <2>2, <2>3
<1>13. DOMAIN nest_level' = {e \in DeclsOf(ast) : e < d + 1}
  BY <1>2, <1>3, <1>4, <1>10, <1>12
<1>14. Depth(ast, d) = m_nestLevel
  <2>1. Around(ast, d) = ScopesAround(ast, d)
    BY <1>2, <1>3, OwnerIsLast, AroundTyped
  <2>2. QED
    BY <1>2, <1>4, <1>10, <2>1 DEF Depth
<1>15. \A e \in DOMAIN nest_level' : nest_level'[e] = Depth(ast, e)
  BY <1>2, <1>12, <1>14 DEF RecordsRight
<1>16. Len(m_table') = Len(m_table)
  BY <1>2, <1>7
<1>17. Arrives(q)
  BY <1>2, <1>3, <1>4, <1>8, <1>9, <1>10, <1>11, <1>13, <1>15, <1>16 DEF Arrives, RecordsRight
<1>18. QED
  BY <1>4, <1>10, <1>17

LEMMA LinkArrives ==
  ASSUME WalkInv, stack # << >>, NEW q, NEW n \in DOMAIN ast, Links(n, q)
  PROVE  /\ Arrives(q)
         /\ n \in UsesOf(ast) \ DOMAIN referent
         /\ Meaning(ast).referents[n] = lookup(ast[n].name)
         /\ \A f \in Meaning(ast).faults : n < f
<1>1. PICK p : p = Here
  OBVIOUS
<1>2. /\ DeclsOf(ast) \subseteq Nat \cap DeclId /\ UsesOf(ast) \subseteq Nat
      /\ \A e \in UsesOf(ast) : ast[e].name \in Name
      /\ Meaning(ast).faults \subseteq DeclsOf(ast) \cup UsesOf(ast)
      /\ WalkedTo(p) /\ RecordsRight /\ IsProgram(ast)
  BY <1>1, WalkFacts
<1>3. PICK x : x = ast[n].name
  OBVIOUS
<1>4. /\ n \in UsesOf(ast) /\ p = Place(n, Around(ast, n)) /\ q = Place(n + 1, Around(ast, n))
      /\ lookup(x) # nullptr /\ referent' = Assigned(referent, n, lookup(x))
      /\ UNCHANGED << m_table, nest_level >>
  BY <1>1, <1>3 DEF Links, tableVars
<1>5. n \in Nat /\ n \notin DeclsOf(ast) /\ p.at = n /\ p.open = Around(ast, n)
      /\ q.at = n + 1 /\ q.open = Around(ast, n) /\ x \in Name
  BY <1>2, <1>3, <1>4 DEF Place, DeclsOf, UsesOf, DeclKinds, UseKinds
<1>6. PICK scopes : TableOf(ast, m_table, scopes, p)
  BY <1>2 DEF WalkedTo
<1>7. lookup(x) = Meaning(ast).referents[n]
  BY <1>2, <1>3, <1>4, <1>5, <1>6, LookupIsMeaning DEF lookup
<1>8. \A f \in Meaning(ast).faults : n + 1 <= f /\ n < f
  <2>1. \A f \in Meaning(ast).faults : n <= f /\ f \in Nat
    BY <1>2, <1>5 DEF WalkedTo
  <2>2. n \notin Meaning(ast).faults
    BY <1>4, <1>5, <1>7, FaultCases
  <2>3. QED
    BY <1>5, <2>1, <2>2
<1>9. /\ DOMAIN referent = {m \in UsesOf(ast) : m < n}
      /\ DOMAIN nest_level = {e \in DeclsOf(ast) : e < n}
      /\ IsFiniteSet(p.open) /\ Cardinality(p.open) = Len(m_table)
  BY <1>2, <1>5 DEF WalkedTo
<1>10. DOMAIN nest_level' = {e \in DeclsOf(ast) : e < n + 1}
  BY <1>2, <1>4, <1>5, <1>9
<1>11. /\ DOMAIN referent' = DOMAIN referent \cup {n} /\ referent'[n] = lookup(x)
       /\ \A e \in DOMAIN referent : e # n => referent'[e] = referent[e]
  <2>1. PICK f : f = Assigned(referent, n, lookup(x))
    OBVIOUS
  <2>2. /\ DOMAIN f = DOMAIN referent \cup {n} /\ f[n] = lookup(x)
        /\ \A e \in DOMAIN referent : e # n => f[e] = referent[e]
    BY <2>1 DEF Assigned
  <2>3. referent' = f
    BY <1>4, <2>1
  <2>4. QED
    BY <2>2, <2>3
<1>12. DOMAIN referent' = {m \in UsesOf(ast) : m < n + 1}
  BY <1>2, <1>4, <1>5, <1>9, <1>11
<1>13. \A m \in DOMAIN referent' : referent'[m] = Meaning(ast).referents[m]
  BY <1>2, <1>7, <1>11 DEF RecordsRight
<1>14. TableOf(ast, m_table, scopes, q)
  <2>1. \A d \in DeclsOf(ast) : d < q.at => d < p.at
    BY <1>2, <1>5
  <2>2. q.open = p.open /\ p.at \in Nat /\ q.at \in Nat /\ p.at <= q.at /\ DeclsOf(ast) \subseteq Nat
    BY <1>2, <1>5
  <2>3. QED
    BY <1>6, <2>1, <2>2, TableForward
<1>15. Arrives(q)
  BY <1>2, <1>4, <1>5, <1>8, <1>9, <1>10, <1>12, <1>13, <1>14 DEF Arrives, RecordsRight
<1>16. QED
  BY <1>3, <1>4, <1>5, <1>7, <1>8, <1>9, <1>15

(***************************************************************************)
(* The invariant of the walk.                                              *)
(***************************************************************************)
LEMMA BuiltinsOnce ==
  ASSUME NEW x
  PROVE  BuiltinCalled(x) = BuiltinNamed(x)
<1> DEFINE named == {b \in BuiltinDecls : g_builtins[-b].name = x}
<1>1. \A b, c \in named : b = c
  BY DEF BuiltinDecls, g_builtins
<1>2. CASE named = {}
  BY <1>2 DEF BuiltinCalled, BuiltinNamed
<1>3. CASE named # {}
  <2>1. PICK b : b \in named
    BY <1>3
  <2>2. named = {b} /\ b \in Int
    BY <1>1, <2>1 DEF BuiltinDecls
  <2>3. Min(named) = b
    BY <2>2 DEF Min
  <2>4. BuiltinCalled(x) = b
    BY <1>1, <2>1 DEF BuiltinCalled
  <2>5. QED
    BY <1>3, <2>3, <2>4 DEF BuiltinNamed
<1>4. QED
  BY <1>2, <1>3

LEMMA FirstTable ==
  ASSUME NEW t, DeclsOf(t) \subseteq Nat \ {0}
  PROVE  TableOf(t, << BuiltinScope >>, << 1 >>, Place(1, {1}))
<1>1. PICK table : table = << BuiltinScope >>
  OBVIOUS
<1>2. PICK scopes : scopes = << 1 >>
  OBVIOUS
<1>3. Len(table) = 1 /\ 1 .. 1 = {1} /\ table[1] = BuiltinScope
  BY <1>1
<1>4. scopes \in Seq(Nat) /\ Len(scopes) = 1 /\ scopes[1] = 1
  BY <1>2
<1>5. \A x \in Name : table[1][x] = BuiltinNamed(x)
  BY <1>3, BuiltinsOnce DEF BuiltinScope
<1>6. InDepthOrder(table, scopes, {1})
  BY <1>3, <1>4 DEF InDepthOrder
<1>7. HoldsDeclared(t, table, scopes, 1)
  <2>1. \A d \in DeclsOf(t) : ~ d < 1
    OBVIOUS
  <2>2. QED
    BY <2>1 DEF HoldsDeclared
<1>8. HoldsNoMore(t, table, scopes, 1)
  BY <1>3, <1>5 DEF HoldsNoMore
<1>9. HoldsBuiltins(table)
  BY <1>5 DEF HoldsBuiltins
<1>10. QED
  BY <1>1, <1>2, <1>6, <1>7, <1>8, <1>9 DEF TableOf, Place

LEMMA InitWalk == Init => WalkInv
<1> SUFFICES ASSUME Init PROVE WalkInv
  OBVIOUS
<1>1. IInv /\ ast \in Programs
  BY InitInv DEF Init
<1>2. /\ IsProgram(ast) /\ IsTree(ast) /\ DOMAIN ast = 1 .. Len(ast) /\ Len(ast) \in Nat
      /\ 1 \in DOMAIN ast /\ ast[1].kind = "Program" /\ ast[1].span = Len(ast)
  BY <1>1, ProgramsAssumption, NodesOfTree DEF IsProgram, IsTree
<1>3. stack # << >> /\ Len(stack) = 1 /\ stack[1] = Visit(1) /\ Top = stack[1]
  BY DEF Init, Top, Last
<1>4. Top.node = 1 /\ Top.op = "visit"
  BY <1>3 DEF Visit
<1>5. 1 \notin DeclsOf(ast)
  BY <1>2 DEF DeclsOf, DeclKinds
<1>6. Around(ast, 1) = {1}
  <2>1. ScopesAround(ast, 1) = {}
    BY DEF ScopesAround
  <2>2. QED
    BY <2>1 DEF Around
<1>7. Here = Place(1, {1}) /\ Top \in TaskOf(ast)
  BY <1>1, <1>3, <1>4, <1>5, <1>6, AtTop
<1>8. Chained(stack, Begins(ast), Leaves(ast), Place(1, {1}), End(ast))
  <2>1. Leaves(ast)[Top] = End(ast)
    <3>1. Leaves(ast)[Top] = Place(Top.node + ast[Top.node].span, Around(ast, Top.node))
      BY <1>7 DEF Leaves
    <3>2. Top.node + ast[Top.node].span = Len(ast) + 1
      BY <1>2, <1>4
    <3>3. QED
      BY <1>4, <1>6, <3>1, <3>2 DEF End
  <2>2. Begins(ast)[Top] = Place(1, {1})
    BY <1>3, <1>7 DEF Here
  <2>3. 2 .. Len(stack) = {}
    BY <1>3
  <2>4. QED
    BY <1>3, <2>1, <2>2, <2>3 DEF Chained
<1>9. DeclsOf(ast) \subseteq Nat \ {0} /\ UsesOf(ast) \subseteq Nat \ {0}
  BY <1>2 DEF DeclsOf, UsesOf
<1>10. Meaning(ast).faults \subseteq Nat \ {0}
  BY <1>9, FaultCases
<1>11. m_table = << BuiltinScope >> /\ DOMAIN referent = {} /\ DOMAIN nest_level = {}
  BY DEF Init, TableInit
<1>12. PICK p : p = Place(1, {1})
  OBVIOUS
<1>13. p.at = 1 /\ p.open = {1}
  BY <1>12 DEF Place
<1>14. IsFiniteSet(p.open) /\ Cardinality(p.open) = Len(m_table)
  <2>1. Len(m_table) = 1
    BY <1>11
  <2>2. QED
    BY <1>13, <2>1, FS_Singleton
<1>15. \E scopes : TableOf(ast, m_table, scopes, p)
  BY <1>9, <1>11, <1>12, FirstTable
<1>16. WalkedTo(p)
  <2>1. \A f \in Meaning(ast).faults : p.at <= f
    BY <1>10, <1>13
  <2>2. {n \in UsesOf(ast) : n < p.at} = {} /\ {d \in DeclsOf(ast) : d < p.at} = {}
    BY <1>9, <1>13
  <2>3. QED
    BY <1>8, <1>11, <1>12, <1>14, <1>15, <2>1, <2>2 DEF WalkedTo
<1>17. RecordsRight
  BY <1>11 DEF RecordsRight
<1>18. QED
  BY <1>1, <1>7, <1>12, <1>16, <1>17 DEF WalkInv

\* Every step has the shape of a move or of a throw.
LEMMA MoveFacts ==
  ASSUME WalkInv, NEW q, Moves(q)
  PROVE  /\ stack # << >> /\ ast' = ast /\ raised' = raised /\ raised = NoException
         /\ Here' = q /\ Arrives(q)
         /\ Chained(stack', Begins(ast), Leaves(ast), q, End(ast))
<1>1. stack # << >> /\ ast' = ast
  BY DEF Moves, Steps
<1>2. WalkedTo(Here) /\ raised = NoException /\ IInv
  BY <1>1, WalkFacts
<1>3. PICK tasks \in Seq(TaskOf(ast)) :
        Continue(tasks) /\ Leads(tasks, Begins(ast), Leaves(ast), q)
  BY DEF Moves, Steps
<1>4. stack \in Seq(TaskOf(ast))
  BY <1>2 DEF IInv
<1>5. Chained(stack, Begins(ast), Leaves(ast), Here, End(ast))
  BY <1>2 DEF WalkedTo
<1>6. Chained(stack', Begins(ast), Leaves(ast), q, End(ast))
  BY <1>1, <1>3, <1>4, <1>5, ContextStep
<1>7. Here' = q
  <2>1. CASE stack' = << >>
    BY <1>1, <1>6, <2>1 DEF Chained, Here
  <2>2. CASE stack' # << >>
    <3>1. Begins(ast)[stack'[Len(stack')]] = q
      BY <1>6, <2>2 DEF Chained
    <3>2. Top' = stack'[Len(stack')]
      BY DEF Top, Last
    <3>3. Here' = Begins(ast)[Top']
      BY <1>1, <2>2 DEF Here
    <3>4. QED
      BY <3>1, <3>2, <3>3
  <2>3. QED
    BY <2>1, <2>2
<1>8. Arrives(q)
  <2>1. Passes(q) \/ \E n \in DOMAIN ast : Opens(n, q) \/ Closes(n, q) \/ Declares(n, q) \/ Links(n, q)
    BY DEF Moves
  <2>2. CASE Passes(q)
    BY <1>1, <2>2, PassArrives
  <2>3. ASSUME NEW n \in DOMAIN ast, Opens(n, q) \/ Closes(n, q) \/ Declares(n, q) \/ Links(n, q)
        PROVE  Arrives(q)
    <3>1. CASE Opens(n, q)
      BY <1>1, <3>1, OpenArrives
    <3>2. CASE Closes(n, q)
      BY <1>1, <3>2, CloseArrives
    <3>3. CASE Declares(n, q)
      BY <1>1, <3>3, DeclareArrives
    <3>4. CASE Links(n, q)
      BY <1>1, <3>4, LinkArrives
    <3>5. QED
      BY <2>3, <3>1, <3>2, <3>3, <3>4
  <2>4. QED
    BY <2>1, <2>2, <2>3
<1>9. raised' = raised
  BY DEF Moves, Passes, Opens, Closes, Declares, Links
<1>10. QED
  BY <1>1, <1>2, <1>6, <1>7, <1>8, <1>9

LEMMA NextWalk == WalkInv /\ [Next]_vars => WalkInv'
<1> SUFFICES ASSUME WalkInv, [Next]_vars PROVE WalkInv'
  OBVIOUS
<1>1. IInv'
  BY NextInv DEF WalkInv
<1>2. CASE UNCHANGED vars
  <2>1. PICK p : p = Here
    OBVIOUS
  <2>2. Here' = p
    BY <1>2, <2>1 DEF vars, Here, Top
  <2>3. RecordsRight'
    BY <1>2 DEF vars, WalkInv, RecordsRight
  <2>4. raised' = NoException => WalkedTo(p)'
    <3>1. raised = NoException => WalkedTo(p)
      BY <2>1 DEF WalkInv
    <3>2. UNCHANGED << m_table, ast, stack, referent, nest_level, raised >>
      BY <1>2 DEF vars
    <3>3. QED
      BY <3>1, <3>2 DEF WalkedTo
  <2>5. QED
    BY <1>1, <2>2, <2>3, <2>4 DEF WalkInv
<1>3. ASSUME NEW q, Moves(q) PROVE WalkInv'
  <2>1. /\ ast' = ast /\ Here' = q /\ Arrives(q)
        /\ Chained(stack', Begins(ast), Leaves(ast), q, End(ast))
    BY <1>3, MoveFacts
  <2>2. RecordsRight'
    BY <2>1 DEF Arrives, RecordsRight
  <2>3. WalkedTo(q)'
    BY <2>1 DEF Arrives, WalkedTo
  <2>4. QED
    BY <1>1, <2>1, <2>2, <2>3 DEF WalkInv
<1>4. ASSUME NEW n \in DOMAIN ast, Throws(n) PROVE WalkInv'
  <2>1. raised' # NoException /\ UNCHANGED << ast, referent, nest_level >>
    BY <1>4 DEF Throws
  <2>2. RecordsRight'
    BY <2>1 DEF WalkInv, RecordsRight
  <2>3. QED
    BY <1>1, <2>1, <2>2 DEF WalkInv
<1>5. QED
  BY <1>2, <1>3, <1>4, EveryStepMoves DEF WalkInv

LEMMA WalkHolds == Spec => []WalkInv
  BY InitWalk, NextWalk, PTL DEF Spec

(***************************************************************************)
(* The scope rules as module StaticScoping has them are the same.          *)
(***************************************************************************)
LEMMA SameDepth ==
  ASSUME NEW t, NEW d
  PROVE  Scoping!Depth(t, d) = Depth(t, d)
<1>1. Scoping!ScopesAround(t, d) = ScopesAround(t, d)
  BY DEF ScopesAround, Scoping!ScopesAround, OpensScope, Scoping!OpensScope, Within, Scoping!Within
<1>2. QED
  BY <1>1 DEF Depth, Scoping!Depth, Cardinality, Scoping!Cardinality

LEMMA SameOwner ==
  ASSUME NEW t, NEW d
  PROVE  Scoping!Owner(t, d) = Owner(t, d)
<1>1. Scoping!ScopesAround(t, d) = ScopesAround(t, d)
  BY DEF ScopesAround, Scoping!ScopesAround, OpensScope, Scoping!OpensScope, Within, Scoping!Within
<1>2. QED
  BY <1>1 DEF Owner, Scoping!Owner, Max, Scoping!Max

LEMMA SameBuiltin ==
  ASSUME NEW x
  PROVE  Scoping!BuiltinNamed(x) = BuiltinNamed(x)
<1> DEFINE named == {b \in BuiltinDecls : g_builtins[-b].name = x}
           same == {b \in Scoping!BuiltinDecls : Scoping!g_builtins[-b].name = x}
<1>1. same = named
  BY DEF BuiltinDecls, Scoping!BuiltinDecls, g_builtins, Scoping!g_builtins
<1>2. /\ BuiltinNamed(x) = IF named = {} THEN 0 ELSE Min(named)
      /\ Scoping!BuiltinNamed(x) = IF same = {} THEN 0 ELSE Scoping!Min(same)
  BY DEF BuiltinNamed, Scoping!BuiltinNamed, nullptr, Scoping!nullptr
<1> HIDE DEF named, same
<1>3. Scoping!Min(same) = Min(named)
  BY <1>1 DEF Min, Scoping!Min
<1>4. QED
  BY <1>1, <1>2, <1>3

LEMMA SameMeaning ==
  ASSUME NEW t
  PROVE  Scoping!Meaning(t) = Meaning(t)
<1>1. Scoping!DeclsOf(t) = DeclsOf(t) /\ Scoping!UsesOf(t) = UsesOf(t)
  BY DEF DeclsOf, UsesOf, DeclKinds, UseKinds,
         Scoping!DeclsOf, Scoping!UsesOf, Scoping!DeclKinds, Scoping!UseKinds
<1> DEFINE owner == [d \in DeclsOf(t) |-> Owner(t, d)]
           same == [d \in Scoping!DeclsOf(t) |-> Scoping!Owner(t, d)]
           Held(n) == {d \in DeclsOf(t) : /\ d < n
                                          /\ t[d].name = t[n].name
                                          /\ Within(t, n, owner[d])}
           SameHeld(n) == {d \in Scoping!DeclsOf(t) : /\ d < n
                                                      /\ t[d].name = t[n].name
                                                      /\ Scoping!Within(t, n, same[d])}
           Inmost(ds) == CHOOSE d \in ds : \A e \in ds : owner[e] <= owner[d]
           SameInmost(ds) == CHOOSE d \in ds : \A e \in ds : same[e] <= same[d]
           Again(d) == \/ \E e \in DeclsOf(t) : /\ e < d
                                                /\ t[e].name = t[d].name
                                                /\ owner[e] = owner[d]
                       \/ owner[d] = 1 /\ BuiltinNamed(t[d].name) # nullptr
           SameAgain(d) == \/ \E e \in Scoping!DeclsOf(t) : /\ e < d
                                                            /\ t[e].name = t[d].name
                                                            /\ same[e] = same[d]
                           \/ same[d] = 1 /\ Scoping!BuiltinNamed(t[d].name) # Scoping!nullptr
           refs == [n \in UsesOf(t) |-> IF Held(n) = {} THEN BuiltinNamed(t[n].name)
                                                       ELSE Inmost(Held(n))]
           sameRefs == [n \in Scoping!UsesOf(t) |->
                          IF SameHeld(n) = {} THEN Scoping!BuiltinNamed(t[n].name)
                                              ELSE SameInmost(SameHeld(n))]
           wrong == {d \in DeclsOf(t) : Again(d)} \cup {n \in UsesOf(t) : refs[n] = nullptr}
           sameWrong == {d \in Scoping!DeclsOf(t) : SameAgain(d)} \cup
                        {n \in Scoping!UsesOf(t) : sameRefs[n] = Scoping!nullptr}
<1>2. Meaning(t) = [referents |-> refs, faults |-> wrong]
  BY DEF Meaning
<1>3. Scoping!Meaning(t) = [referents |-> sameRefs, faults |-> sameWrong]
  BY DEF Scoping!Meaning
<1>4. same = owner
  BY <1>1, SameOwner
<1>5. \A ds : SameInmost(ds) = Inmost(ds)
  BY <1>4
<1> HIDE DEF owner, same, Inmost, SameInmost
<1>6. \A n : SameHeld(n) = Held(n)
  BY <1>1, <1>4 DEF Within, Scoping!Within
<1> HIDE DEF Held, SameHeld
<1>7. sameRefs = refs
  BY <1>1, <1>5, <1>6, SameBuiltin
<1> HIDE DEF refs, sameRefs
<1>8. Scoping!nullptr = nullptr
  BY DEF nullptr, Scoping!nullptr
<1>9. \A d : SameAgain(d) <=> Again(d)
  BY <1>1, <1>4, <1>8, SameBuiltin
<1> HIDE DEF Again, SameAgain
<1>10. sameWrong = wrong
  BY <1>1, <1>7, <1>8, <1>9
<1> HIDE DEF wrong, sameWrong
<1>11. QED
  BY <1>2, <1>3, <1>7, <1>10

\* A use stands in a function.
LEMMA UsesInFunctions ==
  ASSUME NEW t, IsProgram(t), NEW n \in UsesOf(t)
  PROVE  Around(t, n) # {1}
<1>1. /\ n \in DOMAIN t /\ n # 1 /\ n \in Nat /\ IsTree(t) /\ 1 \in DOMAIN t
      /\ t[1].kind = "Program" /\ t[n].kind \in UseKinds
  <2>1. n \in DOMAIN t /\ n # 1
    BY DEF UsesOf, UseKinds, IsProgram
  <2>2. QED
    BY <2>1, AroundTyped DEF UsesOf, IsProgram, IsTree
<1>2. Within(t, n, 1)
  BY <1>1, NodeShape DEF IsProgram, IsTree, Within
<1>3. PICK i \in 1 .. Len(t[1].kids) : Within(t, n, Kid(t, 1, i))
  BY <1>1, <1>2, KidsCover
<1>4. PICK f : f = Kid(t, 1, i)
  OBVIOUS
<1>5. f \in DOMAIN t /\ 1 < f /\ f \in Nat /\ t[f].kind \in {"Variable", "Array", "Function"}
  <2>1. KidsFit(t, 1)
    BY <1>1, NodeShape
  <2>2. t[f].kind \in {"Variable", "Array", "Function"}
    BY <1>1, <1>4, <2>1 DEF KidsFit
  <2>3. f \in DOMAIN t /\ 1 < f
    BY <1>1, <1>4, NodeShape, KidsInside
  <2>4. QED
    BY <2>2, <2>3, AroundTyped
<1>6. t[f].kind = "Function" /\ f # n
  <2>1. n # f
    BY <1>1, <1>5 DEF UseKinds
  <2>2. PICK j \in 1 .. Len(t[f].kids) : Within(t, n, Kid(t, f, j))
    BY <1>1, <1>3, <1>4, <1>5, <2>1, KidsCover
  <2>3. Len(t[f].kids) # 0
    BY <2>2
  <2>4. QED
    BY <1>1, <1>5, <2>1, <2>3, KidCounts
<1>7. f \in Around(t, n)
  BY <1>1, <1>3, <1>4, <1>5, <1>6, AroundTyped DEF OpensScope
<1>8. QED
  BY <1>5, <1>7

\* Where the pass throws, the rules are broken for the first time.
LEMMA ThrowsAtFault ==
  ASSUME WalkInv, NEW n \in DOMAIN ast, Throws(n)
  PROVE  /\ n \in Meaning(ast).faults
         /\ \A f \in Meaning(ast).faults : n <= f
         /\ DOMAIN referent = {m \in UsesOf(ast) : m < n}
<1>1. PICK p : p = Here
  OBVIOUS
<1>2. /\ DeclsOf(ast) \subseteq Nat \cap DeclId /\ UsesOf(ast) \subseteq Nat
      /\ \A e \in DeclsOf(ast) \cup UsesOf(ast) : ast[e].name \in Name
      /\ WalkedTo(p) /\ IsProgram(ast)
      /\ m_table \in Seq(ScopeTable) /\ Len(m_table) = m_nestLevel + 1 /\ m_nestLevel \in Nat
  <2>1. stack # << >>
    BY DEF Throws
  <2>2. QED
    BY <1>1, <2>1, WalkFacts
<1>3. /\ p = Place(n, Around(ast, n))
      /\ \/ n \in DeclsOf(ast) /\ Declared(ast[n].name)
         \/ n \in UsesOf(ast) /\ lookup(ast[n].name) = nullptr
  BY <1>1 DEF Throws
<1>4. p.at = n /\ p.open = Around(ast, n)
  BY <1>3 DEF Place
<1>5. PICK x : x = ast[n].name
  OBVIOUS
<1>6. PICK scopes : TableOf(ast, m_table, scopes, p)
  BY <1>2 DEF WalkedTo
<1>7. ASSUME n \in UsesOf(ast), lookup(x) = nullptr PROVE n \in Meaning(ast).faults
  <2>1. LookupFrom(m_table, x, Len(m_table)) = Meaning(ast).referents[n]
    BY <1>2, <1>3, <1>5, <1>6, <1>7, LookupIsMeaning
  <2>2. QED
    BY <1>7, <2>1, FaultCases DEF lookup
<1>8. ASSUME n \in DeclsOf(ast), Declared(x) PROVE n \in Meaning(ast).faults
  <2>1. PICK k : k = Len(m_table)
    OBVIOUS
  <2>2. k \in 1 .. Len(m_table) /\ m_table[k][x] # nullptr /\ x \in Name
    BY <1>2, <1>5, <1>8, <2>1 DEF Declared
  <2>3. /\ InDepthOrder(m_table, scopes, Around(ast, n))
        /\ HoldsNoMore(ast, m_table, scopes, n)
    BY <1>4, <1>6 DEF TableOf
  <2>4. Owner(ast, n) = scopes[k]
    BY <1>2, <1>8, <2>1, <2>3, OwnerOpen
  <2>5. PICK e : e = m_table[k][x]
    OBVIOUS
  <2>6. \/ e \in DeclsOf(ast) /\ e < n /\ Owner(ast, e) = scopes[k] /\ ast[e].name = x
        \/ k = 1 /\ e = BuiltinNamed(x)
    BY <2>2, <2>3, <2>5 DEF HoldsNoMore
  <2>7. scopes[1] = 1
    BY <2>3 DEF InDepthOrder
  <2>8. Redeclares(ast, n)
    BY <1>5, <2>2, <2>4, <2>5, <2>6, <2>7 DEF Redeclares
  <2>9. QED
    BY <1>8, <2>8, FaultCases
<1>9. n \in Meaning(ast).faults
  BY <1>3, <1>5, <1>7, <1>8
<1>10. /\ \A f \in Meaning(ast).faults : n <= f
       /\ DOMAIN referent = {m \in UsesOf(ast) : m < n}
  BY <1>2, <1>4 DEF WalkedTo
<1>11. QED
  BY <1>9, <1>10

(***************************************************************************)
(* The pass refines the scope rules.                                       *)
(***************************************************************************)
Verdict == IF raised # NoException
           THEN [verdict |-> "rejected", at |-> raised.node]
           ELSE IF stack = << >>
                THEN [verdict |-> "linked", at |-> 0]
                ELSE [verdict |-> "open", at |-> 0]

LEMMA InitRefinesScoping == Init => Scoping!Init
<1> SUFFICES ASSUME Init PROVE Scoping!Init
  OBVIOUS
<1>1. raised = NoException /\ stack # << >>
  BY DEF Init
<1>2. Verdict = Scoping!Open
  BY <1>1 DEF Verdict, Scoping!Open
<1>3. ast \in Programs /\ referent = << >>
  BY DEF Init
<1>4. QED
  BY <1>2, <1>3 DEF Scoping!Init, Verdict

LEMMA LinkRefines ==
  ASSUME WalkInv, NEW n \in DOMAIN ast, NEW q, Moves(q), Links(n, q)
  PROVE  Scoping!Next
<1>1. PICK m : m = Meaning(ast)
  OBVIOUS
<1>2. PICK v : v = lookup(ast[n].name)
  OBVIOUS
<1>3. /\ stack # << >> /\ ast' = ast /\ raised' = raised /\ raised = NoException
      /\ Chained(stack', Begins(ast), Leaves(ast), q, End(ast)) /\ IsProgram(ast)
  BY MoveFacts, WalkFacts
<1>4. /\ n \in UsesOf(ast) \ DOMAIN referent /\ m.referents[n] = v
      /\ \A f \in m.faults : n < f
  BY <1>1, <1>2, <1>3, LinkArrives
<1>5. referent' = Assigned(referent, n, v) /\ q.open = Around(ast, n)
  BY <1>2 DEF Links, Place
<1>6. stack' # << >>
  BY <1>3, <1>4, <1>5, UsesInFunctions DEF Chained, End, Place
<1>7. Verdict = Scoping!Open /\ Verdict' = Scoping!Open
  BY <1>3, <1>6 DEF Verdict, Scoping!Open
<1>8. n \in Scoping!Linkable(m)
  <2>1. DOMAIN m.referents = UsesOf(ast)
    BY <1>1, <1>4, ReferentCases
  <2>2. QED
    BY <1>4, <2>1 DEF Scoping!Linkable
<1>9. referent' = [k \in {n} \cup DOMAIN referent |-> IF k = n THEN m.referents[n] ELSE referent[k]]
  BY <1>4, <1>5 DEF Assigned
<1>10. stack' # << >> => UNCHANGED << ast, Verdict >>
  BY <1>3, <1>7
<1>11. DOMAIN referent' = DOMAIN referent \cup {n}
  BY <1>9
<1>12. Scoping!Link(n)
  BY <1>1, <1>6, <1>7, <1>8, <1>9, <1>10, <1>11, SameMeaning DEF Scoping!Link, Verdict
<1>13. Scoping!UsesOf(ast) = UsesOf(ast)
  BY DEF UsesOf, UseKinds, Scoping!UsesOf, Scoping!UseKinds
<1>14. QED
  BY <1>4, <1>12, <1>13 DEF Scoping!Next

LEMMA AcceptRefines ==
  ASSUME WalkInv, NEW q, Moves(q), referent' = referent, stack' = << >>
  PROVE  Scoping!Accept
<1>1. PICK m : m = Meaning(ast)
  OBVIOUS
<1>2. PICK e : e = Len(ast) + 1
  OBVIOUS
<1>3. /\ stack # << >> /\ ast' = ast /\ raised' = raised /\ raised = NoException
      /\ Chained(stack', Begins(ast), Leaves(ast), q, End(ast)) /\ Arrives(q)
      /\ ast \in Programs /\ m.faults \subseteq DeclsOf(ast) \cup UsesOf(ast)
  BY <1>1, MoveFacts, WalkFacts
<1>4. q.at = e
  BY <1>2, <1>3 DEF Chained, End, Place
<1>5. \A k \in DeclsOf(ast) \cup UsesOf(ast) : k < e /\ ~ e <= k
  <2>1. DOMAIN ast = 1 .. Len(ast) /\ Len(ast) \in Nat
    BY <1>3, NodesOfTree
  <2>2. \A k \in DOMAIN ast : k < e /\ ~ e <= k
    BY <1>2, <2>1
  <2>3. QED
    BY <2>2 DEF DeclsOf, UsesOf
<1>6. m.faults = {}
  BY <1>1, <1>3, <1>4, <1>5 DEF Arrives
<1>7. DOMAIN referent = UsesOf(ast)
  BY <1>3, <1>4, <1>5 DEF Arrives
<1>8. Scoping!Linkable(m) = UsesOf(ast)
  <2>1. DOMAIN m.referents = UsesOf(ast)
    BY <1>1 DEF Meaning
  <2>2. QED
    BY <1>6, <2>1 DEF Scoping!Linkable
<1>9. Verdict = Scoping!Open /\ Verdict' = [verdict |-> "linked", at |-> 0]
  BY <1>3 DEF Verdict, Scoping!Open
<1>10. QED
  BY <1>1, <1>3, <1>6, <1>7, <1>8, <1>9, SameMeaning DEF Scoping!Accept, Verdict

LEMMA RejectRefines ==
  ASSUME WalkInv, NEW n \in DOMAIN ast, Throws(n)
  PROVE  Scoping!Reject
<1>1. PICK m : m = Meaning(ast)
  OBVIOUS
<1>2. /\ stack # << >> /\ UNCHANGED << ast, referent >>
      /\ raised' # NoException /\ raised'.node = n
  BY DEF Throws
<1>3. /\ raised = NoException /\ IsProgram(ast)
      /\ m.faults \subseteq DeclsOf(ast) \cup UsesOf(ast)
      /\ DeclsOf(ast) \subseteq Nat /\ UsesOf(ast) \subseteq Nat
  BY <1>1, <1>2, WalkFacts
<1>4. /\ n \in m.faults /\ \A f \in m.faults : n <= f
      /\ DOMAIN referent = {k \in UsesOf(ast) : k < n}
  BY <1>1, ThrowsAtFault
<1>5. m.faults \subseteq Nat
  BY <1>3
<1>6. Scoping!Min(m.faults) = n
  <2>1. \A k \in m.faults : (\A f \in m.faults : k <= f) => k = n
    BY <1>4, <1>5
  <2>2. QED
    BY <1>4, <2>1 DEF Scoping!Min
<1>7. DOMAIN referent = Scoping!Linkable(m)
  <2>1. DOMAIN m.referents = UsesOf(ast)
    BY <1>1 DEF Meaning
  <2>2. \A k \in UsesOf(ast) : k < n <=> \A f \in m.faults : k < f
    BY <1>3, <1>4, <1>5
  <2>3. QED
    BY <1>4, <2>1, <2>2 DEF Scoping!Linkable
<1>8. Verdict = Scoping!Open /\ Verdict' = [verdict |-> "rejected", at |-> n]
  BY <1>2, <1>3 DEF Verdict, Scoping!Open, NoException
<1>9. QED
  BY <1>1, <1>2, <1>4, <1>6, <1>7, <1>8, SameMeaning DEF Scoping!Reject, Verdict

LEMMA StepRefinesScoping == WalkInv /\ [Next]_vars => [Scoping!Next]_Scoping!vars
<1> SUFFICES ASSUME WalkInv, [Next]_vars
             PROVE  Scoping!Next \/ UNCHANGED << ast, referent, Verdict >>
  BY DEF Scoping!vars, Verdict
<1>1. CASE UNCHANGED vars
  BY <1>1 DEF vars, Verdict
<1>2. ASSUME NEW n \in DOMAIN ast, Throws(n) PROVE Scoping!Next
  BY <1>2, RejectRefines DEF Scoping!Next
<1>3. ASSUME NEW q, Moves(q) PROVE Scoping!Next \/ UNCHANGED << ast, referent, Verdict >>
  <2>1. CASE \E n \in DOMAIN ast : Links(n, q)
    BY <1>3, <2>1, LinkRefines
  <2>2. CASE ~ \E n \in DOMAIN ast : Links(n, q)
    <3>1. referent' = referent
      BY <1>3, <2>2 DEF Moves, Passes, Opens, Closes, Declares
    <3>2. CASE stack' = << >>
      BY <1>3, <3>1, <3>2, AcceptRefines DEF Scoping!Next
    <3>3. CASE stack' # << >>
      <4>1. ast' = ast /\ raised' = raised /\ stack # << >>
        BY <1>3, MoveFacts
      <4>2. QED
        BY <3>1, <3>3, <4>1 DEF Verdict
    <3>4. QED
      BY <3>2, <3>3
  <2>3. QED
    BY <2>1, <2>2
<1>4. QED
  BY <1>1, <1>2, <1>3, EveryStepMoves DEF WalkInv

LEMMA StepKeepsLinks == WalkInv /\ [Next]_vars => KeepLinks
<1> SUFFICES ASSUME WalkInv, [Next]_vars PROVE KeepLinks
  OBVIOUS
<1>1. CASE referent' = referent /\ nest_level' = nest_level
  BY <1>1 DEF KeepLinks
<1>2. ASSUME NEW q, NEW d \in DOMAIN ast, Moves(q), Declares(d, q) PROVE KeepLinks
  <2>1. d \notin DOMAIN nest_level
    BY <1>2, MoveFacts, DeclareArrives
  <2>2. referent' = referent /\ nest_level' = Assigned(nest_level, d, m_nestLevel)
    BY <1>2 DEF Declares
  <2>3. PICK f : f = Assigned(nest_level, d, m_nestLevel)
    OBVIOUS
  <2>4. \A k \in DOMAIN nest_level : k \in DOMAIN f /\ f[k] = nest_level[k]
    BY <2>1, <2>3 DEF Assigned
  <2>5. QED
    BY <2>2, <2>3, <2>4 DEF KeepLinks
<1>3. ASSUME NEW q, NEW n \in DOMAIN ast, Moves(q), Links(n, q) PROVE KeepLinks
  <2>1. n \notin DOMAIN referent
    BY <1>3, MoveFacts, LinkArrives
  <2>2. nest_level' = nest_level /\ referent' = Assigned(referent, n, lookup(ast[n].name))
    BY <1>3 DEF Links
  <2>3. PICK f : f = Assigned(referent, n, lookup(ast[n].name))
    OBVIOUS
  <2>4. \A k \in DOMAIN referent : k \in DOMAIN f /\ f[k] = referent[k]
    BY <2>1, <2>3 DEF Assigned
  <2>5. QED
    BY <2>2, <2>3, <2>4 DEF KeepLinks
<1>4. CASE UNCHANGED vars
  BY <1>1, <1>4 DEF vars
<1>5. ASSUME NEW n \in DOMAIN ast, Throws(n) PROVE KeepLinks
  BY <1>1, <1>5 DEF Throws
<1>6. ASSUME NEW q, Moves(q) PROVE KeepLinks
  <2>1. CASE Passes(q)
    BY <1>1, <2>1 DEF Passes
  <2>2. ASSUME NEW n \in DOMAIN ast, Opens(n, q) \/ Closes(n, q) PROVE KeepLinks
    BY <1>1, <2>2 DEF Opens, Closes
  <2>3. QED
    BY <1>2, <1>3, <1>6, <2>1, <2>2 DEF Moves
<1>7. QED
  BY <1>4, <1>5, <1>6, EveryStepMoves DEF WalkInv

(***************************************************************************)
(* What the pass hands on.                                                 *)
(***************************************************************************)
Fields == IsField(referent) /\ IsField(nest_level)

LEMMA InitFields == Init => Fields
  BY FieldEmpty DEF Init, Fields

LEMMA NextFields == IInv /\ Fields /\ [Next]_vars => Fields'
<1> SUFFICES ASSUME IInv, Fields, [Next]_vars PROVE Fields'
  OBVIOUS
<1>1. CASE UNCHANGED vars
  BY <1>1 DEF vars, Fields, IsField
<1>2. CASE Recorded
  <2>1. \/ UNCHANGED << referent, nest_level >>
        \/ UNCHANGED referent /\ \E d, v : nest_level' = Assigned(nest_level, d, v)
        \/ UNCHANGED nest_level /\ \E n, v : referent' = Assigned(referent, n, v)
    BY <1>2 DEF Recorded
  <2>2. QED
    BY <2>1, FieldAssigned DEF Fields, IsField
<1>3. QED
  BY <1>1, <1>2, StepRecords

\* A pass that has linked a program leaves the meaning of all its uses and the
\* depth of all its declarations in the tree.
LEMMA LinkedAtEnd ==
  ASSUME WalkInv, Fields, stack = << >>, raised = NoException
  PROVE  /\ ast \in Programs
         /\ Meaning(ast).faults = {}
         /\ referent = Meaning(ast).referents
         /\ nest_level = [d \in DeclsOf(ast) |-> Depth(ast, d)]
<1>1. PICK m : m = Meaning(ast)
  OBVIOUS
<1>2. PICK e : e = Len(ast) + 1
  OBVIOUS
<1>3. ast \in Programs /\ IsProgram(ast)
  BY ProgramsAssumption DEF WalkInv, IInv, TypeOK
<1>4. /\ \A n \in DOMAIN ast : n < e /\ ~ e <= n
      /\ DeclsOf(ast) \subseteq DOMAIN ast /\ UsesOf(ast) \subseteq DOMAIN ast
  <2>1. DOMAIN ast = 1 .. Len(ast) /\ Len(ast) \in Nat
    BY <1>3, NodesOfTree
  <2>2. QED
    BY <1>2, <2>1 DEF DeclsOf, UsesOf
<1>5. Here.at = e
  BY <1>2 DEF Here, End, Place
<1>6. /\ DOMAIN referent = {n \in UsesOf(ast) : n < e}
      /\ DOMAIN nest_level = {d \in DeclsOf(ast) : d < e}
      /\ \A f \in m.faults : e <= f
  BY <1>1, <1>5 DEF WalkInv, WalkedTo
<1>7. DOMAIN referent = UsesOf(ast) /\ DOMAIN nest_level = DeclsOf(ast)
  BY <1>4, <1>6
<1>8. m.faults = {}
  <2>1. m.faults \subseteq DeclsOf(ast) \cup UsesOf(ast)
    BY <1>1 DEF Meaning
  <2>2. QED
    BY <1>4, <1>6, <2>1
<1>9. referent = m.referents
  <2>1. m.referents = [n \in UsesOf(ast) |-> m.referents[n]]
    BY <1>1 DEF Meaning
  <2>2. \A n \in DOMAIN referent : referent[n] = m.referents[n]
    BY <1>1 DEF WalkInv, RecordsRight
  <2>3. QED
    BY <1>7, <2>1, <2>2 DEF Fields, IsField
<1>10. nest_level = [d \in DeclsOf(ast) |-> Depth(ast, d)]
  BY <1>7 DEF Fields, IsField, WalkInv, RecordsRight
<1>11. QED
  BY <1>1, <1>3, <1>8, <1>9, <1>10

(***************************************************************************)
(* What is proved of every run of the pass, over any set of trees.         *)
(***************************************************************************)
\* The nest level that the pass records for a declaration is the depth of its
\* scope in the tree (SymbolVisitor.cpp, setNestLevel; code generation reads
\* it to tell global variables from the others).
THEOREM NestLevelsAreStatic == Spec => []NestLevelsStatic
<1>1. WalkInv => NestLevelsStatic
  BY SameDepth DEF WalkInv, RecordsRight, NestLevelsStatic
<1>2. QED
  BY <1>1, WalkHolds, PTL

\* No step of the pass takes back or redirects what was linked.
THEOREM LinksStay == Spec => LinksAreFinal
<1>1. WalkInv /\ [Next]_vars => [KeepLinks]_vars
  BY StepKeepsLinks
<1>2. QED
  BY <1>1, WalkHolds, PTL DEF Spec, LinksAreFinal

\* The symbol pass implements the scope rules of module StaticScoping: the
\* table, the order of the visits and the searches have no other effect than
\* to link every use to the innermost declaration in force, or to reject the
\* program at its first redeclaration or undeclared name.
THEOREM PassIsStaticallyScoped == Spec => StaticallyScoped
<1>1. Spec => Init /\ []WalkInv /\ [][Next]_vars
  BY WalkHolds, PTL DEF Spec
<1>2. QED
  BY <1>1, InitRefinesScoping, StepRefinesScoping, PTL DEF StaticallyScoped, Scoping!Spec
=============================================================================
