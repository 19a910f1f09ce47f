---------------------------- MODULE Lexer_proofs ----------------------------
(***************************************************************************)
(* The lexer keeps its place: the stream, the line and the column stay in  *)
(* step whatever is peeked at and put back, and the tokens returned are    *)
(* pieces of the text, one after the other, at their lines.                *)
(***************************************************************************)
EXTENDS Lexer, FiniteSetTheorems, SequenceTheorems, TLAPS

Trees == INSTANCE Trees_proofs WITH ast <- text, stack <- tokens

(***************************************************************************)
(* The stream.                                                             *)
(***************************************************************************)
Text == text \in Seq(STRING)

Typed(s) ==
  s \in [pos : 0 .. Len(text), eofbit : BOOLEAN, failbit : BOOLEAN,
         line : Nat, col : Nat]

\* A stream that counts its lines.
Counting(s) ==
  /\ Typed(s)
  /\ s.line = LineOf(s.pos)

Newlines(k) == {j \in 1 .. k : text[j] = "\n"}

LEMMA LineOfNext ==
  ASSUME NEW k \in Nat
  PROVE  /\ LineOf(k) \in Nat \ {0}
         /\ LineOf(k + 1) = IF text[k + 1] = "\n" THEN LineOf(k) + 1 ELSE LineOf(k)
<1>1. \A n \in Nat : IsFiniteSet(Newlines(n)) /\ Cardinality(Newlines(n)) \in Nat
  <2> TAKE n \in Nat
  <2>1. IsFiniteSet(1 .. n)
    BY FS_Interval
  <2>2. Newlines(n) \subseteq 1 .. n
    BY DEF Newlines
  <2>3. IsFiniteSet(Newlines(n))
    BY <2>1, <2>2, FS_Subset
  <2>4. QED
    BY <2>3, FS_CardinalityType
<1>2. \A n \in Nat : LineOf(n) = 1 + Cardinality(Newlines(n))
  BY DEF LineOf, Newlines
<1>3. CASE text[k + 1] = "\n"
  <2>1. Newlines(k + 1) = Newlines(k) \cup {k + 1} /\ k + 1 \notin Newlines(k)
    BY <1>3 DEF Newlines
  <2>2. Cardinality(Newlines(k + 1)) = Cardinality(Newlines(k)) + 1
    BY <1>1, <2>1, FS_AddElement
  <2>3. QED
    BY <1>1, <1>2, <1>3, <2>2
<1>4. CASE text[k + 1] # "\n"
  <2>1. Newlines(k + 1) = Newlines(k)
    BY <1>4 DEF Newlines
  <2>2. QED
    BY <1>1, <1>2, <1>4, <2>1
<1>5. QED
  BY <1>3, <1>4

LEMMA LineOfBefore ==
  ASSUME NEW k \in Nat \ {0}, text[k] # "\n"
  PROVE  LineOf(k - 1) = LineOf(k)
<1>1. k - 1 \in Nat /\ (k - 1) + 1 = k
  OBVIOUS
<1>2. QED
  BY <1>1, LineOfNext

LEMMA ColumnGrows ==
  ASSUME NEW n \in Nat \ {0}
  PROVE  Column(n) \in Nat \ {0}
BY LexerAssumption DEF Column

\* Counted moves on by a character that is read.
LEMMA CountedTyped ==
  ASSUME Text, NEW s, Typed(s), NEW ch
  PROVE  /\ Counted(s, ch).pos = s.pos
         /\ Counted(s, ch).eofbit = s.eofbit
         /\ Counted(s, ch).failbit = s.failbit
         /\ Counted(s, ch).line = IF ch = "\n" THEN s.line + 1 ELSE s.line
         /\ Counted(s, ch).col \in Nat
         /\ ch \notin {"\n", "\r"} => Counted(s, ch).col \in Nat \ {0}
         /\ Typed(Counted(s, ch))
<1>1. s.col + 1 \in Nat \ {0} /\ s.col + 4 - (s.col % 4) \in Nat \ {0}
  BY DEF Typed
<1>2. Column(s.col + 1) \in Nat \ {0} /\ Column(s.col + 4 - (s.col % 4)) \in Nat \ {0}
  BY <1>1, ColumnGrows
<1>4. CASE ch = "\n"
  <2>1. PICK r : r = [s EXCEPT !.line = @ + 1]
    OBVIOUS
  <2>2. /\ Typed(r) /\ r.pos = s.pos /\ r.eofbit = s.eofbit /\ r.failbit = s.failbit
        /\ r.line = s.line + 1
    BY <2>1 DEF Typed
  <2>3. Counted(s, ch) = [r EXCEPT !.col = 0]
    BY <1>4, <2>1 DEF Counted
  <2>4. QED
    BY <1>4, <2>2, <2>3 DEF Typed
<1>5. CASE ch = "\t"
  <2>1. Counted(s, ch) = [s EXCEPT !.col = Column(@ + 4 - (@ % 4))]
    BY <1>5 DEF Counted
  <2>2. QED
    BY <1>2, <1>5, <2>1 DEF Typed
<1>6. CASE ch = "\r"
  BY <1>6 DEF Counted, Typed
<1>7. CASE ch \notin {"\n", "\t", "\r"}
  <2>1. Counted(s, ch) = [s EXCEPT !.col = Column(@ + 1)]
    BY <1>7 DEF Counted
  <2>2. QED
    BY <1>2, <1>7, <2>1 DEF Typed
<1>8. QED
  BY <1>4, <1>5, <1>6, <1>7

\* There is a next character that is no white space, or the end.
LEMMA VisibleDefined ==
  ASSUME Text, NEW s, Counting(s)
  PROVE  /\ Visible(s) \in s.pos .. Len(text)
         /\ Visible(s) = Len(text) \/ text[Visible(s) + 1] \notin Whitespace
         /\ \A j \in s.pos + 1 .. Visible(s) : text[j] \in Whitespace
<1> DEFINE Found(k) == /\ k = Len(text) \/ text[k + 1] \notin Whitespace
                       /\ \A j \in s.pos + 1 .. k : text[j] \in Whitespace
           T == {k \in s.pos .. Len(text) : k = Len(text) \/ text[k + 1] \notin Whitespace}
<1>1. s.pos \in 0 .. Len(text) /\ Len(text) \in Nat
  BY DEF Text, Counting, Typed
<1>2. T \in SUBSET Nat /\ Len(text) \in T
  BY <1>1
<1>3. PICK m \in T : \A k \in T : m <= k
  <2> HIDE DEF T
  <2>1. T # {}
    BY <1>2
  <2>2. QED
    BY <1>2, <2>1, Trees!Least
<1>4. m \in s.pos .. Len(text) /\ Found(m)
  <2>1. ASSUME NEW j \in s.pos + 1 .. m, text[j] \notin Whitespace
        PROVE  FALSE
    <3>1. j - 1 \in s.pos .. Len(text) /\ (j - 1) + 1 = j /\ j - 1 < m
      BY <1>1, <1>3
    <3>2. j - 1 \in T
      BY <2>1, <3>1
    <3>3. QED
      BY <1>3, <3>1, <3>2
  <2>2. QED
    BY <1>3, <2>1
<1>5. Visible(s) \in s.pos .. Len(text) /\ Found(Visible(s))
  <2> HIDE DEF T
  <2>1. \E k \in s.pos .. Len(text) : Found(k)
    BY <1>4
  <2>2. QED
    BY <2>1, Zenon DEF Visible
<1>6. QED
  BY <1>5

\* Streams that agree on what is read and on how.
SameState(r, s) == r.eofbit = s.eofbit /\ r.failbit = s.failbit

LEMMA CountedSpace ==
  ASSUME Text, NEW s, Counting(s), NEW v \in s.pos .. Len(text),
         NEW run, run = [k \in s.pos .. Len(text) |->
                           IF k = s.pos THEN s ELSE Counted(run[k - 1], text[k])]
  PROVE  LET r == [run[v] EXCEPT !.pos = v]
         IN  Counting(r) /\ r.pos = v /\ SameState(r, s) /\ r.line >= s.line
<1> DEFINE Placed(k) == [run[k] EXCEPT !.pos = k]
           Is(k) == /\ Typed(run[k])
                    /\ run[k].line = LineOf(k) /\ SameState(run[k], s)
                    /\ run[k].line >= s.line
           Bad == {k \in s.pos .. Len(text) : ~ Is(k)}
<1>1. s.pos \in 0 .. Len(text) /\ Len(text) \in Nat /\ s.line \in Nat
  BY DEF Text, Counting, Typed
<1>2. Is(s.pos)
  <2>1. run[s.pos] = s
    BY <1>1
  <2>2. QED
    BY <1>1, <2>1 DEF Counting, Typed, SameState
<1>3. ASSUME NEW k \in s.pos .. Len(text), k # s.pos, Is(k - 1)
      PROVE  Is(k)
  <2>1. run[k] = Counted(run[k - 1], text[k])
    BY <1>3
  <2>2. k - 1 \in Nat /\ (k - 1) + 1 = k /\ k - 1 \in 0 .. Len(text)
    BY <1>1, <1>3
  <2> DEFINE r == [run[k - 1] EXCEPT !.pos = k - 1]
             q == run[k - 1]
  <2>3. LineOf(k) = IF text[k] = "\n" THEN LineOf(k - 1) + 1 ELSE LineOf(k - 1)
    BY <2>2, LineOfNext
  <2>4. Typed(q)
    BY <1>3
  <2>5. /\ Counted(q, text[k]).line = IF text[k] = "\n" THEN q.line + 1 ELSE q.line
        /\ SameState(Counted(q, text[k]), q)
        /\ Typed(Counted(q, text[k]))
    BY <2>4, CountedTyped DEF SameState
  <2>6. QED
    BY <1>1, <1>3, <2>1, <2>3, <2>4, <2>5, SMTT(30) DEF Typed, SameState
<1>4. Bad = {}
  <2>1. SUFFICES ASSUME Bad # {} PROVE FALSE
    OBVIOUS
  <2>2. Bad \in SUBSET Nat
    BY <1>1
  <2>3. PICK k \in Bad : \A j \in Bad : k <= j
    <3> HIDE DEF Bad
    <3>1. QED
      BY <2>1, <2>2, Trees!Least
  <2>4. k \in s.pos .. Len(text) /\ ~ Is(k)
    BY <2>3
  <2> HIDE DEF Is
  <2>5. k # s.pos
    BY <1>2, <2>4
  <2>6. k - 1 \in s.pos .. Len(text) /\ k - 1 < k
    BY <1>1, <2>4, <2>5
  <2>7. k - 1 \notin Bad
    BY <2>3, <2>6, <1>1
  <2>8. QED
    BY <1>3, <2>4, <2>5, <2>6, <2>7
<1>5. Is(v)
  <2> HIDE DEF Is
  <2>1. QED
    BY <1>4
<1>6. v \in 0 .. Len(text)
  BY <1>1
<1>7. QED
  BY <1>5, <1>6 DEF Counting, Typed, SameState

\* White space is skipped.
LEMMA SpaceSkipped ==
  ASSUME Text, NEW s, Counting(s)
  PROVE  /\ Counting(SkipSpace(s)) /\ SameState(SkipSpace(s), s)
         /\ SkipSpace(s).pos >= s.pos /\ SkipSpace(s).line >= s.line
         /\ good(s) => SkipSpace(s).pos = Visible(s)
         /\ ~ good(s) => SkipSpace(s) = s
<1> DEFINE Is(f) == f = [k \in s.pos .. Len(text) |->
                           IF k = s.pos THEN s ELSE Counted(f[k - 1], text[k])]
           run == CHOOSE f : Is(f)
           v == Visible(s)
<1>1. /\ s.pos \in 0 .. Len(text) /\ Len(text) \in Nat /\ s.line \in Nat
      /\ v \in s.pos .. Len(text)
  BY VisibleDefined DEF Text, Counting, Typed
<1>2. Is(run)
  <2> DEFINE n == Len(text) - s.pos
             S == s.pos .. Len(text)
             V == [pos : 0 .. Len(text), eofbit : BOOLEAN, failbit : BOOLEAN,
                   line : Nat, col : Nat]
             rank == [k \in S |-> k - s.pos]
             F == [p \in S \X [S -> V] |->
                     IF p[1] = s.pos THEN s ELSE Counted(p[2][p[1] - 1], text[p[1]])]
  <2>1. \A k \in S, g \in [S -> V] :
          F[<< k, g >>] = IF k = s.pos THEN s ELSE Counted(g[k - 1], text[k])
    OBVIOUS
  <2>2. s \in V /\ \A r \in V : \A ch : Counted(r, ch) \in V
    BY CountedTyped DEF Counting, Typed
  <2>3. \A k \in S : k # s.pos => k - 1 \in S /\ rank[k - 1] < rank[k]
    BY <1>1
  <2>4. F \in [S \X [S -> V] -> V]
    <3>1. ASSUME NEW k \in S, NEW g \in [S -> V]
          PROVE  (IF k = s.pos THEN s ELSE Counted(g[k - 1], text[k])) \in V
      <4> HIDE DEF V, S, rank
      <4>1. QED
        BY <2>2, <2>3
    <3>2. ASSUME NEW p \in S \X [S -> V]
          PROVE  (IF p[1] = s.pos THEN s
                  ELSE Counted(p[2][p[1] - 1], text[p[1]])) \in V
      <4>1. p[1] \in S /\ p[2] \in [S -> V]
        OBVIOUS
      <4> HIDE DEF V, S
      <4>2. QED
        BY <3>1, <4>1
    <3> HIDE DEF V, S
    <3>3. QED
      BY <3>2
  <2>5. ASSUME NEW k \in S, NEW g \in [S -> V], NEW h \in [S -> V],
               \A m \in S : rank[m] < rank[k] => g[m] = h[m]
        PROVE  F[<< k, g >>] = F[<< k, h >>]
    <3> HIDE DEF F, V, S, rank
    <3>1. k # s.pos => g[k - 1] = h[k - 1]
      BY <2>3, <2>5
    <3>2. QED
      BY <2>1, <3>1
  <2>6. rank \in [S -> 0 .. n] /\ n \in Nat
    BY <1>1
  <2>7. Trees!LooksBelow(S, V, n, rank, F)
    <3> HIDE DEF F, V, S, rank, n
    <3>1. V # {}
      BY <2>2
    <3>2. QED
      BY <2>4, <2>5, <2>6, <3>1 DEF Trees!LooksBelow
  <2> HIDE DEF F, V, rank, n
  <2>8. PICK g \in [S -> V] : \A k \in S : g[k] = F[<< k, g >>]
    <3> HIDE DEF S
    <3>1. QED
      BY <2>7, Trees!Recursion
  <2>9. Is(g)
    <3>1. \A k \in S : g[k] = IF k = s.pos THEN s ELSE Counted(g[k - 1], text[k])
      <4> HIDE DEF S
      <4>1. QED
        BY <2>1, <2>8
    <3>2. QED
      BY <3>1
  <2> HIDE DEF Is
  <2>10. QED
    BY <2>9
<1>3. PICK r : r = [run[v] EXCEPT !.pos = v]
  OBVIOUS
<1>4. Counting(r) /\ r.pos = v /\ SameState(r, s) /\ r.line >= s.line
  <2>1. PICK f : f = run
    OBVIOUS
  <2> HIDE DEF run
  <2>2. Is(f)
    BY <1>2, <2>1
  <2> HIDE DEF v
  <2>3. QED
    BY <1>1, <1>3, <2>1, <2>2, CountedSpace, SMTT(30)
<1>5. SkipSpace(s) = IF good(s) THEN r ELSE s
  <2>1. SkipSpace(s) = IF good(s) THEN [run[v] EXCEPT !.pos = v] ELSE s
    BY Zenon DEF SkipSpace
  <2> HIDE DEF run, v
  <2>2. QED
    BY <1>3, <2>1
<1> HIDE DEF run
<1>6. QED
  BY <1>1, <1>4, <1>5 DEF SameState

\* What getChar takes is no white space.  It has been read, or nothing can be.
Fetched(s, ch) ==
  /\ Counting(s) /\ s.col # 0
  /\ ch \notin Whitespace
  /\ \/ s.failbit /\ ch = "eof"
     \/ good(s) /\ s.pos > 0 /\ text[s.pos] = ch

LEMMA CharFetched ==
  ASSUME Text, NEW s, Counting(s)
  PROVE  /\ Fetched(getChar(s), NextChar(s))
         /\ getChar(s).line >= s.line /\ getChar(s).pos >= s.pos
         /\ good(getChar(s)) => good(s) /\ getChar(s).pos > s.pos
<1> PICK r : r = SkipSpace(s)
  OBVIOUS
<1>1. /\ Counting(r) /\ SameState(r, s) /\ r.pos >= s.pos /\ r.line >= s.line
      /\ r.pos \in 0 .. Len(text) /\ s.pos \in 0 .. Len(text) /\ Len(text) \in Nat
      /\ good(s) => r.pos = Len(text) \/ text[r.pos + 1] \notin Whitespace
  BY SpaceSkipped, VisibleDefined, SMTT(30) DEF Counting, Typed, Text
<1> PICK ch : ch = NextChar(s)
  OBVIOUS
<1>2. ch = IF good(r) /\ r.pos # Len(text) THEN text[r.pos + 1] ELSE "eof"
  BY DEF NextChar, Upcoming, AtEnd
<1>3. ch \notin Whitespace
  BY <1>1, <1>2 DEF Whitespace, good, SameState
<1> PICK q : q = Counted(r, ch)
  OBVIOUS
<1>4. /\ Typed(q) /\ q.pos = r.pos /\ SameState(q, r) /\ q.line = r.line /\ q.col \in Nat \ {0}
  BY <1>1, <1>3, CountedTyped DEF Counting, Whitespace, SameState
<1>5. Counting(q)
  BY <1>1, <1>4 DEF Counting
<1>6. getChar(s) = get(q)
  BY DEF getChar
<1>7. CASE good(r) /\ r.pos # Len(text)
  <2>1. get(q) = [q EXCEPT !.pos = @ + 1]
    BY <1>4, <1>7 DEF get, good, AtEnd, SameState
  <2>2. q.pos \in Nat /\ q.pos + 1 \in 0 .. Len(text)
    BY <1>1, <1>4, <1>7
  <2>3. LineOf(q.pos + 1) = LineOf(q.pos)
    <3>1. text[q.pos + 1] # "\n"
      BY <1>2, <1>3, <1>4, <1>7 DEF Whitespace
    <3>2. QED
      BY <2>2, <3>1, LineOfNext
  <2> PICK g : g = get(q)
    OBVIOUS
  <2>4. /\ Typed(g) /\ g.pos = q.pos + 1 /\ g.line = q.line /\ g.col = q.col
        /\ g.eofbit = q.eofbit /\ g.failbit = q.failbit
    BY <1>4, <2>1, <2>2 DEF Typed
  <2>5. Counting(g) /\ g.col # 0
    BY <1>4, <1>5, <2>3, <2>4 DEF Counting
  <2>6. good(g) /\ good(s) /\ g.pos > 0 /\ text[g.pos] = ch
    BY <1>1, <1>2, <1>4, <1>7, <2>2, <2>4 DEF good, SameState
  <2>7. g.line >= s.line /\ g.pos > s.pos
    BY <1>1, <1>4, <2>2, <2>4 DEF Counting, Typed
  <2>8. QED
    BY <1>3, <1>6, <2>2, <2>4, <2>5, <2>6, <2>7, <1>1 DEF Fetched
<1>8. CASE ~ (good(r) /\ r.pos # Len(text))
  <2>1. get(q) = [q EXCEPT !.eofbit = TRUE, !.failbit = TRUE]
    BY <1>4, <1>8 DEF get, good, AtEnd, SameState
  <2> PICK g : g = get(q)
    OBVIOUS
  <2>2. /\ Typed(g) /\ g.pos = q.pos /\ g.line = q.line /\ g.col = q.col
        /\ g.eofbit = TRUE /\ g.failbit = TRUE
    BY <1>4, <2>1 DEF Typed
  <2>3. Counting(g) /\ g.col # 0 /\ ~ good(g) /\ g.failbit /\ ch = "eof"
    BY <1>2, <1>4, <1>5, <1>8, <2>2 DEF Counting, good
  <2>4. g.line >= s.line /\ g.pos >= s.pos
    BY <1>1, <1>4, <2>2
  <2>5. QED
    BY <1>3, <1>6, <2>3, <2>4 DEF Fetched
<1>9. QED
  BY <1>7, <1>8

\* The next character is ch.
Ready(s, ch) ==
  good(s) /\ s.pos # Len(text) /\ ch \notin Whitespace /\ text[s.pos + 1] = ch

LEMMA ReadyFetched ==
  ASSUME Text, NEW s, Counting(s), NEW ch, Ready(s, ch)
  PROVE  /\ NextChar(s) = ch
         /\ getChar(s).pos = s.pos + 1
         /\ good(getChar(s)) /\ Counting(getChar(s)) /\ getChar(s).line = s.line
<1>1. /\ s.pos \in 0 .. Len(text) /\ Len(text) \in Nat
      /\ Visible(s) \in s.pos .. Len(text)
      /\ \A j \in s.pos + 1 .. Visible(s) : text[j] \in Whitespace
  BY VisibleDefined DEF Counting, Typed, Text
<1>2. Visible(s) = s.pos
  BY <1>1 DEF Ready
<1> PICK r : r = SkipSpace(s)
  OBVIOUS
<1>3. r.pos = s.pos /\ SameState(r, s)
  BY <1>2, SpaceSkipped DEF Ready
<1>4. good(r) /\ ~ AtEnd(r)
  BY <1>3 DEF Ready, good, SameState, AtEnd
<1>5. NextChar(s) = ch
  BY <1>3, <1>4 DEF NextChar, Upcoming, Ready
<1>6. Counting(r)
  BY SpaceSkipped
<1> PICK q : q = Counted(r, ch)
  OBVIOUS
<1>7. q.pos = r.pos /\ SameState(q, r) /\ Typed(q)
  BY <1>6, CountedTyped DEF Counting, SameState
<1>8. getChar(s) = [q EXCEPT !.pos = @ + 1]
  <2>1. getChar(s) = get(q)
    BY <1>5 DEF getChar
  <2>2. good(q) /\ ~ AtEnd(q)
    BY <1>4, <1>7 DEF good, AtEnd, SameState
  <2>3. QED
    BY <2>1, <2>2 DEF get
<1>9. /\ getChar(s).pos = s.pos + 1 /\ getChar(s).failbit = s.failbit
      /\ getChar(s).eofbit = s.eofbit
  BY <1>3, <1>7, <1>8 DEF Typed, SameState
<1>10. good(getChar(s)) /\ Counting(getChar(s))
  BY <1>9, CharFetched DEF Ready, good, Fetched
<1>11. getChar(s).line = s.line
  <2>1. text[s.pos + 1] # "\n"
    BY Zenon DEF Ready, Whitespace
  <2>2. s.pos \in Nat
    BY <1>1
  <2>3. LineOf(s.pos + 1) = LineOf(s.pos)
    BY <2>1, <2>2, LineOfNext
  <2>4. QED
    BY <1>9, <1>10, <2>3 DEF Counting
<1>12. QED
  BY <1>5, <1>9, <1>10, <1>11

LEMMA PeekedAt ==
  ASSUME Text, NEW s, Counting(s)
  PROVE  /\ Counting(peek(s)) /\ peek(s).pos = s.pos
         /\ peek(s).line = s.line /\ peek(s).col = s.col
         /\ good(peek(s)) => good(s)
         /\ \A ch : peekChar(s) = ch /\ ch # "eof" =>
              /\ good(s) /\ s.pos # Len(text) /\ text[s.pos + 1] = ch
              /\ peek(s) = s
              /\ ch \notin Whitespace => Ready(s, ch)
<1>1. Typed(s) /\ s.line = LineOf(s.pos)
  BY DEF Counting
<1>2. CASE good(s)
  <2>1. peek(s) = [s EXCEPT !.eofbit = AtEnd(s)]
    BY <1>2 DEF peek
  <2>2. AtEnd(s) \in BOOLEAN
    BY Zenon DEF AtEnd
  <2>3. /\ Typed(peek(s)) /\ peek(s).pos = s.pos /\ peek(s).line = s.line
        /\ peek(s).col = s.col
    BY <1>1, <2>1, <2>2 DEF Typed
  <2>4. ASSUME NEW ch, peekChar(s) = ch, ch # "eof"
        PROVE  /\ s.pos # Len(text) /\ text[s.pos + 1] = ch /\ peek(s) = s
               /\ ch \notin Whitespace => Ready(s, ch)
    <3>1. ~ AtEnd(s) /\ text[s.pos + 1] = ch
      BY <2>4 DEF peekChar, Upcoming
    <3>2. s.eofbit = AtEnd(s)
      BY <1>1, <1>2, <3>1, <2>2 DEF good, Typed
    <3>3. peek(s) = s
      BY <1>1, <2>1, <3>2 DEF Typed
    <3>4. QED
      BY <1>2, <3>1, <3>3 DEF AtEnd, Ready
  <2>5. QED
    BY <1>1, <1>2, <2>3, <2>4 DEF Counting
<1>3. CASE ~ good(s)
  <2>1. peek(s) = [s EXCEPT !.failbit = TRUE]
    BY <1>3 DEF peek
  <2>2. /\ Typed(peek(s)) /\ peek(s).pos = s.pos /\ peek(s).line = s.line
        /\ peek(s).col = s.col /\ peek(s).failbit = TRUE
    BY <1>1, <2>1 DEF Typed
  <2>3. peekChar(s) = "eof"
    BY <1>3 DEF peekChar, Upcoming
  <2>4. QED
    BY <1>1, <2>2, <2>3 DEF Counting, good
<1>4. QED
  BY <1>2, <1>3

LEMMA CharPutBack ==
  ASSUME Text, NEW s, NEW ch, Fetched(s, ch)
  PROVE  /\ Counting(ungetChar(s)) /\ ungetChar(s).line = s.line
         /\ good(s) => ungetChar(s).pos = s.pos - 1 /\ Ready(ungetChar(s), ch)
         /\ ~ good(s) => ungetChar(s).pos = s.pos
<1>1. /\ Typed(s) /\ s.line = LineOf(s.pos) /\ s.col \in Nat \ {0}
      /\ ch \notin Whitespace
  BY DEF Fetched, Counting, Typed
<1>2. CASE good(s)
  <2>1. s.pos > 0 /\ text[s.pos] = ch /\ ~ s.failbit /\ s.pos \in 0 .. Len(text)
        /\ Len(text) \in Nat
    BY <1>1, <1>2 DEF Fetched, good, Typed, Text
  <2>2. PICK q : q = [s EXCEPT !.eofbit = FALSE, !.pos = @ - 1]
    OBVIOUS
  <2>3. Typed(q) /\ q.pos = s.pos - 1 /\ good(q) /\ q.line = s.line /\ q.col = s.col
    <3>1. PICK r : r = [s EXCEPT !.eofbit = FALSE]
      OBVIOUS
    <3>2. /\ Typed(r) /\ r.pos = s.pos /\ r.line = s.line /\ r.col = s.col
          /\ r.eofbit = FALSE /\ r.failbit = s.failbit
      BY <1>1, <3>1 DEF Typed
    <3>3. s.pos - 1 \in 0 .. Len(text)
      BY <2>1
    <3>4. q = [r EXCEPT !.pos = @ - 1]
      BY <2>2, <3>1
    <3>5. /\ Typed(q) /\ q.pos = s.pos - 1 /\ q.line = s.line /\ q.col = s.col
          /\ q.eofbit = FALSE /\ q.failbit = s.failbit
      BY <3>2, <3>3, <3>4 DEF Typed
    <3>6. QED
      BY <2>1, <3>5 DEF good
  <2>4. ungetChar(s) = [q EXCEPT !.col = @ - 1]
    BY <2>1, <2>2, Zenon DEF ungetChar, putback
  <2> PICK u : u = ungetChar(s)
    OBVIOUS
  <2>5. /\ Typed(u) /\ u.pos = s.pos - 1 /\ u.line = s.line
        /\ u.eofbit = q.eofbit /\ u.failbit = q.failbit
    BY <1>1, <2>3, <2>4 DEF Typed
  <2>6. LineOf(s.pos - 1) = LineOf(s.pos)
    <3>1. s.pos \in Nat \ {0}
      BY <2>1
    <3>2. text[s.pos] # "\n"
      BY <1>1, <2>1, Zenon DEF Whitespace
    <3>3. QED
      BY <3>1, <3>2, LineOfBefore
  <2>7. Ready(u, ch)
    <3>1. u.pos + 1 = s.pos /\ u.pos # Len(text)
      BY <2>1, <2>5
    <3>2. QED
      BY <1>1, <2>1, <2>3, <2>5, <3>1 DEF Ready, good
  <2>8. QED
    BY <1>1, <1>2, <2>5, <2>6, <2>7 DEF Counting
<1>3. CASE ~ good(s)
  <2>1. s.failbit
    BY <1>3 DEF Fetched
  <2>2. PICK q : q = [s EXCEPT !.eofbit = FALSE]
    OBVIOUS
  <2>3. /\ Typed(q) /\ q.pos = s.pos /\ q.line = s.line /\ q.col = s.col
    BY <1>1, <2>2 DEF Typed
  <2>4. ungetChar(s) = [q EXCEPT !.col = @ - 1]
    BY <2>1, <2>2, Zenon DEF ungetChar, putback
  <2> PICK u : u = ungetChar(s)
    OBVIOUS
  <2>5. Typed(u) /\ u.pos = s.pos /\ u.line = s.line
    BY <1>1, <2>3, <2>4 DEF Typed
  <2>6. QED
    BY <1>1, <1>3, <2>5 DEF Counting
<1>4. QED
  BY <1>2, <1>3

(***************************************************************************)
(* Pieces of a sequence.                                                   *)
(***************************************************************************)
LEMMA PieceGrows ==
  ASSUME NEW S, NEW s \in Seq(S), NEW k \in 1 .. Len(s), NEW m \in k - 1 .. Len(s) - 1
  PROVE  /\ Append(SubSeq(s, k, m), s[m + 1]) = SubSeq(s, k, m + 1)
         /\ Len(SubSeq(s, k, m + 1)) = m - k + 2
<1>0. Len(s) \in Nat
  OBVIOUS
<1>1. /\ \A i \in k .. m : s[i] \in S
      /\ \A i \in k .. m + 1 : s[i] \in S
      /\ s[m + 1] \in S /\ k \in Int /\ m \in Int /\ m + 1 \in Int
  BY <1>0
<1>2. PICK a : a = SubSeq(s, k, m)
  OBVIOUS
<1>3. PICK b : b = SubSeq(s, k, m + 1)
  OBVIOUS
<1>4. /\ a \in Seq(S) /\ Len(a) = m - k + 1
      /\ \A i \in 1 .. Len(a) : a[i] = s[k + i - 1]
  <2>1. /\ a \in Seq(S) /\ Len(a) = IF k <= m THEN m - k + 1 ELSE 0
        /\ \A i \in 1 .. m - k + 1 : a[i] = s[k + i - 1]
    BY <1>1, <1>2, SubSeqProperties
  <2>2. QED
    BY <1>0, <2>1
<1>5. /\ b \in Seq(S) /\ Len(b) = m - k + 2
      /\ \A i \in 1 .. Len(b) : b[i] = s[k + i - 1]
  <2>1. /\ b \in Seq(S) /\ Len(b) = IF k <= m + 1 THEN m + 1 - k + 1 ELSE 0
        /\ \A i \in 1 .. m + 1 - k + 1 : b[i] = s[k + i - 1]
    BY <1>1, <1>3, SubSeqProperties
  <2>2. QED
    BY <1>0, <2>1
<1>6. PICK x : x = s[m + 1]
  OBVIOUS
<1>7. PICK d : d = Append(a, x)
  OBVIOUS
<1>8. /\ d \in Seq(S) /\ Len(d) = Len(a) + 1
      /\ \A i \in 1 .. Len(a) : d[i] = a[i]
      /\ d[Len(a) + 1] = x
  BY <1>1, <1>4, <1>6, <1>7, AppendProperties
<1>9. \A i \in 1 .. Len(d) : d[i] = b[i]
  <2> TAKE i \in 1 .. Len(d)
  <2>1. CASE i \in 1 .. Len(a)
    <3>1. i \in 1 .. Len(b)
      BY <1>0, <1>4, <1>5, <2>1
    <3>2. d[i] = a[i] /\ a[i] = s[k + i - 1] /\ b[i] = s[k + i - 1]
      BY <1>4, <1>5, <1>8, <2>1, <3>1
    <3>3. QED
      BY <3>2
  <2>2. CASE i = Len(a) + 1
    <3>1. i \in 1 .. Len(b) /\ k + i - 1 = m + 1
      BY <1>0, <1>4, <1>5, <2>2
    <3>2. QED
      BY <1>5, <1>6, <1>8, <2>2, <3>1
  <2>3. QED
    BY <1>4, <1>8, <2>1, <2>2, SMTT(30)
<1>10. d = b
  <2>1. Len(d) = Len(b)
    BY <1>0, <1>4, <1>5, <1>8
  <2>2. d \in Seq(S) /\ b \in Seq(S)
    BY <1>5, <1>8
  <2>3. QED
    BY <1>9, <2>1, <2>2, SeqEqual
<1>11. QED
  BY <1>2, <1>3, <1>5, <1>6, <1>7, <1>10, Zenon

LEMMA OnePiece ==
  ASSUME NEW S, NEW s \in Seq(S), NEW k \in 1 .. Len(s)
  PROVE  SubSeq(s, k, k) = << s[k] >>
<1>1. SubSeq(s, k, k) = SubSeq(s, k, k - 1) \o << s[k] >>
  BY SubSeqRecursiveSecond
<1>2. SubSeq(s, k, k - 1) = << >>
  BY SubSeqEmpty
<1>3. PICK x \in S : x = s[k]
  OBVIOUS
<1>4. << >> \o << x >> = << x >>
  OBVIOUS
<1>5. QED
  BY <1>1, <1>2, <1>3, <1>4

LEMMA TwoPieces ==
  ASSUME NEW S, NEW s \in Seq(S), NEW k \in 1 .. Len(s) - 1
  PROVE  SubSeq(s, k, k + 1) = << s[k], s[k + 1] >>
<1>1. k \in 1 .. Len(s) /\ k + 1 \in k .. Len(s) /\ k + 1 \in 1 .. Len(s)
  OBVIOUS
<1>2. SubSeq(s, k, k + 1) = << s[k] >> \o SubSeq(s, k + 1, k + 1)
  BY <1>1, SubSeqRecursiveFirst
<1>3. SubSeq(s, k + 1, k + 1) = << s[k + 1] >>
  BY <1>1, OnePiece
<1>4. PICK x \in S : x = s[k]
  BY <1>1
<1>5. PICK y \in S : y = s[k + 1]
  BY <1>1
<1>6. << x >> \o << y >> = << x, y >>
  <2>1. PICK a : a = << x >>
    OBVIOUS
  <2>2. PICK b : b = << y >>
    OBVIOUS
  <2>3. a \in Seq(S) /\ Len(a) = 1 /\ a[1] = x /\ b \in Seq(S) /\ Len(b) = 1 /\ b[1] = y
    BY <2>1, <2>2
  <2>4. PICK d : d = a \o b
    OBVIOUS
  <2>5. d \in Seq(S) /\ Len(d) = 2 /\ d[1] = x /\ d[2] = y
    BY <2>3, <2>4, ConcatProperties, SMTT(30)
  <2>6. PICK e : e = << x, y >>
    OBVIOUS
  <2>7. e \in Seq(S) /\ Len(e) = 2 /\ e[1] = x /\ e[2] = y
    BY <2>6
  <2>8. \A i \in 1 .. 2 : d[i] = e[i]
    BY <2>5, <2>7
  <2>9. d = e
    BY <2>5, <2>7, <2>8, SeqEqual
  <2>10. QED
    BY <2>1, <2>2, <2>4, <2>6, <2>9, Zenon
<1>7. QED
  BY <1>2, <1>3, <1>4, <1>5, <1>6

(***************************************************************************)
(* The tokens.                                                             *)
(***************************************************************************)
IsPiece(t, k) ==
  /\ k \in Nat \ {0} /\ Len(t.lexeme) \in Nat \ {0}
  /\ t.lexeme = SubSeq(text, k, k + Len(t.lexeme) - 1)
  /\ t.line = LineOf(k)

\* Every token but an END_OF_FILE has a place, behind the token before it.
Placed(toks, q, place) ==
  /\ place \in [1 .. Len(toks) -> Nat]
  /\ \A i \in 1 .. Len(toks) :
       toks[i].type # "END_OF_FILE" =>
         IsPiece(toks[i], place[i]) /\ place[i] + Len(toks[i].lexeme) <= q + 1
  /\ \A i, j \in 1 .. Len(toks) :
       i < j /\ toks[i].type # "END_OF_FILE" /\ toks[j].type # "END_OF_FILE" =>
         place[i] + Len(toks[i].lexeme) <= place[j]

InOrder(toks, q) == \E place : Placed(toks, q, place)

LEMMA OrderWidens ==
  ASSUME NEW toks, NEW q \in Nat, NEW r \in Nat, q <= r, InOrder(toks, q)
  PROVE  InOrder(toks, r)
<1>1. PICK place : Placed(toks, q, place)
  BY DEF InOrder
<1>2. ASSUME NEW i \in 1 .. Len(toks), toks[i].type # "END_OF_FILE"
      PROVE  place[i] + Len(toks[i].lexeme) <= r + 1
  BY <1>1, <1>2 DEF Placed, IsPiece
<1>3. Placed(toks, r, place)
  BY <1>1, <1>2 DEF Placed
<1>4. QED
  BY <1>3 DEF InOrder

LEMMA OrderGrows ==
  ASSUME NEW toks, toks = [i \in 1 .. Len(toks) |-> toks[i]], Len(toks) \in Nat,
         NEW q \in Nat, NEW r \in Nat, q <= r, InOrder(toks, q),
         NEW more, Len(more) = Len(toks) + 1,
         \A i \in 1 .. Len(toks) : more[i] = toks[i],
         NEW t, more[Len(toks) + 1] = t,
         \/ t.type = "END_OF_FILE"
         \/ \E k : IsPiece(t, k) /\ q < k /\ k + Len(t.lexeme) <= r + 1
  PROVE  InOrder(more, r)
<1> PICK n : n = Len(toks)
  OBVIOUS
<1>1. PICK place : Placed(toks, q, place)
  BY DEF InOrder
<1>2. PICK k \in Nat :
        t.type # "END_OF_FILE" => IsPiece(t, k) /\ q < k /\ k + Len(t.lexeme) <= r + 1
  BY DEF IsPiece
<1> DEFINE places == [i \in 1 .. n + 1 |-> IF i = n + 1 THEN k ELSE place[i]]
<1>3. places \in [1 .. n + 1 -> Nat] /\ places[n + 1] = k
  BY <1>1 DEF Placed
<1>4. ASSUME NEW i \in 1 .. n
      PROVE  i \in 1 .. n + 1 /\ places[i] = place[i] /\ more[i] = toks[i]
  OBVIOUS
<1> HIDE DEF places
<1>5. ASSUME NEW i \in 1 .. n + 1, more[i].type # "END_OF_FILE"
      PROVE  IsPiece(more[i], places[i]) /\ places[i] + Len(more[i].lexeme) <= r + 1
  <2>1. CASE i = n + 1
    BY <1>2, <1>3, <1>5, <2>1
  <2>2. CASE i \in 1 .. n
    <3>1. IsPiece(toks[i], place[i]) /\ place[i] + Len(toks[i].lexeme) <= q + 1
      BY <1>1, <1>4, <1>5, <2>2 DEF Placed
    <3>2. place[i] + Len(toks[i].lexeme) \in Nat
      BY <3>1 DEF IsPiece
    <3>3. QED
      BY <1>4, <2>2, <3>1, <3>2
  <2>3. QED
    BY <2>1, <2>2
<1>6. ASSUME NEW i \in 1 .. n + 1, NEW j \in 1 .. n + 1, i < j,
             more[i].type # "END_OF_FILE", more[j].type # "END_OF_FILE"
      PROVE  places[i] + Len(more[i].lexeme) <= places[j]
  <2>1. i \in 1 .. n
    BY <1>6
  <2>2. IsPiece(toks[i], place[i]) /\ place[i] + Len(toks[i].lexeme) <= q + 1
    BY <1>1, <1>4, <1>6, <2>1 DEF Placed
  <2>3. place[i] + Len(toks[i].lexeme) \in Nat
    BY <2>2 DEF IsPiece
  <2>4. CASE j = n + 1
    BY <1>2, <1>3, <1>4, <1>6, <2>1, <2>2, <2>3, <2>4
  <2>5. CASE j \in 1 .. n
    BY <1>1, <1>4, <1>6, <2>1, <2>5 DEF Placed
  <2>6. QED
    BY <2>4, <2>5
<1>7. Placed(more, r, places)
  BY <1>3, <1>5, <1>6 DEF Placed
<1>8. QED
  BY <1>7 DEF InOrder

(***************************************************************************)
(* The invariant.                                                          *)
(***************************************************************************)
InLexeme == {"lexLiteral", "badLiteral", "lexKeywordID"}

InComment == {"openComment", "eatComment"}

\* The tokens lie before this place.
Settled ==
  CASE at \in {"idle", "getToken"} -> in.pos
    [] at = "switch"   -> IF good(in) THEN in.pos - 1 ELSE in.pos
    [] at \in InLexeme -> in.pos - Len(lexeme)
    [] at \in InComment -> in.pos - 1

\* The lexeme is what was read last, from the place of the token on.
Taking ==
  /\ \E ch : Ready(in, ch)
  /\ Len(lexeme) \in 0 .. in.pos
  /\ lexeme = SubSeq(text, in.pos - Len(lexeme) + 1, in.pos)
  /\ token.line = LineOf(in.pos - Len(lexeme) + 1)

StreamInv ==
  /\ Text /\ Counting(in)
  /\ token \in [line : Nat, col : Nat] /\ token.line <= in.line
  /\ at \in {"idle", "getToken", "switch"} \cup InLexeme \cup InComment
  /\ thrown \in {"none", "LexerException", "out_of_range"}

PlaceInv ==
  /\ at \in {"switch", "eatComment"} => Fetched(in, c)
  /\ at \in InComment => in.pos > 0
  /\ at = "switch" => token.line = in.line
  /\ at \in InLexeme => Taking

TokenInv ==
  /\ Len(tokens) \in Nat /\ tokens = [i \in 1 .. Len(tokens) |-> tokens[i]]
  /\ InOrder(tokens, Settled)

LexerInv == StreamInv /\ PlaceInv /\ TokenInv

SettledAt ==
  /\ Settled \in Nat /\ Settled <= in.pos
  /\ in.pos \in 0 .. Len(text) /\ Len(text) \in Nat
  /\ at \in {"idle", "getToken"} => Settled = in.pos
  /\ at = "switch" => Settled = IF good(in) THEN in.pos - 1 ELSE in.pos
  /\ at \in InLexeme => Settled = in.pos - Len(lexeme)
  /\ at \in InComment => Settled = in.pos - 1

LEMMA SettledType == StreamInv /\ PlaceInv => SettledAt
<1> SUFFICES ASSUME StreamInv, PlaceInv PROVE SettledAt
  OBVIOUS
<1>1. in.pos \in 0 .. Len(text) /\ Len(text) \in Nat
  BY DEF StreamInv, Text, Counting, Typed
<1>2. /\ at \in {"idle", "getToken"} => Settled = in.pos
      /\ at = "switch" => Settled = IF good(in) THEN in.pos - 1 ELSE in.pos
      /\ at \in InLexeme => Settled = in.pos - Len(lexeme)
      /\ at \in InComment => Settled = in.pos - 1
  BY DEF Settled, InLexeme, InComment
<1>3. at = "switch" /\ good(in) => in.pos > 0
  BY DEF PlaceInv, Fetched, good
<1>4. at \in InLexeme => Len(lexeme) \in 0 .. in.pos
  BY DEF PlaceInv, Taking
<1>5. at \in InComment => in.pos > 0
  BY DEF PlaceInv
<1>6. at \in {"idle", "getToken", "switch"} \cup InLexeme \cup InComment
  BY DEF StreamInv
<1>7. QED
  BY <1>1, <1>2, <1>3, <1>4, <1>5, <1>6 DEF SettledAt

LEMMA Appended ==
  ASSUME Len(tokens) \in Nat, tokens = [i \in 1 .. Len(tokens) |-> tokens[i]], NEW t
  PROVE  /\ Len(Append(tokens, t)) = Len(tokens) + 1
         /\ \A i \in 1 .. Len(tokens) : Append(tokens, t)[i] = tokens[i]
         /\ Append(tokens, t)[Len(tokens) + 1] = t
         /\ Append(tokens, t) =
              [i \in 1 .. Len(Append(tokens, t)) |-> Append(tokens, t)[i]]
<1>1. tokens \in Seq({tokens[i] : i \in 1 .. Len(tokens)} \cup {t})
  OBVIOUS
<1>2. PICK S : tokens \in Seq(S) /\ t \in S
  BY <1>1
<1>3. PICK more : more = Append(tokens, t)
  OBVIOUS
<1>4. /\ more \in Seq(S) /\ Len(more) = Len(tokens) + 1
      /\ \A i \in 1 .. Len(tokens) : more[i] = tokens[i]
      /\ more[Len(tokens) + 1] = t
  BY <1>2, <1>3, AppendProperties
<1>5. more = [i \in 1 .. Len(more) |-> more[i]]
  BY <1>4
<1>6. QED
  BY <1>3, <1>4, <1>5, Zenon

\* What a step that returns or throws leaves to be shown.
LEMMA ReturnsStep ==
  ASSUME LexerInv, at # "idle", Counting(in)', token' = token, in'.line >= in.line,
         in'.pos >= Settled,
         NEW type, NEW lex, NEW value, Returns(type, lex, value),
         \/ type = "END_OF_FILE"
         \/ \E k : /\ k \in Nat \ {0} /\ Len(lex) \in Nat \ {0} /\ Settled < k
                   /\ lex = SubSeq(text, k, k + Len(lex) - 1)
                   /\ token.line = LineOf(k) /\ k + Len(lex) <= in'.pos + 1
  PROVE  LexerInv'
<1> PICK t : t = [type |-> type, lexeme |-> lex, value |-> value,
                  line |-> token.line, col |-> token.col]
  OBVIOUS
<1>1. /\ tokens' = Append(tokens, t) /\ at' = "idle"
      /\ text' = text /\ c' = c /\ thrown' = thrown
  BY DEF Returns
<1>2. t.type = type /\ t.lexeme = lex /\ t.line = token.line
  OBVIOUS
<1>3. StreamInv' /\ PlaceInv'
  BY <1>1 DEF LexerInv, StreamInv, PlaceInv, Text, InLexeme, InComment, Counting, Typed
<1>4. Settled' = in'.pos /\ in'.pos \in Nat
  <2>1. SettledAt'
    BY <1>3, SettledType, PTL
  <2>2. QED
    BY <1>1, <2>1 DEF SettledAt
<1>5. Settled \in Nat
  BY SettledType DEF LexerInv, SettledAt
<1>6. TokenInv'
  <2>1. /\ Len(tokens) \in Nat /\ tokens = [i \in 1 .. Len(tokens) |-> tokens[i]]
        /\ InOrder(tokens, Settled)
    BY DEF LexerInv, TokenInv
  <2>2. PICK more : more = Append(tokens, t)
    OBVIOUS
  <2>3. /\ Len(more) = Len(tokens) + 1 /\ \A i \in 1 .. Len(tokens) : more[i] = tokens[i]
        /\ more[Len(tokens) + 1] = t /\ more = [i \in 1 .. Len(more) |-> more[i]]
    BY <2>1, <2>2, Appended
  <2>4. \/ t.type = "END_OF_FILE"
        \/ \E k : IsPiece(t, k) /\ Settled < k /\ k + Len(t.lexeme) <= in'.pos + 1
    BY <1>2 DEF IsPiece
  <2>5. PICK q : q = Settled
    OBVIOUS
  <2>6. PICK r : r = in'.pos
    OBVIOUS
  <2>7. InOrder(more, r)
    BY <1>4, <1>5, <2>1, <2>3, <2>4, <2>5, <2>6, OrderGrows
  <2>8. InOrder(tokens, Settled)' = InOrder(more, r)
    BY <1>1, <1>4, <2>2, <2>6 DEF InOrder, Placed, IsPiece, LineOf
  <2>9. QED
    BY <1>1, <2>2, <2>1, <2>3, <2>7, <2>8 DEF TokenInv
<1>7. QED
  BY <1>3, <1>6 DEF LexerInv

\* A step that adds no token.
LEMMA QuietStep ==
  ASSUME LexerInv, text' = text, tokens' = tokens, StreamInv', PlaceInv',
         Settled <= Settled'
  PROVE  LexerInv'
<1>1. Settled \in Nat /\ Settled' \in Nat
  <2>1. Settled \in Nat
    BY SettledType DEF LexerInv, SettledAt
  <2>2. SettledAt'
    BY SettledType, PTL
  <2>3. QED
    BY <2>1, <2>2 DEF SettledAt
<1>2. InOrder(tokens, Settled) /\ Len(tokens) \in Nat
      /\ tokens = [i \in 1 .. Len(tokens) |-> tokens[i]]
  BY DEF LexerInv, TokenInv
<1>3. PICK q : q = Settled'
  OBVIOUS
<1>4. InOrder(tokens, q)
  BY <1>1, <1>2, <1>3, OrderWidens
<1>5. InOrder(tokens, Settled)' = InOrder(tokens, q)
  BY <1>3 DEF InOrder, Placed, IsPiece, LineOf
<1>6. QED
  BY <1>2, <1>4, <1>5 DEF LexerInv, TokenInv

LEMMA ThrowsStep ==
  ASSUME LexerInv, Counting(in)', token' = token, in'.line >= in.line,
         in'.pos >= Settled, NEW exception \in {"LexerException", "out_of_range"},
         Throws(exception)
  PROVE  LexerInv'
<1>1. /\ tokens' = tokens /\ at' = "idle" /\ thrown' = exception
      /\ text' = text /\ c' = c
  BY DEF Throws
<1>2. StreamInv' /\ PlaceInv'
  BY <1>1 DEF LexerInv, StreamInv, PlaceInv, Text, InLexeme, InComment, Counting, Typed
<1>3. SettledAt'
  BY <1>2, SettledType, PTL
<1>4. Settled' = in'.pos
  BY <1>1, <1>3 DEF SettledAt
<1>5. QED
  BY <1>1, <1>2, <1>4, QuietStep

LEMMA CountingNext ==
  ASSUME text' = text, NEW s, in' = s, Counting(s)
  PROVE  Counting(in)'
BY DEF Counting, Typed, LineOf

LEMMA InitInv == LexerAssumption /\ Init => LexerInv
<1> SUFFICES ASSUME Init PROVE LexerInv
  OBVIOUS
<1>1. text \in Seq(STRING) /\ Len(text) \in Nat
  BY LexerAssumption DEF Init
<1>2. LineOf(0) = 1
  <2>1. {j \in 1 .. 0 : text[j] = "\n"} = {}
    OBVIOUS
  <2>2. Cardinality({}) = 0
    BY FS_EmptySet
  <2>3. QED
    BY <2>1, <2>2 DEF LineOf
<1>3. Counting(in)
  BY <1>1, <1>2 DEF Init, Counting, Typed
<1>4. StreamInv /\ PlaceInv
  BY <1>1, <1>2, <1>3 DEF Init, StreamInv, PlaceInv, Text, InLexeme, InComment
<1>5. TokenInv
  <2>1. Len(tokens) = 0 /\ tokens = [i \in 1 .. Len(tokens) |-> tokens[i]]
    BY DEF Init
  <2>2. Placed(tokens, Settled, << >>)
    BY <2>1 DEF Placed
  <2>3. QED
    BY <2>1, <2>2 DEF TokenInv, InOrder
<1>6. QED
  BY <1>4, <1>5 DEF LexerInv

LEMMA CallInv == LexerInv /\ call => LexerInv'
<1> SUFFICES ASSUME LexerInv, call PROVE LexerInv'
  OBVIOUS
<1>1. /\ at = "idle" /\ at' = "getToken" /\ text' = text /\ tokens' = tokens
      /\ thrown' = thrown /\ in' = in /\ token' = token /\ c' = c /\ lexeme' = lexeme
  BY DEF call, Goes
<1>2. StreamInv' /\ PlaceInv'
  BY <1>1 DEF LexerInv, StreamInv, PlaceInv, Text, InLexeme, InComment, Counting,
              Typed, LineOf
<1>3. Settled <= Settled'
  <2>1. SettledAt /\ SettledAt'
    BY <1>2, SettledType, PTL DEF LexerInv
  <2>2. QED
    BY <1>1, <2>1 DEF SettledAt
<1>4. QED
  BY <1>1, <1>2, <1>3, QuietStep

LEMMA GetTokenInv == LexerInv /\ getToken => LexerInv'
<1> SUFFICES ASSUME LexerInv, getToken PROVE LexerInv'
  OBVIOUS
<1>1. PICK s : s = getChar(in)
  OBVIOUS
<1>2. PICK ch : ch = NextChar(in)
  OBVIOUS
<1>3. /\ at = "getToken" /\ at' = "switch" /\ text' = text /\ tokens' = tokens
      /\ thrown' = thrown /\ in' = s /\ c' = ch /\ lexeme' = lexeme
      /\ token' = [line |-> s.line, col |-> s.col]
  BY <1>1, <1>2 DEF getToken, Goes
<1>4. /\ Fetched(s, ch) /\ s.pos >= in.pos /\ s.line >= in.line
      /\ good(s) => s.pos > in.pos
  BY <1>1, <1>2, CharFetched DEF LexerInv, StreamInv
<1>5. Counting(s) /\ s.line \in Nat /\ s.col \in Nat /\ s.pos \in Nat
  BY <1>4 DEF Fetched, Counting, Typed
<1>6. StreamInv'
  <2>1. Counting(in)'
    BY <1>3, <1>5, CountingNext
  <2>2. QED
    BY <1>3, <1>5, <2>1 DEF LexerInv, StreamInv, Text
<1>7. PlaceInv'
  <2>1. Fetched(in, c)'
    <3>1. Counting(in)'
      BY <1>3, <1>5, CountingNext
    <3>2. QED
      BY <1>3, <1>4, <3>1 DEF Fetched, good
  <2>2. QED
    BY <1>3, <2>1 DEF PlaceInv, InLexeme, InComment
<1>8. Settled <= Settled'
  <2>1. SettledAt /\ SettledAt'
    BY <1>6, <1>7, SettledType, PTL DEF LexerInv
  <2>2. Settled = in.pos /\ in.pos \in Nat
    BY <1>3, <2>1 DEF SettledAt
  <2>3. Settled' = IF good(s) THEN s.pos - 1 ELSE s.pos
    BY <1>3, <2>1 DEF SettledAt, good
  <2>4. QED
    BY <1>4, <1>5, <2>2, <2>3
<1>9. QED
  BY <1>3, <1>6, <1>7, <1>8, QuietStep

\* The character that the switch is on.
LEMMA SwitchChar ==
  ASSUME LexerInv, at = "switch"
  PROVE  /\ Counting(in) /\ in.pos \in Nat /\ SettledAt
         /\ Settled <= in.pos /\ Settled \in Nat /\ in.pos <= Len(text)
         /\ Len(text) \in Nat
         /\ c # "eof" =>
              /\ good(in) /\ in.pos \in Nat \ {0} /\ text[in.pos] = c
              /\ Settled = in.pos - 1
              /\ << c >> = SubSeq(text, in.pos, in.pos + Len(<< c >>) - 1)
              /\ token.line = LineOf(in.pos)
<1>1. SettledAt
  BY SettledType DEF LexerInv
<1>2. Fetched(in, c) /\ Counting(in) /\ token.line = in.line /\ Text
  BY DEF LexerInv, StreamInv, PlaceInv
<1>3. /\ in.pos \in Nat /\ Settled <= in.pos /\ Settled \in Nat
      /\ in.pos <= Len(text) /\ Len(text) \in Nat
  BY <1>1 DEF SettledAt
<1>4. ASSUME c # "eof"
      PROVE  /\ good(in) /\ in.pos \in Nat \ {0} /\ text[in.pos] = c
             /\ Settled = in.pos - 1 /\ token.line = LineOf(in.pos)
  <2>1. good(in) /\ in.pos > 0 /\ text[in.pos] = c
    BY <1>2, <1>4 DEF Fetched
  <2>2. QED
    BY <1>1, <1>2, <1>3, <2>1 DEF SettledAt, Counting
<1>5. ASSUME c # "eof"
      PROVE  << c >> = SubSeq(text, in.pos, in.pos + Len(<< c >>) - 1)
  <2>1. Len(<< c >>) = 1 /\ << c >>[1] = c
    OBVIOUS
  <2>2. PICK k : k = in.pos
    OBVIOUS
  <2>3. k \in 1 .. Len(text) /\ text[k] = c
    BY <1>3, <1>4, <1>5, <2>2
  <2>4. SubSeq(text, k, k) = << text[k] >>
    BY <1>2, <2>3, OnePiece DEF Text
  <2>5. k + 1 - 1 = k
    BY <2>3
  <2>6. QED
    BY <2>1, <2>2, <2>3, <2>4, <2>5
<1>6. QED
  BY <1>1, <1>2, <1>3, <1>4, <1>5

LEMMA EndOfFileInv == LexerInv /\ endOfFile => LexerInv'
<1> SUFFICES ASSUME LexerInv, endOfFile PROVE LexerInv'
  OBVIOUS
<1>1. /\ at = "switch" /\ in' = in /\ token' = token
      /\ Returns("END_OF_FILE", << >>, NoValue)
  BY DEF endOfFile, Switch
<1>2. Counting(in) /\ in.pos \in Nat /\ Settled <= in.pos /\ Settled \in Nat
  BY <1>1, SwitchChar
<1>3. Counting(in)' /\ in'.line >= in.line /\ in'.pos >= Settled
  <2>1. text' = text
    BY <1>1 DEF Returns
  <2>2. Counting(in)'
    BY <1>1, <1>2, <2>1, CountingNext
  <2>3. QED
    BY <1>1, <1>2, <2>2 DEF Counting, Typed
<1>4. at # "idle"
  BY <1>1
<1>5. QED
  BY <1>1, <1>3, <1>4, ReturnsStep

LEMMA PunctuatorInv == LexerInv /\ punctuator => LexerInv'
<1> SUFFICES ASSUME LexerInv, punctuator PROVE LexerInv'
  OBVIOUS
<1>1. /\ at = "switch" /\ in' = in /\ token' = token /\ c \in DOMAIN Punctuators
      /\ Returns(Punctuators[c], << c >>, NoValue)
  BY DEF punctuator, Switch
<1>2. c # "eof"
  BY <1>1 DEF Punctuators
<1>3. /\ Counting(in) /\ in.pos \in Nat \ {0} /\ Settled = in.pos - 1
      /\ << c >> = SubSeq(text, in.pos, in.pos + Len(<< c >>) - 1)
      /\ token.line = LineOf(in.pos)
  BY <1>1, <1>2, SwitchChar
<1>4. Counting(in)' /\ in'.line >= in.line /\ in'.pos >= Settled
  <2>1. text' = text
    BY <1>1 DEF Returns
  <2>2. Counting(in)'
    BY <1>1, <1>3, <2>1, CountingNext
  <2>3. QED
    BY <1>1, <1>3, <2>2 DEF Counting, Typed
<1>5. \E k : /\ k \in Nat \ {0} /\ Len(<< c >>) \in Nat \ {0} /\ Settled < k
             /\ << c >> = SubSeq(text, k, k + Len(<< c >>) - 1)
             /\ token.line = LineOf(k) /\ k + Len(<< c >>) <= in'.pos + 1
  <2>1. Len(<< c >>) = 1 /\ Settled < in.pos
    BY <1>3
  <2>2. QED
    BY <1>1, <1>3, <2>1
<1>6. at # "idle"
  BY <1>1
<1> HIDE DEF Punctuators, NoValue
<1>7. QED
  BY <1>1, <1>4, <1>5, <1>6, ReturnsStep

\* A character, or two of them, that make a token.
LEMMA SymbolReturned ==
  ASSUME LexerInv, at = "switch", c # "eof", token' = token, text' = text,
         NEW s, in' = s, Counting(s), s.line >= in.line, s.pos >= in.pos,
         NEW lex,
         \/ lex = << c >>
         \/ /\ s.pos = in.pos + 1 /\ lex = << c, text[s.pos] >>
         , NEW type, NEW value, Returns(type, lex, value)
  PROVE  LexerInv'
<1>1. /\ Counting(in) /\ in.pos \in Nat \ {0} /\ Settled = in.pos - 1
      /\ << c >> = SubSeq(text, in.pos, in.pos + Len(<< c >>) - 1)
      /\ token.line = LineOf(in.pos) /\ text[in.pos] = c
      /\ in.pos <= Len(text) /\ Len(text) \in Nat
  BY SwitchChar
<1>2. s.pos \in 0 .. Len(text)
  BY DEF Counting, Typed
<1>3. /\ Len(lex) \in 1 .. 2 /\ in.pos + Len(lex) <= s.pos + 1
      /\ lex = SubSeq(text, in.pos, in.pos + Len(lex) - 1)
  <2>1. CASE lex = << c >>
    <3>1. Len(<< c >>) = 1
      OBVIOUS
    <3>2. in.pos + 1 <= s.pos + 1
      BY <1>1, <1>2
    <3>3. QED
      BY <1>1, <2>1, <3>1, <3>2
  <2>2. CASE s.pos = in.pos + 1 /\ lex = << c, text[s.pos] >>
    <3>1. PICK k : k = in.pos
      OBVIOUS
    <3>2. k \in Nat \ {0} /\ k + 1 <= Len(text) /\ k + 1 = s.pos
      BY <1>1, <1>2, <2>2, <3>1
    <3>3. SubSeq(text, k, k + 1) = << text[k], text[k + 1] >>
      <4>1. text \in Seq(STRING)
        BY DEF LexerInv, StreamInv, Text
      <4>2. k \in 1 .. Len(text) - 1
        BY <1>1, <3>2
      <4>3. QED
        BY <4>1, <4>2, TwoPieces
    <3>4. Len(lex) = 2
      BY <2>2
    <3>5. lex = SubSeq(text, k, k + 1)
      BY <1>1, <2>2, <3>1, <3>2, <3>3
    <3>6. k + 2 - 1 = k + 1 /\ k + 2 <= s.pos + 1
      BY <3>2
    <3>7. QED
      BY <3>1, <3>4, <3>5, <3>6
  <2>3. QED
    BY <2>1, <2>2
<1>4. Counting(in)' /\ in'.line >= in.line /\ in'.pos >= Settled
  <2>1. Counting(in)'
    BY CountingNext
  <2>2. QED
    BY <1>1, <1>2, <2>1
<1>5. \E k : /\ k \in Nat \ {0} /\ Len(lex) \in Nat \ {0} /\ Settled < k
             /\ lex = SubSeq(text, k, k + Len(lex) - 1)
             /\ token.line = LineOf(k) /\ k + Len(lex) <= in'.pos + 1
  <2>1. PICK n : n = Len(lex)
    OBVIOUS
  <2>2. n \in 1 .. 2
    BY <1>3, <2>1
  <2>3. n \in Nat \ {0}
    BY <2>2
  <2>4. Settled < in.pos
    BY <1>1
  <2>5. QED
    BY <1>1, <1>3, <2>1, <2>3, <2>4
<1>6. QED
  BY <1>4, <1>5, ReturnsStep

LEMMA NextOrElseInv == LexerInv /\ nextOrElse => LexerInv'
<1> SUFFICES ASSUME LexerInv, nextOrElse PROVE LexerInv'
  OBVIOUS
<1>1. at = "switch" /\ token' = token /\ c \in DOMAIN NextOrElse
  BY DEF nextOrElse, Switch
<1>2. c # "eof" /\ NextOrElse[c][1] \in {"+", "-", "="}
  BY <1>1 DEF NextOrElse
<1> HIDE DEF NextOrElse, NoValue
<1>3. Counting(in) /\ Text
  BY DEF LexerInv, StreamInv
<1>4. CASE /\ peekChar(in) = NextOrElse[c][1]
           /\ in' = getChar(peek(in))
           /\ Returns(NextOrElse[c][2], << c, NextChar(in) >>, NoValue)
  <2>1. PICK ch : ch = peekChar(in)
    OBVIOUS
  <2>2. ch \in {"+", "-", "="}
    BY <1>2, <1>4, <2>1
  <2>3. ch # "eof" /\ ch \notin Whitespace
    BY <2>2 DEF Whitespace
  <2>4. peek(in) = in /\ Ready(in, ch)
    BY <1>3, <2>1, <2>3, PeekedAt
  <2>5. PICK s : s = getChar(in)
    OBVIOUS
  <2>6. NextChar(in) = ch /\ s.pos = in.pos + 1 /\ Counting(s) /\ s.line = in.line
    BY <1>3, <2>4, <2>5, ReadyFetched
  <2>7. text[s.pos] = ch
    BY <2>4, <2>6 DEF Ready
  <2>8. in' = s /\ text' = text
    BY <1>4, <2>4, <2>5 DEF Returns
  <2>9. s.line >= in.line /\ s.pos >= in.pos
    BY <1>3, <2>6 DEF Counting, Typed
  <2>10. QED
    BY <1>1, <1>2, <1>4, <2>6, <2>7, <2>8, <2>9, SymbolReturned
<1>5. CASE /\ peekChar(in) # NextOrElse[c][1]
           /\ in' = peek(in)
           /\ Returns(NextOrElse[c][3], << c >>, NoValue)
  <2>1. PICK s : s = peek(in)
    OBVIOUS
  <2>2. Counting(s) /\ s.pos = in.pos /\ s.line = in.line
    BY <1>3, <2>1, PeekedAt
  <2>3. in' = s /\ text' = text
    BY <1>5, <2>1 DEF Returns
  <2>4. s.line >= in.line /\ s.pos >= in.pos
    BY <1>3, <2>2 DEF Counting, Typed
  <2>5. QED
    BY <1>1, <1>2, <1>5, <2>2, <2>3, <2>4, SymbolReturned
<1>6. QED
  BY <1>4, <1>5, Zenon DEF nextOrElse

LEMMA SlashInv == LexerInv /\ slash => LexerInv'
<1> SUFFICES ASSUME LexerInv, slash PROVE LexerInv'
  OBVIOUS
<1>1. at = "switch" /\ token' = token /\ lexeme' = lexeme /\ c = "/"
  BY DEF slash, Switch
<1>2. Counting(in) /\ Text /\ c # "eof"
  BY <1>1 DEF LexerInv, StreamInv
<1>3. CASE /\ peekChar(in) = "*"
           /\ in' = getChar(peek(in))
           /\ Goes("openComment") /\ UNCHANGED c
  <2>1. PICK ch : ch = peekChar(in)
    OBVIOUS
  <2>2. ch = "*" /\ ch # "eof" /\ ch \notin Whitespace
    BY <1>3, <2>1 DEF Whitespace
  <2>3. peek(in) = in /\ Ready(in, ch)
    BY <1>2, <2>1, <2>2, PeekedAt
  <2>4. PICK s : s = getChar(in)
    OBVIOUS
  <2>5. s.pos = in.pos + 1 /\ Counting(s) /\ s.line = in.line
    BY <1>2, <2>3, <2>4, ReadyFetched
  <2>6. /\ in' = s /\ text' = text /\ at' = "openComment" /\ tokens' = tokens
        /\ thrown' = thrown
    BY <1>3, <2>3, <2>4 DEF Goes
  <2>7. /\ Settled = in.pos - 1 /\ in.pos \in Nat \ {0}
    BY <1>1, <1>2, SwitchChar
  <2>8. StreamInv' /\ PlaceInv'
    <3>1. Counting(in)'
      BY <2>5, <2>6, CountingNext
    <3>2. StreamInv'
      BY <1>1, <2>5, <2>6, <3>1 DEF LexerInv, StreamInv, Text, InComment
    <3>3. PlaceInv'
      BY <2>5, <2>6, <2>7 DEF PlaceInv, InComment, InLexeme
    <3>4. QED
      BY <3>2, <3>3
  <2>9. Settled <= Settled'
    <3>1. SettledAt'
      BY <2>8, SettledType, PTL
    <3>2. Settled' = s.pos - 1
      BY <2>6, <3>1 DEF SettledAt, InComment
    <3>3. QED
      BY <2>5, <2>7, <3>2
  <2>10. QED
    BY <2>6, <2>8, <2>9, QuietStep
<1>4. CASE /\ peekChar(in) # "*"
           /\ in' = peek(in)
           /\ Returns("DIVIDE", << "/" >>, NoValue)
  <2>1. PICK s : s = peek(in)
    OBVIOUS
  <2>2. Counting(s) /\ s.pos = in.pos /\ s.line = in.line
    BY <1>2, <2>1, PeekedAt
  <2>3. in' = s /\ text' = text
    BY <1>4, <2>1 DEF Returns
  <2>4. s.line >= in.line /\ s.pos >= in.pos
    BY <1>2, <2>2 DEF Counting, Typed
  <2>5. Returns("DIVIDE", << c >>, NoValue)
    BY <1>1, <1>4
  <2>6. QED
    BY <1>1, <1>2, <2>2, <2>3, <2>4, <2>5, SymbolReturned
<1>5. QED
  BY <1>3, <1>4, Zenon DEF slash

\* A character that may go on a lexeme.
GoesOn(ch) == is_alphanum(ch) \/ ch \in {"_", "."}

LEMMA AlphanumVisible ==
  ASSUME NEW ch, GoesOn(ch)
  PROVE  ch \notin Whitespace /\ ch # "eof"
BY DEF GoesOn, is_alphanum, is_alpha, is_digit, Digits, Whitespace

LEMMA OtherCharInv == LexerInv /\ otherChar => LexerInv'
<1> SUFFICES ASSUME LexerInv, otherChar PROVE LexerInv'
  OBVIOUS
<1>1. at = "switch" /\ token' = token /\ lexeme' = << >>
  BY DEF otherChar
<1>2. Counting(in) /\ Text /\ Fetched(in, c)
  BY <1>1 DEF LexerInv, StreamInv, PlaceInv
<1>3. CASE UNCHANGED in /\ Throws("LexerException")
  <2>1. /\ in' = in /\ text' = text /\ in.pos \in Nat
        /\ Settled <= in.pos /\ Settled \in Nat
    BY <1>1, <1>3, SwitchChar DEF Throws
  <2>2. Counting(in)'
    BY <1>2, <2>1, CountingNext
  <2>3. in'.line >= in.line /\ in'.pos >= Settled
    BY <1>2, <2>1 DEF Counting, Typed
  <2>4. at # "idle"
    BY <1>1
  <2>5. QED
    BY <1>1, <1>3, <2>2, <2>3, <2>4, ThrowsStep
<1>4. CASE /\ is_alphanum(c)
           /\ in' = ungetChar(in)
           /\ Goes(IF is_digit(c) THEN "lexLiteral" ELSE "lexKeywordID")
           /\ UNCHANGED c
  <2>1. c # "eof"
    BY <1>4, AlphanumVisible DEF GoesOn
  <2>2. /\ good(in) /\ in.pos \in Nat \ {0} /\ text[in.pos] = c
        /\ Settled = in.pos - 1 /\ token.line = LineOf(in.pos)
    BY <1>1, <2>1, SwitchChar
  <2>3. PICK s : s = ungetChar(in)
    OBVIOUS
  <2>4. Counting(s) /\ s.line = in.line /\ s.pos = in.pos - 1 /\ Ready(s, c)
    BY <1>2, <2>2, <2>3, CharPutBack
  <2>5. /\ in' = s /\ text' = text /\ at' \in {"lexLiteral", "lexKeywordID"}
        /\ tokens' = tokens /\ thrown' = thrown /\ c' = c
    BY <1>4, <2>3 DEF Goes
  <2>6. StreamInv'
    <3>1. Counting(in)'
      BY <2>4, <2>5, CountingNext
    <3>2. QED
      BY <1>1, <2>4, <2>5, <3>1 DEF LexerInv, StreamInv, Text, InLexeme
  <2>7. PlaceInv'
    <3>1. Ready(in, c)'
      BY <2>4, <2>5 DEF Ready, good
    <3>2. /\ Len(lexeme') = 0 /\ in'.pos - 0 + 1 = in.pos /\ in'.pos \in Nat
          /\ in'.pos < in.pos
      BY <1>1, <2>2, <2>4, <2>5
    <3>3. lexeme' = SubSeq(text, in'.pos - Len(lexeme') + 1, in'.pos)
      <4>1. SubSeq(text, in.pos, in'.pos) = << >>
        BY <2>2, <3>2, SubSeqEmpty
      <4>2. QED
        BY <1>1, <3>2, <4>1
    <3>4. token'.line = LineOf(in'.pos - Len(lexeme') + 1)
      BY <1>1, <2>2, <3>2
    <3>5. Taking'
      BY <2>5, <3>1, <3>2, <3>3, <3>4 DEF Taking, LineOf
    <3>6. QED
      BY <2>5, <3>5 DEF PlaceInv, InLexeme, InComment
  <2>8. Settled <= Settled'
    <3>1. SettledAt'
      BY <2>6, <2>7, SettledType, PTL
    <3>2. Settled' = s.pos - 0
      BY <1>1, <2>5, <3>1 DEF SettledAt, InLexeme
    <3>3. QED
      BY <2>2, <2>4, <3>2
  <2>9. QED
    BY <2>5, <2>6, <2>7, <2>8, QuietStep
<1>5. QED
  BY <1>3, <1>4, Zenon DEF otherChar

\* The next character goes to the lexeme.
LEMMA TakenChar ==
  ASSUME LexerInv, at \in InLexeme, Takes
  PROVE  /\ Counting(in') /\ in'.pos = in.pos + 1 /\ in'.line = in.line
         /\ token' = token /\ in.pos \in Nat /\ Settled \in Nat
         /\ Settled <= in.pos /\ token.line = LineOf(Settled + 1)
         /\ Len(lexeme') = in.pos + 1 - Settled
         /\ lexeme' = SubSeq(text, Settled + 1, in'.pos)
         /\ Following \notin Whitespace /\ Following # "eof" => Ready(in', Following)
<1>1. /\ Counting(in) /\ Text /\ \E ch : Ready(in, ch)
      /\ Len(lexeme) \in 0 .. in.pos
      /\ lexeme = SubSeq(text, in.pos - Len(lexeme) + 1, in.pos)
      /\ token.line = LineOf(in.pos - Len(lexeme) + 1)
  BY DEF LexerInv, StreamInv, PlaceInv, Taking
<1>2. PICK ch : Ready(in, ch)
  BY <1>1
<1>3. PICK s : s = getChar(in)
  OBVIOUS
<1>4. /\ NextChar(in) = ch /\ s.pos = in.pos + 1 /\ good(s) /\ Counting(s)
      /\ s.line = in.line
  BY <1>1, <1>2, <1>3, ReadyFetched
<1>5. PICK q : q = peek(s)
  OBVIOUS
<1>6. Counting(q) /\ q.pos = s.pos /\ q.line = s.line
  BY <1>1, <1>4, <1>5, PeekedAt
<1>7. PICK r : r = peek(q)
  OBVIOUS
<1>8. Counting(r) /\ r.pos = s.pos /\ r.line = s.line
  BY <1>1, <1>6, <1>7, PeekedAt
<1>9. in' = r /\ token' = token /\ lexeme' = Append(lexeme, ch)
  BY <1>3, <1>4, <1>5, <1>7, Zenon DEF Takes, peeked
<1>10. /\ in.pos \in 0 .. Len(text) /\ Len(text) \in Nat
       /\ in.pos # Len(text) /\ text[in.pos + 1] = ch
  BY <1>1, <1>2 DEF Counting, Typed, Text, Ready
<1>11. Settled = in.pos - Len(lexeme) /\ Settled \in Nat /\ Settled <= in.pos
  BY SettledType DEF LexerInv, SettledAt
<1>12. PICK n : n = Len(lexeme)
  OBVIOUS
<1>13. PICK m : m = in.pos
  OBVIOUS
<1>14. PICK k : k = m - n + 1
  OBVIOUS
<1>15. /\ k \in 1 .. Len(text) /\ m \in k - 1 .. Len(text) - 1 /\ n \in Nat
       /\ k = Settled + 1 /\ m - k + 2 = m + 1 - Settled
  <2>1. n \in 0 .. m /\ m \in 0 .. Len(text) /\ m # Len(text)
    BY <1>1, <1>10, <1>12, <1>13
  <2>2. Settled = m - n
    BY <1>11, <1>12, <1>13
  <2>3. QED
    BY <1>10, <1>14, <2>1, <2>2
<1>16. lexeme = SubSeq(text, k, m) /\ token.line = LineOf(k)
  BY <1>1, <1>12, <1>13, <1>14
<1>17. lexeme' = SubSeq(text, k, m + 1) /\ Len(lexeme') = m + 1 - Settled
  <2>1. /\ Append(SubSeq(text, k, m), text[m + 1]) = SubSeq(text, k, m + 1)
        /\ Len(SubSeq(text, k, m + 1)) = m - k + 2
    BY <1>1, <1>15, PieceGrows DEF Text
  <2>2. lexeme' = Append(SubSeq(text, k, m), text[m + 1])
    BY <1>9, <1>10, <1>13, <1>16, Zenon
  <2>3. lexeme' = SubSeq(text, k, m + 1)
    BY <2>1, <2>2, Zenon
  <2>4. QED
    BY <1>15, <2>1, <2>3
<1>18. Following \notin Whitespace /\ Following # "eof" => Ready(r, Following)
  <2>1. PICK f : f = Following
    OBVIOUS
  <2> SUFFICES ASSUME f \notin Whitespace, f # "eof" PROVE Ready(r, f)
    BY <2>1
  <2>2. peekChar(s) = f
    BY <1>3, <2>1 DEF Following
  <2>3. q = s
    BY <1>1, <1>4, <1>5, <2>2, PeekedAt
  <2>4. r = s /\ Ready(s, f)
    BY <1>1, <1>4, <1>5, <1>7, <2>2, <2>3, PeekedAt
  <2>5. QED
    BY <2>4
<1>19. in'.pos = m + 1 /\ in'.pos = in.pos + 1 /\ in'.line = in.line /\ Counting(in')
  BY <1>4, <1>8, <1>9, <1>13
<1>20. in.pos \in Nat /\ in' = r /\ token' = token
  BY <1>9, <1>10
<1>21. lexeme' = SubSeq(text, Settled + 1, in'.pos) /\ token.line = LineOf(Settled + 1)
  BY <1>15, <1>16, <1>17, <1>19
<1>22. QED
  BY <1>11, <1>13, <1>17, <1>18, <1>19, <1>20, <1>21

LEMMA TakesOn ==
  ASSUME LexerInv, at \in InLexeme, Takes, NEW method \in InLexeme, Goes(method),
         GoesOn(Following)
  PROVE  LexerInv'
<1>1. /\ text' = text /\ tokens' = tokens /\ thrown' = thrown /\ at' = method
  BY DEF Goes
<1>2. PICK f : f = Following
  OBVIOUS
<1>3. f \notin Whitespace /\ f # "eof"
  BY <1>2, AlphanumVisible
<1>4. /\ Counting(in') /\ in'.pos = in.pos + 1 /\ in'.line = in.line
      /\ token' = token /\ in.pos \in Nat /\ Settled \in Nat
      /\ Settled <= in.pos /\ token.line = LineOf(Settled + 1)
      /\ Len(lexeme') = in.pos + 1 - Settled
      /\ lexeme' = SubSeq(text, Settled + 1, in'.pos)
      /\ Ready(in', f)
  BY <1>2, <1>3, TakenChar
<1>5. PICK s : s = in'
  OBVIOUS
<1>6. StreamInv'
  <2>1. Counting(in)'
    BY <1>1, <1>4, <1>5, CountingNext
  <2>2. QED
    BY <1>1, <1>4, <2>1 DEF LexerInv, StreamInv, Text, InLexeme
<1>7. PlaceInv'
  <2>1. Ready(in, f)'
    BY <1>1, <1>4 DEF Ready, good
  <2>2. in'.pos - Len(lexeme') + 1 = Settled + 1 /\ Len(lexeme') \in 0 .. in'.pos
    <3>1. PICK n : n = Len(lexeme')
      OBVIOUS
    <3>2. PICK q : q = in'.pos
      OBVIOUS
    <3>3. q = in.pos + 1 /\ n = in.pos + 1 - Settled
      BY <1>4, <3>1, <3>2
    <3>4. in.pos \in Nat /\ Settled \in Nat /\ Settled <= in.pos
      BY <1>4
    <3>5. q - n + 1 = Settled + 1 /\ n \in 0 .. q
      BY <3>3, <3>4
    <3>6. QED
      BY <3>1, <3>2, <3>5
  <2>3. Taking'
    BY <1>1, <1>4, <2>1, <2>2 DEF Taking, LineOf
  <2>4. QED
    BY <1>1, <2>3 DEF PlaceInv, InLexeme, InComment
<1>8. Settled <= Settled'
  <2>1. SettledAt'
    BY <1>6, <1>7, SettledType, PTL
  <2>2. PICK n : n = Len(lexeme')
    OBVIOUS
  <2>3. PICK q : q = in'.pos
    OBVIOUS
  <2>4. Settled' = q - n
    BY <1>1, <2>1, <2>2, <2>3 DEF SettledAt, InLexeme
  <2>5. q = in.pos + 1 /\ n = in.pos + 1 - Settled
    BY <1>4, <2>2, <2>3
  <2>6. QED
    BY <1>4, <2>4, <2>5
<1>9. QED
  BY <1>1, <1>6, <1>7, <1>8, QuietStep

LEMMA TakesLast ==
  ASSUME LexerInv, at \in InLexeme, Takes, NEW type, NEW value,
         Returns(type, lexeme', value)
  PROVE  LexerInv'
<1>1. /\ Counting(in') /\ in'.pos = in.pos + 1 /\ in'.line = in.line
      /\ token' = token /\ in.pos \in Nat /\ Settled \in Nat
      /\ Settled <= in.pos /\ token.line = LineOf(Settled + 1)
      /\ Len(lexeme') = in.pos + 1 - Settled
      /\ lexeme' = SubSeq(text, Settled + 1, in'.pos)
  BY TakenChar
<1>2. text' = text /\ at # "idle"
  BY DEF Returns, InLexeme
<1>3. PICK s : s = in'
  OBVIOUS
<1>4. Counting(in)' /\ in'.line >= in.line /\ in'.pos >= Settled
  <2>1. Counting(in)'
    BY <1>1, <1>2, <1>3, CountingNext
  <2>2. in.line \in Nat
    BY DEF LexerInv, StreamInv, Counting, Typed
  <2>3. QED
    BY <1>1, <2>1, <2>2
<1>5. PICK lex : lex = lexeme'
  OBVIOUS
<1>6. \E k : /\ k \in Nat \ {0} /\ Len(lex) \in Nat \ {0} /\ Settled < k
             /\ lex = SubSeq(text, k, k + Len(lex) - 1)
             /\ token.line = LineOf(k) /\ k + Len(lex) <= in'.pos + 1
  <2>1. PICK k : k = Settled + 1
    OBVIOUS
  <2>2. PICK n : n = Len(lex)
    OBVIOUS
  <2>3. /\ k \in Nat \ {0} /\ n \in Nat \ {0} /\ Settled < k
        /\ k + n - 1 = in'.pos /\ k + n <= in'.pos + 1
    <3>1. n = in.pos + 1 - Settled
      BY <1>1, <1>5, <2>2
    <3>2. PICK q : q = in'.pos
      OBVIOUS
    <3>3. q = in.pos + 1
      BY <1>1, <3>2
    <3>4. /\ k \in Nat \ {0} /\ n \in Nat \ {0} /\ Settled < k
          /\ k + n - 1 = q /\ k + n <= q + 1
      <4>1. in.pos \in Nat /\ Settled \in Nat /\ Settled <= in.pos
        BY <1>1
      <4>2. QED
        BY <2>1, <3>1, <3>3, <4>1
    <3>5. QED
      BY <3>2, <3>4
  <2>4. QED
    BY <1>1, <1>5, <2>1, <2>2, <2>3
<1>7. Returns(type, lex, value)
  BY <1>5
<1>8. QED
  BY <1>1, <1>2, <1>4, <1>6, <1>7, ReturnsStep

LEMMA TakesThrows ==
  ASSUME LexerInv, at \in InLexeme, Takes,
         NEW exception \in {"LexerException", "out_of_range"}, Throws(exception)
  PROVE  LexerInv'
<1>1. /\ Counting(in') /\ in'.pos = in.pos + 1 /\ in'.line = in.line
      /\ token' = token /\ in.pos \in Nat /\ Settled \in Nat /\ Settled <= in.pos
  BY TakenChar
<1>2. text' = text
  BY DEF Throws
<1>3. PICK s : s = in'
  OBVIOUS
<1>4. Counting(in)' /\ in'.line >= in.line /\ in'.pos >= Settled
  <2>1. Counting(in)'
    BY <1>1, <1>2, <1>3, CountingNext
  <2>2. in.line \in Nat
    BY DEF LexerInv, StreamInv, Counting, Typed
  <2>3. QED
    BY <1>1, <2>1, <2>2
<1>5. QED
  BY <1>1, <1>4, ThrowsStep

LEMMA LexLiteralInv == LexerInv /\ lexLiteral => LexerInv'
<1> SUFFICES ASSUME LexerInv, lexLiteral PROVE LexerInv'
  OBVIOUS
<1>1. at \in InLexeme /\ Takes
  BY DEF lexLiteral, InLexeme
<1>2. CASE /\ Following \in {"_", "."} \/ is_digit(Following)
           /\ Goes("lexLiteral") /\ UNCHANGED c
  <2>1. GoesOn(Following)
    BY <1>2, Zenon DEF GoesOn, is_alphanum
  <2>2. QED
    BY <1>1, <1>2, <2>1, TakesOn, Zenon DEF InLexeme
<1>3. CASE is_alpha(Following) /\ Goes("badLiteral") /\ UNCHANGED c
  <2>1. GoesOn(Following)
    BY <1>3, Zenon DEF GoesOn, is_alphanum
  <2>2. QED
    BY <1>1, <1>3, <2>1, TakesOn, Zenon DEF InLexeme
<1>4. CASE literalEnd(lexeme')
  <2>1. \/ \E type, value : Returns(type, lexeme', value)
        \/ \E exception \in {"LexerException", "out_of_range"} : Throws(exception)
    BY <1>4, Zenon DEF literalEnd
  <2>2. QED
    BY <1>1, <2>1, TakesLast, TakesThrows
<1>5. QED
  BY <1>2, <1>3, <1>4, Zenon DEF lexLiteral

LEMMA BadLiteralInv == LexerInv /\ badLiteral => LexerInv'
<1> SUFFICES ASSUME LexerInv, badLiteral PROVE LexerInv'
  OBVIOUS
<1>1. at \in InLexeme /\ Takes
  BY DEF badLiteral, InLexeme
<1>2. CASE is_alphanum(Following) /\ Goes("badLiteral") /\ UNCHANGED c
  <2>1. GoesOn(Following)
    BY <1>2, Zenon DEF GoesOn
  <2>2. QED
    BY <1>1, <1>2, <2>1, TakesOn, Zenon DEF InLexeme
<1>3. CASE ~is_alphanum(Following) /\ Throws("LexerException")
  BY <1>1, <1>3, TakesThrows
<1>4. QED
  BY <1>2, <1>3, Zenon DEF badLiteral

LEMMA LexKeywordIDInv == LexerInv /\ lexKeywordID => LexerInv'
<1> SUFFICES ASSUME LexerInv, lexKeywordID PROVE LexerInv'
  OBVIOUS
<1>1. at \in InLexeme /\ Takes
  BY DEF lexKeywordID, InLexeme
<1>2. CASE /\ is_alphanum(Following) \/ Following = "_"
           /\ Goes("lexKeywordID") /\ UNCHANGED c
  <2>1. GoesOn(Following)
    BY <1>2, Zenon DEF GoesOn
  <2>2. QED
    BY <1>1, <1>2, <2>1, TakesOn, Zenon DEF InLexeme
<1>3. CASE Returns(IF lexeme' \in keywords THEN "IF" ELSE "ID", lexeme', NoValue)
  BY <1>1, <1>3, TakesLast
<1>4. QED
  BY <1>2, <1>3, Zenon DEF lexKeywordID

(***************************************************************************)
(* Comments.                                                               *)
(***************************************************************************)
LEMMA CommentStep ==
  ASSUME LexerInv, at \in InComment, NEW s, in' = s, Fetched(s, c'), s.pos >= in.pos,
         s.line >= in.line, token' = token,
         \/ Goes("eatComment")
         \/ Goes("getToken") /\ s.pos >= in.pos
  PROVE  LexerInv'
<1>1. /\ text' = text /\ tokens' = tokens /\ thrown' = thrown
      /\ at' \in {"eatComment", "getToken"}
  BY DEF Goes
<1>2. in.pos \in Nat \ {0} /\ Settled = in.pos - 1 /\ SettledAt
  <2>1. SettledAt
    BY SettledType DEF LexerInv
  <2>2. QED
    BY <2>1 DEF SettledAt, LexerInv, PlaceInv
<1>3. Counting(s)
  BY DEF Fetched
<1>4. Counting(in)'
  BY <1>1, <1>3, CountingNext
<1>5. token.line <= s.line /\ s.pos \in Nat
  BY <1>3 DEF LexerInv, StreamInv, Counting, Typed
<1>6. StreamInv'
  BY <1>1, <1>4, <1>5 DEF LexerInv, StreamInv, Text, InComment
<1>7. Fetched(in, c)'
  BY <1>1, <1>4 DEF Fetched, good
<1>8. PlaceInv'
  BY <1>1, <1>2, <1>5, <1>7 DEF PlaceInv, InComment, InLexeme
<1>9. Settled <= Settled'
  <2>1. SettledAt'
    BY <1>6, <1>8, SettledType, PTL
  <2>2. Settled' = s.pos \/ Settled' = s.pos - 1
    BY <1>1, <2>1 DEF SettledAt, InComment
  <2>3. QED
    BY <1>2, <1>5, <2>2
<1>10. QED
  BY <1>1, <1>6, <1>8, <1>9, QuietStep

LEMMA OpenCommentInv == LexerInv /\ openComment => LexerInv'
<1> SUFFICES ASSUME LexerInv, openComment PROVE LexerInv'
  OBVIOUS
<1>1. /\ at \in InComment /\ in' = getChar(in) /\ c' = NextChar(in)
      /\ Goes("eatComment") /\ token' = token
  BY DEF openComment, InComment
<1>2. PICK s : s = getChar(in)
  OBVIOUS
<1>3. Fetched(s, c') /\ s.pos >= in.pos /\ s.line >= in.line
  BY <1>1, <1>2, CharFetched DEF LexerInv, StreamInv
<1>4. QED
  BY <1>1, <1>2, <1>3, CommentStep

LEMMA EatCommentInv == LexerInv /\ eatComment => LexerInv'
<1> SUFFICES ASSUME LexerInv, eatComment PROVE LexerInv'
  OBVIOUS
<1>1. at = "eatComment" /\ token' = token /\ lexeme' = lexeme
  BY DEF eatComment
<1>2. PICK s : s = IF c = "*" THEN peek(in) ELSE in
  OBVIOUS
<1>3. \/ IsEOF(c) /\ in' = ungetChar(in) /\ Goes("getToken")
      \/ /\ c = "*" /\ peekChar(in) = "/"
         /\ in' = getChar(s) /\ Goes("getToken")
      \/ in' = getChar(s) /\ c' = NextChar(s) /\ Goes("eatComment")
  BY <1>2, Zenon DEF eatComment
<1>4. Counting(in) /\ Text /\ Fetched(in, c)
  BY <1>1 DEF LexerInv, StreamInv, PlaceInv
<1>5. /\ Counting(s) /\ s.pos = in.pos /\ s.line = in.line
  BY <1>2, <1>4, PeekedAt
<1>6. PICK g : g = getChar(s)
  OBVIOUS
<1>7. PICK ch : ch = NextChar(s)
  OBVIOUS
<1>8. Fetched(g, ch) /\ g.pos >= in.pos /\ g.line >= in.line
  BY <1>4, <1>5, <1>6, <1>7, CharFetched
<1>9. PICK u : u = ungetChar(in)
  OBVIOUS
<1>10. /\ in.pos \in Nat \ {0} /\ Settled = in.pos - 1
  <2>1. SettledAt
    BY SettledType DEF LexerInv
  <2>2. QED
    BY <1>1, <2>1 DEF SettledAt, LexerInv, PlaceInv, InComment
<1>11. Counting(u) /\ u.line = in.line /\ u.pos >= in.pos - 1
  BY <1>4, <1>9, <1>10, CharPutBack
<1>12. ASSUME NEW r, in' = r, Counting(r), r.line >= in.line, r.pos >= in.pos - 1,
              Goes("getToken")
       PROVE  LexerInv'
  <2>1. /\ text' = text /\ tokens' = tokens /\ thrown' = thrown /\ at' = "getToken"
    BY <1>12 DEF Goes
  <2>2. Counting(in)'
    BY <1>12, <2>1, CountingNext
  <2>3. StreamInv' /\ PlaceInv'
    <3>1. token.line <= r.line
      BY <1>4, <1>12 DEF LexerInv, StreamInv, Counting, Typed
    <3>2. StreamInv'
      BY <1>1, <1>12, <2>1, <2>2, <3>1 DEF LexerInv, StreamInv, Text
    <3>3. PlaceInv'
      BY <2>1 DEF PlaceInv, InLexeme, InComment
    <3>4. QED
      BY <3>2, <3>3
  <2>4. Settled <= Settled'
    <3>1. SettledAt'
      BY <2>3, SettledType, PTL
    <3>2. Settled' = r.pos
      BY <1>12, <2>1, <3>1 DEF SettledAt
    <3>3. QED
      BY <1>10, <1>12, <3>2
  <2>5. QED
    BY <2>1, <2>3, <2>4, QuietStep
<1>13. CASE IsEOF(c) /\ in' = ungetChar(in) /\ Goes("getToken")
  <2>1. u.line >= in.line
    BY <1>4, <1>11 DEF Counting, Typed
  <2>2. QED
    BY <1>9, <1>11, <1>12, <1>13, <2>1
<1>14. CASE in' = getChar(s) /\ Goes("getToken")
  <2>1. Counting(g) /\ g.pos >= in.pos - 1
    BY <1>8, <1>10 DEF Fetched, Counting, Typed
  <2>2. QED
    BY <1>6, <1>8, <1>12, <1>14, <2>1
<1>15. CASE in' = getChar(s) /\ c' = NextChar(s) /\ Goes("eatComment")
  <2>1. Fetched(g, c') /\ at \in InComment
    BY <1>1, <1>7, <1>8, <1>15 DEF InComment
  <2>2. QED
    BY <1>1, <1>6, <1>8, <1>15, <2>1, CommentStep
<1>16. QED
  BY <1>3, <1>13, <1>14, <1>15, Zenon

(***************************************************************************)
(* The theorems.                                                           *)
(***************************************************************************)
LEMMA LexerInvariant == Spec => []LexerInv
<1>1. Init => LexerInv
  BY InitInv, LexerAssumption
<1>2. LexerInv /\ [Next]_vars => LexerInv'
  <2> SUFFICES ASSUME LexerInv, [Next]_vars PROVE LexerInv'
    OBVIOUS
  <2>1. CASE Next
    BY <2>1, CallInv, GetTokenInv, EndOfFileInv, PunctuatorInv, NextOrElseInv,
       SlashInv, OtherCharInv, LexLiteralInv, BadLiteralInv, LexKeywordIDInv,
       OpenCommentInv, EatCommentInv, Zenon DEF Next, Lexing
  <2>2. CASE UNCHANGED vars
    <3>1. /\ text' = text /\ in' = in /\ token' = token /\ at' = at /\ c' = c
          /\ lexeme' = lexeme /\ tokens' = tokens /\ thrown' = thrown
      BY <2>2 DEF vars
    <3>2. StreamInv' /\ PlaceInv'
      BY <3>1 DEF LexerInv, StreamInv, PlaceInv, Text, Counting, Typed, LineOf,
                  Fetched, good, Taking, Ready
    <3>3. Settled' = Settled
      BY <3>1, Zenon DEF Settled, good
    <3>4. QED
      <4>1. Settled <= Settled'
        BY <3>3, SettledType DEF LexerInv, SettledAt
      <4>2. QED
        BY <3>1, <3>2, <4>1, QuietStep
  <2>3. QED
    BY <2>1, <2>2
<1>3. QED
  BY <1>1, <1>2, PTL DEF Spec

(***************************************************************************)
(* The stream is never put back before its start, and the column never     *)
(* falls below zero nor the line behind that of the token, whatever is     *)
(* peeked at and put back (getChar, peekChar and ungetChar).               *)
(***************************************************************************)
THEOREM LexerTypeCorrect == Spec => []LexerTypeOK
<1>1. LexerInv => LexerTypeOK
  <2> SUFFICES ASSUME LexerInv PROVE LexerTypeOK
    OBVIOUS
  <2>1. /\ Typed(in) /\ token \in [line : Nat, col : Nat] /\ token.line <= in.line
        /\ at \in {"idle", "getToken", "switch"} \cup InLexeme \cup InComment
        /\ thrown \in {"none", "LexerException", "out_of_range"}
        /\ at = "eatComment" => in.pos > 0
    BY DEF LexerInv, StreamInv, PlaceInv, Counting, InComment
  <2>2. in \in Stream /\ in.line >= token.line /\ token.col >= 0 /\ in.col >= 0
    BY <2>1 DEF Typed, Stream
  <2>3. QED
    BY <2>1, <2>2 DEF LexerTypeOK, InLexeme, InComment
<1>2. QED
  BY <1>1, LexerInvariant, PTL

(***************************************************************************)
(* What getToken has returned are pieces of the text: every token but an   *)
(* END_OF_FILE has a place from which its lexeme is read off the text,     *)
(* character by character, and the place is on the line that the token     *)
(* names.  The places are in the order of the tokens and no two pieces     *)
(* overlap, so that nothing is lexed twice.                                *)
(***************************************************************************)
TokensArePieces == InOrder(tokens, Len(text))

THEOREM LexemesInOrder == Spec => []TokensArePieces
<1>1. LexerInv => TokensArePieces
  <2> SUFFICES ASSUME LexerInv PROVE TokensArePieces
    OBVIOUS
  <2>1. SettledAt
    BY SettledType DEF LexerInv
  <2>2. Settled \in Nat /\ Len(text) \in Nat /\ Settled <= Len(text)
    BY <2>1 DEF SettledAt
  <2>3. QED
    BY <2>2, OrderWidens DEF LexerInv, TokenInv, TokensArePieces
<1>2. QED
  BY <1>1, LexerInvariant, PTL
=============================================================================
