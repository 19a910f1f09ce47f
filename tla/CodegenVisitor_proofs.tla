----------------------- MODULE CodegenVisitor_proofs -----------------------
(***************************************************************************)
(* The code generator, on every tree that the semantic pass accepts:       *)
(* nothing is written behind the terminator of a block, every block is     *)
(* placed in a function, ended, and reached from the entry, a return that  *)
(* the program does not contain is added to void functions only, and no    *)
(* operand is missing when the code runs.                                  *)
(*                                                                         *)
(* What a visit relies on is a function of the work that is pending: it    *)
(* begins in an open block if control can come to it, and leaves one open  *)
(* if control can fall out of it; the blocks that are created before they  *)
(* are placed are those that a pending visit keeps.                        *)
(***************************************************************************)
EXTENDS CodegenVisitor, Trees_proofs

Falls(t, n) == "falls" \in OutcomesOf(t)[n]

IsTopLevel(t, n) == n = 1 \/ \E i \in 1 .. Len(t[1].kids) : n = Kid(t, 1, i)

(***************************************************************************)
(* The work that may be pending.                                           *)
(***************************************************************************)
PlainTasks(t) ==
  {k \in [op : {"visit", "finish", "branch"}, node : DOMAIN t] :
     /\ k.op = "branch" => t[k.node].kind = "If"
     /\ \/ EnclosingFunction(t, k.node) # nullptr
        \/ k.op = "visit" /\ IsTopLevel(t, k.node)
        \/ k.op = "finish" /\ t[k.node].kind = "Function"}

IfFrames(t) ==
  {k \in [op : {"else", "merge"}, node : NodesOf(t, {"If"}), func : FunctionsOf(t),
          else_block : Nat \ {0}, merge_block : Nat] :
     /\ k.func = EnclosingFunction(t, k.node)
     /\ k.merge_block # nullptr <=> Falls(t, k.node)
     /\ Len(t[k.node].kids) = 2 => k.op = "else" /\ k.else_block = k.merge_block
     /\ Len(t[k.node].kids) = 3 => k.else_block # k.merge_block}

WhileFrames(t) ==
  {k \in [op : {"loop", "post"}, node : NodesOf(t, {"While"}), func : FunctionsOf(t),
          check : Nat \ {0}, loop : Nat \ {0}, post : Nat \ {0}] :
     k.func = EnclosingFunction(t, k.node) /\ k.loop # k.post}

Work(t) == PlainTasks(t) \cup IfFrames(t) \cup WhileFrames(t)

\* Whether the block written to is open, and the function it is in; outside
\* of functions neither matters.
Context(open, f) == [open |-> open, in |-> f]

End == Context(FALSE, nullptr)

\* Control comes out of what is generated for node n.
Completes(t, n) ==
  /\ EnclosingFunction(t, n) # nullptr
  /\ t[n].kind \in StatementKinds => Falls(t, n)

Begins(t) ==
  [k \in Work(t) |->
     IF k.op \in {"else", "post"}
     THEN Context(Falls(t, Kid(t, k.node, 2)), EnclosingFunction(t, k.node))
     ELSE IF k.op = "merge"
     THEN Context(Falls(t, Kid(t, k.node, 3)), EnclosingFunction(t, k.node))
     ELSE IF k.op = "finish" /\ t[k.node].kind = "Function"
     THEN Context(Falls(t, Body(t, k.node)), k.node)
     ELSE Context(EnclosingFunction(t, k.node) # nullptr, EnclosingFunction(t, k.node))]

Leaves(t) ==
  [k \in Work(t) |-> Context(Completes(t, k.node), EnclosingFunction(t, k.node))]

Here == IF stack = << >> THEN End ELSE Begins(ast)[Top]

\* The functions that a task comes to, and the program.
Owes(t) ==
  [k \in Work(t) |->
     IF k.op # "visit" THEN {}
     ELSE IF k.node = 1 THEN {1} \cup FunctionsOf(t) ELSE {k.node} \cap FunctionsOf(t)]

\* The blocks that a task has yet to place, those of them that a branch leads
\* to already, and the one that it will branch back to.
Awaits(t) ==
  [k \in Work(t) |->
     IF k.op = "else" THEN {k.else_block} \cup ({k.merge_block} \ {nullptr})
     ELSE IF k.op = "merge" THEN {k.merge_block} \ {nullptr}
     ELSE IF k.op = "loop" THEN {k.loop, k.post}
     ELSE IF k.op = "post" THEN {k.post} ELSE {}]

Branched(t) ==
  [k \in Work(t) |->
     IF k.op = "else"
     THEN {k.else_block}
     ELSE IF k.op = "merge" THEN IF Falls(t, Kid(t, k.node, 2)) THEN {k.merge_block} ELSE {}
     ELSE IF k.op = "post" THEN {k.post} ELSE {}]

ComesBack(t) == [k \in Work(t) |-> IF k.op \in {"loop", "post"} THEN {k.check} ELSE {}]

(***************************************************************************)
(* Code.                                                                   *)
(***************************************************************************)
Unended(code) == \A i \in 1 .. Len(code) : code[i].op \notin Terminators

Ended(code) == code # << >> /\ code[Len(code)].op \in Terminators

TargetsOf(code) == UNION {Range(code[i].targets) : i \in 1 .. Len(code)}

GoodCode(t, code) ==
  /\ IsSequence(code)
  /\ \A i \in 1 .. Len(code) :
       /\ code[i].at \in BuiltinDecls \cup DOMAIN t
       /\ code[i].op = "ret" /\ code[i].at \in FunctionsOf(t) => t[code[i].at].type = Void
       /\ code[i].op \in Terminators => i = Len(code)

BlockSequence(bs) ==
  /\ IsSequence(bs)
  /\ \A b \in 1 .. Len(bs) : bs[b] = Block(bs[b].label, bs[b].function, bs[b].code)

GoodBlocks(t, bs) == BlockSequence(bs) /\ \A b \in 1 .. Len(bs) : GoodCode(t, bs[b].code)

(***************************************************************************)
(* Functions.  The home of a block is the function it is in or will be     *)
(* placed in.                                                              *)
(***************************************************************************)
Homes(t) == BuiltinDecls \cup FunctionsOf(t)

\* No block of the function is before b; some block is.
IsFirst(home, b) == \A c \in 1 .. b - 1 : home[c] # home[b]

IsLater(home, b) == \E c \in 1 .. b - 1 : home[c] = home[b]

\* Control may come to block b from the first block of its function.
Closed(bs, S) == \A b \in 1 .. Len(bs) : b \in S => TargetsOf(bs[b].code) \subseteq S

Reachable(bs, home, b) ==
  \A S \in SUBSET Nat :
    (\A c \in 1 .. Len(bs) : IsFirst(home, c) => c \in S) /\ Closed(bs, S) => b \in S

Edges(bs, home) ==
  \A b \in 1 .. Len(bs) : \A c \in TargetsOf(bs[b].code) :
    c \in 1 .. Len(bs) /\ home[c] = home[b] /\ IsLater(home, c)

\* What the pending work keeps exists, is empty and belongs to its function.
Kept(t, s, bs, home) ==
  \A i \in 1 .. Len(s) : \A b \in Awaits(t)[s[i]] \cup ComesBack(t)[s[i]] :
    /\ b \in 1 .. Len(bs) /\ home[b] = s[i].func /\ IsLater(home, b)
    /\ b \in Awaits(t)[s[i]] => bs[b].function = nullptr /\ bs[b].code = << >>
    /\ b \in Branched(t)[s[i]] => Reachable(bs, home, b)

\* Every other block is placed, and ended unless it is written to.
PlacedBlock(bs, open, at, home, b) ==
  /\ bs[b].function = home[b]
  /\ Reachable(bs, home, b)
  /\ IF open /\ b = at THEN Unended(bs[b].code) ELSE Ended(bs[b].code)

Placed(t, s, bs, open, at, home) ==
  \A b \in 1 .. Len(bs) : b \notin Pending(s, Awaits(t)) => PlacedBlock(bs, open, at, home, b)

\* The block written to.
Inserting(t, s, bs, here, at, home) ==
  /\ at # nullptr => at \in 1 .. Len(bs) /\ at \notin Pending(s, Awaits(t))
  /\ here.in # nullptr => at # nullptr /\ home[at] = here.in
  /\ here.open => here.in # nullptr

Layout(t, s, bs, here, at, home) ==
  /\ home \in [1 .. Len(bs) -> Homes(t)]
  /\ Edges(bs, home)
  /\ Kept(t, s, bs, home)
  /\ Placed(t, s, bs, here.open, at, home)
  /\ Inserting(t, s, bs, here, at, home)
  /\ \A b \in 1 .. Len(bs) : home[b] \notin Pending(s, Owes(t))

(***************************************************************************)
(* The inductive invariant.                                                *)
(***************************************************************************)
Passed ==
  /\ Meaning(ast).faults = {} /\ referent = Meaning(ast).referents
  /\ WellTyped(ast, referent)
  /\ always_returns = [n \in DOMAIN OutcomesOf(ast) |-> ~ Falls(ast, n)]
  /\ nest_level = [d \in DeclsOf(ast) |-> Depth(ast, d)]

InOrder ==
  /\ StackInTurn(stack, Owes(ast), Owes(ast))
  /\ StackInTurn(stack, Awaits(ast), Awaits(ast))
  /\ Chained(stack, Begins(ast), Leaves(ast), Here, End)

IInv ==
  /\ ast \in Programs
  /\ stack \in Seq(Work(ast))
  /\ Passed
  /\ DOMAIN ir_value \subseteq BuiltinDecls \cup DOMAIN ast
  /\ InOrder
  /\ GoodBlocks(ast, blocks)
  /\ 1 \in Pending(stack, Owes(ast)) => blocks = << >> /\ insertBlock = nullptr
  /\ \E home : Layout(ast, stack, blocks, Here, insertBlock, home)

(***************************************************************************)
(* Sequences of instructions and of blocks.                                *)
(***************************************************************************)
\* Only a terminator at its end ends a piece of code.
LEMMA CodeEnds ==
  ASSUME NEW t, NEW code, GoodCode(t, code)
  PROVE  Ended(code) <=> ~ Unended(code)
<1>1. Len(code) \in Nat /\ DOMAIN code = 1 .. Len(code) /\ (code # << >> <=> Len(code) # 0)
  <2>1. IsSequence(code)
    BY DEF GoodCode
  <2>2. QED
    BY <2>1, EmptySeq, SequenceParts DEF IsSequence
<1>2. \A i \in 1 .. Len(code) : code[i].op \in Terminators => i = Len(code)
  BY DEF GoodCode
<1>3. code # << >> => Len(code) \in 1 .. Len(code)
  BY <1>1
<1>4. (\E i \in 1 .. Len(code) : code[i].op \in Terminators) => Len(code) # 0
  BY <1>1
<1>5. QED
  BY <1>1, <1>2, <1>3, <1>4 DEF Ended, Unended

\* Code b may be written behind code a.
MayFollow(t, a, b) == GoodCode(t, a) /\ GoodCode(t, b) /\ (Unended(a) \/ b = << >>)

LEMMA CodeJoined ==
  ASSUME NEW t, NEW a, NEW b, MayFollow(t, a, b)
  PROVE  /\ GoodCode(t, a \o b)
         /\ Unended(a) => (Unended(a \o b) <=> Unended(b))
         /\ b = << >> => a \o b = a
         /\ TargetsOf(a \o b) = TargetsOf(a) \cup TargetsOf(b)
<1> USE DEF MayFollow
<1>1. IsSequence(a) /\ IsSequence(b)
  BY DEF GoodCode
<1>2. Len(a) \in Nat /\ Len(b) \in Nat
  BY <1>1, SequenceParts
<1> PICK c : c = a \o b
  OBVIOUS
<1>3. /\ IsSequence(c) /\ Len(c) = Len(a) + Len(b)
      /\ \A i \in 1 .. Len(a) : c[i] = a[i]
      /\ \A i \in 1 .. Len(b) : c[Len(a) + i] = b[i]
      /\ \A i \in 1 .. Len(c) :
           \/ i \in 1 .. Len(a) /\ c[i] = a[i]
           \/ i - Len(a) \in 1 .. Len(b) /\ c[i] = b[i - Len(a)]
  BY <1>1, Joined
<1>4. \A i \in 1 .. Len(a) : i \in 1 .. Len(c)
  BY <1>2, <1>3
<1>5. \A i \in 1 .. Len(b) : Len(a) + i \in 1 .. Len(c)
  BY <1>2, <1>3
<1>6. b = << >> => c = a
  BY <1>1, <1>3 DEF IsSequence
<1>7. TargetsOf(c) = TargetsOf(a) \cup TargetsOf(b)
  <2>1. TargetsOf(c) \subseteq TargetsOf(a) \cup TargetsOf(b)
    BY <1>3 DEF TargetsOf
  <2>2. TargetsOf(a) \subseteq TargetsOf(c)
    BY <1>3, <1>4 DEF TargetsOf
  <2>3. TargetsOf(b) \subseteq TargetsOf(c)
    <3>1. ASSUME NEW i \in 1 .. Len(b) PROVE Range(b[i].targets) \subseteq TargetsOf(c)
      <4>1. Len(a) + i \in 1 .. Len(c) /\ c[Len(a) + i] = b[i]
        BY <1>3, <1>5
      <4> PICK j \in 1 .. Len(c) : c[j] = b[i]
        BY <4>1
      <4>2. QED
        BY DEF TargetsOf
    <3>2. QED
      BY <3>1 DEF TargetsOf
  <2>4. QED
    BY <2>1, <2>2, <2>3
<1>8. ASSUME Unended(a) PROVE GoodCode(t, c) /\ (Unended(c) <=> Unended(b))
  <2>1. ASSUME NEW i \in 1 .. Len(c)
        PROVE  /\ c[i].at \in BuiltinDecls \cup DOMAIN t
               /\ c[i].op = "ret" /\ c[i].at \in FunctionsOf(t) => t[c[i].at].type = Void
               /\ c[i].op \in Terminators => i = Len(c)
    <3>1. CASE i \in 1 .. Len(a) /\ c[i] = a[i]
      BY <1>8, <3>1 DEF GoodCode, Unended
    <3>2. CASE i - Len(a) \in 1 .. Len(b) /\ c[i] = b[i - Len(a)]
      <4>1. c[i].op \in Terminators => i - Len(a) = Len(b)
        BY <3>2 DEF GoodCode
      <4>2. i - Len(a) = Len(b) => i = Len(c)
        BY <1>2, <1>3, <3>2
      <4>3. QED
        BY <3>2, <4>1, <4>2 DEF GoodCode
    <3>3. QED
      BY <1>3, <3>1, <3>2
  <2>2. Unended(c) <=> Unended(b)
    BY <1>3, <1>5, <1>8 DEF Unended
  <2>3. QED
    BY <1>3, <2>1, <2>2 DEF GoodCode
<1>9. QED
  BY <1>6, <1>7, <1>8

LEMMA BlockChanges ==
  ASSUME NEW label, NEW f, NEW code, NEW g, NEW more
  PROVE  /\ [Block(label, f, code) EXCEPT !.code = more] = Block(label, f, more)
         /\ [Block(label, f, code) EXCEPT !.function = g] = Block(label, g, code)
BY DEF Block

LEMMA WrittenParts ==
  ASSUME NEW bs, BlockSequence(bs), NEW at, NEW is
  PROVE  /\ BlockSequence(Written(bs, at, is))
         /\ Len(Written(bs, at, is)) = Len(bs)
         /\ \A b \in 1 .. Len(bs) :
              /\ Written(bs, at, is)[b].function = bs[b].function
              /\ Written(bs, at, is)[b].code = IF b = at THEN bs[b].code \o is ELSE bs[b].code
<1> PICK w : w = Written(bs, at, is)
  OBVIOUS
<1>1. /\ Len(bs) \in Nat /\ DOMAIN bs = 1 .. Len(bs) /\ bs = [b \in 1 .. Len(bs) |-> bs[b]]
      /\ \A b \in 1 .. Len(bs) : bs[b] = Block(bs[b].label, bs[b].function, bs[b].code)
  BY SequenceParts DEF BlockSequence
<1>2. w = [b \in 1 .. Len(bs) |-> IF b = at THEN [bs[b] EXCEPT !.code = bs[b].code \o is]
                                             ELSE bs[b]]
  BY <1>1 DEF Written
<1>3. DOMAIN w = 1 .. Len(bs)
  BY <1>2
<1>4. w = [b \in 1 .. Len(bs) |-> w[b]]
  BY <1>2
<1>5. IsSequence(w) /\ Len(w) = Len(bs)
  BY <1>1, <1>4, SequenceMade
<1>6. ASSUME NEW b \in 1 .. Len(bs)
      PROVE  /\ w[b] = Block(w[b].label, w[b].function, w[b].code)
             /\ w[b].function = bs[b].function
             /\ w[b].code = IF b = at THEN bs[b].code \o is ELSE bs[b].code
  <2>1. bs[b] = Block(bs[b].label, bs[b].function, bs[b].code)
    BY <1>1
  <2>2. CASE b = at
    <3>1. PICK more : more = bs[b].code \o is
      OBVIOUS
    <3>2. w[b] = [bs[b] EXCEPT !.code = more]
      BY <1>2, <2>2, <3>1
    <3>3. w[b] = Block(bs[b].label, bs[b].function, more)
      BY <2>1, <3>2, BlockChanges
    <3>4. QED
      BY <2>2, <3>1, <3>3 DEF Block
  <2>3. CASE b # at
    BY <1>2, <2>1, <2>3
  <2>4. QED
    BY <2>2, <2>3
<1>7. QED
  BY <1>5, <1>6 DEF BlockSequence

LEMMA InsertedParts ==
  ASSUME NEW bs, BlockSequence(bs), NEW at, NEW f
  PROVE  /\ BlockSequence(Inserted(bs, at, f))
         /\ Len(Inserted(bs, at, f)) = Len(bs)
         /\ \A b \in 1 .. Len(bs) :
              /\ Inserted(bs, at, f)[b].function = IF b = at THEN f ELSE bs[b].function
              /\ Inserted(bs, at, f)[b].code = bs[b].code
<1> PICK w : w = Inserted(bs, at, f)
  OBVIOUS
<1>1. /\ Len(bs) \in Nat /\ DOMAIN bs = 1 .. Len(bs) /\ bs = [b \in 1 .. Len(bs) |-> bs[b]]
      /\ \A b \in 1 .. Len(bs) : bs[b] = Block(bs[b].label, bs[b].function, bs[b].code)
  BY SequenceParts DEF BlockSequence
<1>2. w = [b \in 1 .. Len(bs) |-> IF b = at THEN [bs[b] EXCEPT !.function = f] ELSE bs[b]]
  BY <1>1 DEF Inserted
<1>3. w = [b \in 1 .. Len(bs) |-> w[b]]
  BY <1>2
<1>4. IsSequence(w) /\ Len(w) = Len(bs)
  BY <1>1, <1>3, SequenceMade
<1>5. ASSUME NEW b \in 1 .. Len(bs)
      PROVE  /\ w[b] = Block(w[b].label, w[b].function, w[b].code)
             /\ w[b].function = IF b = at THEN f ELSE bs[b].function
             /\ w[b].code = bs[b].code
  <2>1. bs[b] = Block(bs[b].label, bs[b].function, bs[b].code)
    BY <1>1
  <2>2. CASE b = at
    <3>1. w[b] = [bs[b] EXCEPT !.function = f]
      BY <1>2, <2>2
    <3>2. [Block(bs[b].label, bs[b].function, bs[b].code) EXCEPT !.function = f] =
            Block(bs[b].label, f, bs[b].code)
      BY BlockChanges
    <3>3. w[b] = Block(bs[b].label, f, bs[b].code)
      BY <2>1, <3>1, <3>2
    <3>4. QED
      BY <2>2, <3>3 DEF Block
  <2>3. CASE b # at
    BY <1>2, <2>1, <2>3
  <2>4. QED
    BY <2>2, <2>3
<1>6. QED
  BY <1>4, <1>5 DEF BlockSequence

LEMMA AddedParts ==
  ASSUME NEW bs, BlockSequence(bs), NEW new, BlockSequence(new)
  PROVE  /\ BlockSequence(bs \o new)
         /\ Len(bs \o new) = Len(bs) + Len(new)
         /\ Len(bs) \in Nat /\ Len(new) \in Nat
         /\ \A b \in 1 .. Len(bs) : (bs \o new)[b] = bs[b]
         /\ \A b \in 1 .. Len(new) : (bs \o new)[Len(bs) + b] = new[b]
<1>1. IsSequence(bs) /\ IsSequence(new)
  BY DEF BlockSequence
<1> PICK all : all = bs \o new
  OBVIOUS
<1>2. /\ IsSequence(all) /\ Len(all) = Len(bs) + Len(new)
      /\ \A i \in 1 .. Len(bs) : all[i] = bs[i]
      /\ \A i \in 1 .. Len(new) : all[Len(bs) + i] = new[i]
      /\ \A i \in 1 .. Len(all) :
           \/ i \in 1 .. Len(bs) /\ all[i] = bs[i]
           \/ i - Len(bs) \in 1 .. Len(new) /\ all[i] = new[i - Len(bs)]
  BY <1>1, Joined
<1>3. \A b \in 1 .. Len(all) : all[b] = Block(all[b].label, all[b].function, all[b].code)
  BY <1>2, Zenon DEF BlockSequence
<1>4. Len(bs) \in Nat /\ Len(new) \in Nat
  BY <1>1, SequenceParts
<1>5. QED
  BY <1>2, <1>3, <1>4 DEF BlockSequence

\* The blocks bs2 are bs after is was written at the end of block at, fresh
\* blocks were added and those in placed put into function f.
Shape(bs, bs2, at, is, placed, f, fresh) ==
  /\ BlockSequence(bs2)
  /\ Len(bs2) = Len(bs) + fresh
  /\ \A b \in 1 .. Len(bs) :
       /\ bs2[b].function = IF b \in placed THEN f ELSE bs[b].function
       /\ bs2[b].code = IF b = at THEN bs[b].code \o is ELSE bs[b].code
  /\ \A b \in Len(bs) + 1 .. Len(bs2) :
       /\ bs2[b].function = IF b \in placed THEN f ELSE nullptr
       /\ bs2[b].code = << >>

(***************************************************************************)
(* What was there stays when blocks grow.                                  *)
(***************************************************************************)
Grows(bs, bs2, home, home2) ==
  /\ Len(bs) \in Nat /\ Len(bs2) \in Nat /\ Len(bs) <= Len(bs2)
  /\ \A b \in 1 .. Len(bs) :
       /\ home2[b] = home[b]
       /\ TargetsOf(bs[b].code) \subseteq TargetsOf(bs2[b].code)

LEMMA LaterStays ==
  ASSUME NEW bs, NEW bs2, NEW home, NEW home2, Grows(bs, bs2, home, home2),
         NEW b \in 1 .. Len(bs)
  PROVE  /\ IsLater(home, b) => IsLater(home2, b)
         /\ IsFirst(home, b) => IsFirst(home2, b)
         /\ b \in 1 .. Len(bs2)
<1>1. Len(bs) \in Nat /\ Len(bs2) \in Nat /\ Len(bs) <= Len(bs2)
  BY DEF Grows
<1>2. b \in 1 .. Len(bs2) /\ \A c \in 1 .. b - 1 : c \in 1 .. Len(bs)
  BY <1>1
<1>3. QED
  BY <1>2 DEF IsLater, IsFirst, Grows

LEMMA ReachableStays ==
  ASSUME NEW bs, NEW bs2, NEW home, NEW home2, Grows(bs, bs2, home, home2),
         NEW b, Reachable(bs, home, b)
  PROVE  Reachable(bs2, home2, b)
<1> SUFFICES ASSUME NEW S \in SUBSET Nat, Closed(bs2, S),
                    \A c \in 1 .. Len(bs2) : IsFirst(home2, c) => c \in S
             PROVE  b \in S
  BY DEF Reachable
<1>1. \A c \in 1 .. Len(bs) : IsFirst(home, c) => c \in S
  BY LaterStays
<1>2. Closed(bs, S)
  <2>1. ASSUME NEW c \in 1 .. Len(bs), c \in S PROVE TargetsOf(bs[c].code) \subseteq S
    <3>1. c \in 1 .. Len(bs2) /\ TargetsOf(bs[c].code) \subseteq TargetsOf(bs2[c].code)
      BY LaterStays DEF Grows
    <3>2. QED
      BY <2>1, <3>1 DEF Closed
  <2>2. QED
    BY <2>1 DEF Closed
<1>3. QED
  BY <1>1, <1>2 DEF Reachable

LEMMA ReachableNext ==
  ASSUME NEW bs, NEW home, NEW b \in 1 .. Len(bs), Reachable(bs, home, b),
         NEW c \in TargetsOf(bs[b].code)
  PROVE  Reachable(bs, home, c)
BY DEF Reachable, Closed

LEMMA ReachableFirst ==
  ASSUME NEW bs, NEW home, NEW b \in 1 .. Len(bs), IsFirst(home, b)
  PROVE  Reachable(bs, home, b)
BY DEF Reachable

(***************************************************************************)
(* The stack: the task on top is replaced by others, and only the last of  *)
(* them, a frame, keeps blocks.                                            *)
(***************************************************************************)
Replaced(s, s2, tasks) ==
  /\ Len(s) \in Nat \ {0} /\ Len(tasks) \in Nat
  /\ Len(s2) = Len(s) - 1 + Len(tasks)
  /\ \A i \in 1 .. Len(s) - 1 : s2[i] = s[i]
  /\ \A i \in 1 .. Len(tasks) : s2[Len(s) - 1 + i] = tasks[Len(tasks) - i + 1]

LEMMA ReplacedMembers ==
  ASSUME NEW s, NEW s2, NEW tasks, Replaced(s, s2, tasks), NEW i \in 1 .. Len(s2)
  PROVE  \/ i \in 1 .. Len(s) - 1 /\ s2[i] = s[i]
         \/ i = Len(s) /\ Len(tasks) \in 1 .. Len(tasks) /\ s2[i] = tasks[Len(tasks)]
         \/ \E j \in 1 .. Len(tasks) - 1 : s2[i] = tasks[j]
<1> PICK k : k = Len(s)
  OBVIOUS
<1> PICK l : l = Len(tasks)
  OBVIOUS
<1>1. /\ k \in Nat \ {0} /\ l \in Nat /\ i \in 1 .. k - 1 + l
      /\ \A j \in 1 .. k - 1 : s2[j] = s[j]
      /\ \A j \in 1 .. l : s2[k - 1 + j] = tasks[l - j + 1]
  BY DEF Replaced
<1>2. CASE i <= k - 1
  BY <1>1, <1>2
<1>3. CASE i = k
  <2>1. 1 \in 1 .. l /\ l \in 1 .. l /\ k - 1 + 1 = i /\ l - 1 + 1 = l
    BY <1>1, <1>3
  <2>2. s2[k - 1 + 1] = tasks[l - 1 + 1]
    BY <1>1, <2>1
  <2>3. QED
    BY <1>3, <2>1, <2>2
<1>4. CASE i > k
  <2>1. PICK j : j = i - (k - 1)
    OBVIOUS
  <2>2. j \in 1 .. l /\ k - 1 + j = i /\ l - j + 1 \in 1 .. l - 1
    BY <1>1, <1>4, <2>1
  <2>3. s2[i] = tasks[l - j + 1]
    BY <1>1, <2>2
  <2>4. QED
    BY <2>2, <2>3
<1>5. QED
  BY <1>1, <1>2, <1>3, <1>4

\* Of the tasks the last one holds W, the others nothing.
LastHolds(tasks, f, W) ==
  /\ \A i \in 1 .. Len(tasks) - 1 : f[tasks[i]] = {}
  /\ IF Len(tasks) = 0 THEN W = {} ELSE f[tasks[Len(tasks)]] = W

LEMMA AwaitStep ==
  ASSUME NEW s, NEW s2, NEW tasks, Replaced(s, s2, tasks),
         NEW f, StackInTurn(s, f, f), NEW W, LastHolds(tasks, f, W),
         W \cap (Pending(s, f) \ f[s[Len(s)]]) = {}
  PROVE  /\ StackInTurn(s2, f, f)
         /\ Pending(s2, f) = (Pending(s, f) \ f[s[Len(s)]]) \cup W
<1> USE DEF LastHolds
<1> PICK k : k = Len(s)
  OBVIOUS
<1> PICK l : l = Len(tasks)
  OBVIOUS
<1>1. /\ k \in Nat \ {0} /\ l \in Nat /\ k \in 1 .. k
      /\ \A i \in 1 .. k - 1 : i \in 1 .. k /\ i < k
      /\ Len(s2) = k - 1 + l
      /\ \A i \in 1 .. k - 1 : s2[i] = s[i]
  BY DEF Replaced
<1>2. \A i, j \in 1 .. k : i < j => f[s[i]] \cap f[s[j]] = {}
  BY DEF StackInTurn
<1>3. Pending(s, f) \ f[s[k]] = UNION {f[s[i]] : i \in 1 .. k - 1}
  <2>1. \A i \in 1 .. k : i = k \/ i \in 1 .. k - 1
    BY <1>1
  <2>2. \A i \in 1 .. k - 1 : f[s[i]] \cap f[s[k]] = {}
    BY <1>1, <1>2
  <2>3. QED
    BY <1>1, <2>1, <2>2 DEF Pending
<1> DEFINE lower == UNION {f[s[i]] : i \in 1 .. k - 1}
<1>4. ASSUME NEW i \in 1 .. Len(s2)
      PROVE  \/ i \in 1 .. k - 1 /\ f[s2[i]] = f[s[i]]
             \/ i = k /\ f[s2[i]] = W
             \/ f[s2[i]] = {}
  <2>1. \/ i \in 1 .. k - 1 /\ s2[i] = s[i]
        \/ i = k /\ l \in 1 .. l /\ s2[i] = tasks[l]
        \/ \E j \in 1 .. l - 1 : s2[i] = tasks[j]
    BY ReplacedMembers
  <2>2. l \in 1 .. l => l # 0
    BY <1>1
  <2>3. QED
    BY <2>1, <2>2
<1>5. \A i \in 1 .. k - 1 : f[s[i]] \subseteq lower
  OBVIOUS
<1>6. W \cap lower = {}
  BY <1>3
<1> HIDE DEF lower
<1>7. ASSUME NEW a \in 1 .. Len(s2), NEW b \in 1 .. Len(s2), a < b
      PROVE  f[s2[a]] \cap (f[s2[b]] \cup f[s2[b]]) = {}
  <2>1. \/ a \in 1 .. k - 1 /\ f[s2[a]] = f[s[a]]
        \/ a = k /\ f[s2[a]] = W
        \/ f[s2[a]] = {}
    BY <1>4
  <2>2. \/ b \in 1 .. k - 1 /\ f[s2[b]] = f[s[b]]
        \/ b = k /\ f[s2[b]] = W
        \/ f[s2[b]] = {}
    BY <1>4
  <2>3. CASE a \in 1 .. k - 1 /\ b \in 1 .. k - 1 /\ f[s2[a]] = f[s[a]] /\ f[s2[b]] = f[s[b]]
    <3>1. f[s[a]] \cap f[s[b]] = {}
      BY <1>1, <1>2, <1>7, <2>3
    <3>2. QED
      BY <2>3, <3>1
  <2>4. CASE a \in 1 .. k - 1 /\ b = k /\ f[s2[a]] = f[s[a]] /\ f[s2[b]] = W
    BY <1>5, <1>6, <2>4
  <2>5. CASE a = k /\ (b = k \/ b \in 1 .. k - 1)
    BY <1>1, <1>7, <2>5
  <2>6. CASE f[s2[a]] = {} \/ f[s2[b]] = {}
    BY <2>6
  <2>7. QED
    BY <2>1, <2>2, <2>3, <2>4, <2>5, <2>6
<1>8. Pending(s2, f) = lower \cup W
  <2>1. Pending(s2, f) \subseteq lower \cup W
    BY <1>4, <1>5 DEF Pending
  <2>2. lower \subseteq Pending(s2, f)
    <3>1. ASSUME NEW i \in 1 .. k - 1 PROVE f[s[i]] \subseteq Pending(s2, f)
      <4>1. i \in 1 .. Len(s2) /\ s2[i] = s[i]
        BY <1>1
      <4>2. f[s2[i]] \subseteq Pending(s2, f)
        BY <4>1 DEF Pending
      <4>3. QED
        BY <4>1, <4>2
    <3>2. QED
      BY <3>1 DEF lower
  <2>3. W \subseteq Pending(s2, f)
    <3>1. CASE l = 0
      BY <3>1
    <3>2. CASE l # 0
      <4>1. 1 \in 1 .. l /\ k \in 1 .. Len(s2) /\ k - 1 + 1 = k /\ l - 1 + 1 = l
        BY <1>1, <3>2
      <4>2. s2[k - 1 + 1] = tasks[l - 1 + 1]
        BY <4>1 DEF Replaced
      <4>3. f[s2[k]] = W
        BY <3>2, <4>1, <4>2
      <4>4. QED
        BY <4>1, <4>3 DEF Pending
    <3>3. QED
      BY <3>1, <3>2
  <2>4. QED
    BY <2>1, <2>2, <2>3
<1>9. QED
  BY <1>3, <1>7, <1>8 DEF StackInTurn, lower

(***************************************************************************)
(* A step of the walk inside a function, seen from the blocks: is is       *)
(* written at the end of block at, fresh blocks are added, and the task    *)
(* top leaves those it keeps, the new ones included, placed or to the      *)
(* last of the tasks that replace it.                                      *)
(***************************************************************************)
Keeping(t, top, tasks, left, new, targets, f) ==
  /\ \A i \in 1 .. Len(tasks) - 1 : Awaits(t)[tasks[i]] \cup ComesBack(t)[tasks[i]] = {}
  /\ IF Len(tasks) = 0 THEN left = {} ELSE Awaits(t)[tasks[Len(tasks)]] = left
  /\ Len(tasks) # 0 =>
       LET last == tasks[Len(tasks)]
       IN  /\ ComesBack(t)[last] \subseteq ComesBack(t)[top] \cup new
           /\ Branched(t)[last] \subseteq (Branched(t)[top] \cap Awaits(t)[top]) \cup targets
           /\ left \cup ComesBack(t)[last] # {} => last.func = f

Flow(t, top, tasks, bs, bs2, here, here2, at, at2, is, placed, fresh) ==
  LET new  == Len(bs) + 1 .. Len(bs) + fresh
      held == Awaits(t)[top] \cup new
  IN  /\ fresh \in Nat
      /\ Shape(bs, bs2, at, is, placed, here.in, fresh)
      /\ GoodCode(t, is)
      /\ is # << >> \/ fresh # 0 => here.open
      /\ TargetsOf(is) \subseteq held \cup ComesBack(t)[top]
      /\ placed \subseteq held
      /\ placed \subseteq (Branched(t)[top] \cap Awaits(t)[top]) \cup TargetsOf(is)
      /\ placed # {} => /\ here.in # nullptr /\ placed = {at2} /\ here2.open
                        /\ here.open => Ended(is)
      /\ placed = {} => at2 = at /\ (here2.open <=> here.open /\ Unended(is))
      /\ here2.in \in {here.in, nullptr}
      /\ here2.open => here2.in # nullptr
      /\ Keeping(t, top, tasks, held \ placed, new, TargetsOf(is), here.in)

LEMMA FramesInside ==
  ASSUME NEW t, NEW k \in Work(t), Awaits(t)[k] \cup ComesBack(t)[k] # {}
  PROVE  k.func = Begins(t)[k].in
<1>1. k.op \in {"else", "merge", "loop", "post"}
  BY DEF Awaits, ComesBack
<1>2. k \notin PlainTasks(t)
  BY <1>1 DEF PlainTasks
<1>3. k.func = EnclosingFunction(t, k.node) /\ t[k.node].kind \in {"If", "While"}
  BY <1>2 DEF Work, IfFrames, WhileFrames, NodesOf
<1>4. QED
  BY <1>1, <1>3 DEF Begins, Context

FlowCase(t, s, s2, tasks, top, bs, bs2, here, here2, at, at2, is, placed, fresh, home) ==
  /\ t \in Programs /\ s \in Seq(Work(t)) /\ Replaced(s, s2, tasks) /\ top = s[Len(s)]
  /\ StackInTurn(s, Awaits(t), Awaits(t))
  /\ Pending(s2, Owes(t)) \subseteq Pending(s, Owes(t))
  /\ GoodBlocks(t, bs) /\ here = Begins(t)[top]
  /\ Flow(t, top, tasks, bs, bs2, here, here2, at, at2, is, placed, fresh)
  /\ Layout(t, s, bs, here, at, home)

LEMMA FlowLayout ==
  ASSUME NEW t, NEW s, NEW s2, NEW tasks, NEW top, NEW bs, NEW bs2, NEW here, NEW here2,
         NEW at, NEW at2, NEW is, NEW placed, NEW fresh, NEW home,
         FlowCase(t, s, s2, tasks, top, bs, bs2, here, here2, at, at2, is, placed, fresh, home)
  PROVE  /\ GoodBlocks(t, bs2)
         /\ StackInTurn(s2, Awaits(t), Awaits(t))
         /\ \E home2 : Layout(t, s2, bs2, here2, at2, home2)
<1>0. /\ t \in Programs /\ s \in Seq(Work(t)) /\ Replaced(s, s2, tasks) /\ top = s[Len(s)]
      /\ StackInTurn(s, Awaits(t), Awaits(t))
      /\ Pending(s2, Owes(t)) \subseteq Pending(s, Owes(t))
      /\ GoodBlocks(t, bs) /\ here = Begins(t)[top]
      /\ Flow(t, top, tasks, bs, bs2, here, here2, at, at2, is, placed, fresh)
      /\ Layout(t, s, bs, here, at, home)
  BY DEF FlowCase
<1> USE <1>0
<1> PICK n : n = Len(bs)
  OBVIOUS
<1> DEFINE new  == n + 1 .. n + fresh
           held == Awaits(t)[top] \cup new
           left == held \ placed
           home2 == [b \in 1 .. n + fresh |-> IF b \in 1 .. n THEN home[b] ELSE here.in]
<1>1. /\ fresh \in Nat
      /\ Shape(bs, bs2, at, is, placed, here.in, fresh)
      /\ GoodCode(t, is)
      /\ is # << >> \/ fresh # 0 => here.open
      /\ TargetsOf(is) \subseteq held \cup ComesBack(t)[top]
      /\ placed \subseteq held
      /\ placed \subseteq (Branched(t)[top] \cap Awaits(t)[top]) \cup TargetsOf(is)
      /\ here2.in \in {here.in, nullptr}
      /\ here2.open => here2.in # nullptr
  BY DEF Flow
<1>2. /\ placed # {} => /\ here.in # nullptr /\ placed = {at2} /\ here2.open
                        /\ here.open => Ended(is)
      /\ placed = {} => at2 = at /\ (here2.open <=> here.open /\ Unended(is))
  BY DEF Flow
<1>3. Keeping(t, top, tasks, left, new, TargetsOf(is), here.in)
  BY DEF Flow
<1>4. /\ home \in [1 .. n -> Homes(t)]
      /\ Edges(bs, home)
      /\ Kept(t, s, bs, home)
      /\ Placed(t, s, bs, here.open, at, home)
      /\ Inserting(t, s, bs, here, at, home)
      /\ \A b \in 1 .. n : home[b] \notin Pending(s, Owes(t))
  BY DEF Layout
<1>5. /\ n \in Nat /\ Len(s) \in 1 .. Len(s) /\ top \in Work(t)
      /\ BlockSequence(bs) /\ \A b \in 1 .. n : GoodCode(t, bs[b].code)
  <2>1. IsSequence(bs) /\ BlockSequence(bs)
    BY DEF GoodBlocks, BlockSequence
  <2>2. Len(s) \in Nat \ {0}
    BY DEF Replaced
  <2>3. QED
    BY <2>1, <2>2, SequenceParts DEF GoodBlocks
<1>6. /\ BlockSequence(bs2) /\ Len(bs2) = n + fresh /\ n + fresh \in Nat
      /\ \A b \in 1 .. n :
           /\ bs2[b].function = IF b \in placed THEN here.in ELSE bs[b].function
           /\ bs2[b].code = IF b = at THEN bs[b].code \o is ELSE bs[b].code
      /\ \A b \in new :
           /\ bs2[b].function = IF b \in placed THEN here.in ELSE nullptr
           /\ bs2[b].code = << >>
  BY <1>1, <1>5 DEF Shape
<1>7. /\ 1 .. n \subseteq 1 .. n + fresh /\ new \subseteq 1 .. n + fresh
      /\ \A b \in 1 .. n + fresh : b \in 1 .. n \/ b \in new
      /\ \A b \in new : b \notin 1 .. n /\ 1 .. n \subseteq 1 .. b - 1
      /\ new # {} => fresh # 0
  BY <1>1, <1>5
<1> HIDE DEF new
<1>8. /\ \A b \in Awaits(t)[top] : /\ b \in 1 .. n /\ home[b] = here.in /\ IsLater(home, b)
                                   /\ bs[b].function = nullptr /\ bs[b].code = << >>
                                   /\ b \in Branched(t)[top] => Reachable(bs, home, b)
      /\ \A b \in ComesBack(t)[top] : b \in 1 .. n /\ home[b] = here.in /\ IsLater(home, b)
  <2>1. \A b \in Awaits(t)[top] \cup ComesBack(t)[top] :
          /\ b \in 1 .. n /\ home[b] = top.func /\ IsLater(home, b)
          /\ b \in Awaits(t)[top] => bs[b].function = nullptr /\ bs[b].code = << >>
          /\ b \in Branched(t)[top] => Reachable(bs, home, b)
    BY <1>4, <1>5 DEF Kept
  <2>2. Awaits(t)[top] \cup ComesBack(t)[top] # {} => top.func = here.in
    BY <1>5, FramesInside
  <2>3. QED
    BY <2>1, <2>2
<1>9. Pending(s, Awaits(t)) \subseteq 1 .. n /\ Awaits(t)[top] \subseteq Pending(s, Awaits(t))
  BY <1>4, <1>5 DEF Kept, Pending
<1>10. held \cap (Pending(s, Awaits(t)) \ Awaits(t)[top]) = {}
  BY <1>7, <1>9
<1>11. /\ StackInTurn(s2, Awaits(t), Awaits(t))
       /\ Pending(s2, Awaits(t)) = (Pending(s, Awaits(t)) \ Awaits(t)[top]) \cup left
  <2>1. left \cap (Pending(s, Awaits(t)) \ Awaits(t)[s[Len(s)]]) = {}
    BY <1>10
  <2>2. LastHolds(tasks, Awaits(t), left)
    BY <1>3 DEF Keeping, LastHolds
  <2> HIDE DEF left
  <2> PICK f : f = Awaits(t)
    OBVIOUS
  <2> PICK W : W = left
    OBVIOUS
  <2>3. /\ StackInTurn(s2, f, f)
        /\ Pending(s2, f) = (Pending(s, f) \ f[s[Len(s)]]) \cup W
    <3>1. W \cap (Pending(s, f) \ f[s[Len(s)]]) = {}
      BY <2>1
    <3>2. LastHolds(tasks, f, W)
      BY <2>2
    <3>3. StackInTurn(s, f, f)
      OBVIOUS
    <3>4. QED
      BY <3>1, <3>2, <3>3, AwaitStep
  <2>4. QED
    BY <2>3
<1>12. /\ at # nullptr => at \in 1 .. n /\ at \notin Pending(s, Awaits(t))
       /\ here.in # nullptr => at # nullptr /\ home[at] = here.in
       /\ here.open => here.in # nullptr
  BY <1>4 DEF Inserting
<1>13. at \notin held
  <2>1. nullptr \notin 1 .. n /\ nullptr \notin new
    BY <1>5 DEF nullptr, new
  <2>2. QED
    BY <1>7, <1>9, <1>12, <2>1
<1>14. ASSUME at \in 1 .. n
       PROVE  /\ bs[at].function = home[at] /\ Reachable(bs, home, at)
              /\ IF here.open THEN Unended(bs[at].code) ELSE Ended(bs[at].code)
  <2>1. at \notin Pending(s, Awaits(t))
    BY <1>5, <1>12, <1>14 DEF nullptr
  <2>2. QED
    BY <1>4, <1>14, <2>1 DEF Placed, PlacedBlock
<1>15. here.open => at \in 1 .. n /\ home[at] = here.in
  BY <1>12
<1> HIDE DEF left, held
<1>16. ASSUME NEW b \in 1 .. n
       PROVE  /\ GoodCode(t, bs2[b].code)
              /\ TargetsOf(bs[b].code) \subseteq TargetsOf(bs2[b].code)
              /\ b # at => bs2[b].code = bs[b].code
              /\ b = at => /\ TargetsOf(bs2[b].code) = TargetsOf(bs[b].code) \cup TargetsOf(is)
                           /\ here.open => (Unended(bs2[b].code) <=> Unended(is))
                           /\ ~ here.open => bs2[b].code = bs[b].code
  <2>1. CASE b # at
    BY <1>5, <1>6, <2>1
  <2>2. CASE b = at
    <3>1. bs2[b].code = bs[b].code \o is /\ GoodCode(t, bs[b].code)
      BY <1>5, <1>6, <2>2
    <3>2. Unended(bs[b].code) \/ is = << >>
      BY <1>1, <1>14, <2>2
    <3>3. here.open => Unended(bs[b].code)
      BY <1>14, <2>2
    <3>4. ~ here.open => is = << >>
      BY <1>1
    <3> PICK code : code = bs[b].code
      OBVIOUS
    <3>7. MayFollow(t, code, is)
      BY <1>1, <3>1, <3>2 DEF MayFollow
    <3>5. /\ GoodCode(t, code \o is)
          /\ Unended(code) => (Unended(code \o is) <=> Unended(is))
          /\ is = << >> => code \o is = code
          /\ TargetsOf(code \o is) = TargetsOf(code) \cup TargetsOf(is)
      BY <3>7, CodeJoined
    <3>6. QED
      BY <2>2, <3>1, <3>3, <3>4, <3>5
  <2>3. QED
    BY <2>1, <2>2
<1>17. GoodCode(t, << >>) /\ TargetsOf(<< >>) = {} /\ Unended(<< >>)
  BY ShortSequences DEF GoodCode, TargetsOf, Unended
<1>18. GoodBlocks(t, bs2)
  BY <1>6, <1>7, <1>16, <1>17 DEF GoodBlocks
<1>19. Grows(bs, bs2, home, home2)
  <2>1. \A b \in 1 .. n : home2[b] = home[b]
    BY <1>7
  <2>2. n <= n + fresh
    BY <1>1, <1>5
  <2> HIDE DEF home2
  <2>3. QED
    BY <1>5, <1>6, <1>16, <2>1, <2>2 DEF Grows
<1>20. fresh # 0 => here.in \in Homes(t) /\ here.in \notin Pending(s, Owes(t))
  BY <1>1, <1>4, <1>15
<1>21. home2 \in [1 .. n + fresh -> Homes(t)]
  BY <1>1, <1>4, <1>7, <1>20
<1>22. /\ \A b \in 1 .. n : home2[b] = home[b]
       /\ \A b \in new : home2[b] = here.in
  BY <1>7
<1> HIDE DEF home2
<1>23. ASSUME NEW b \in new PROVE IsLater(home2, b)
  <2>1. at \in 1 .. n /\ home[at] = here.in
    BY <1>1, <1>7, <1>15, <1>23
  <2>2. at \in 1 .. b - 1 /\ home2[at] = home2[b]
    BY <1>7, <1>22, <1>23, <2>1
  <2>3. QED
    BY <2>2 DEF IsLater
<1>24. \A b \in held \cup ComesBack(t)[top] :
         b \in 1 .. n + fresh /\ home2[b] = here.in /\ IsLater(home2, b)
  <2>1. ASSUME NEW b \in Awaits(t)[top] \cup ComesBack(t)[top]
        PROVE  b \in 1 .. n + fresh /\ home2[b] = here.in /\ IsLater(home2, b)
    <3>1. b \in 1 .. n /\ home[b] = here.in /\ IsLater(home, b)
      BY <1>8
    <3>2. QED
      BY <1>7, <1>19, <1>22, <3>1, LaterStays
  <2>2. ASSUME NEW b \in new
        PROVE  b \in 1 .. n + fresh /\ home2[b] = here.in /\ IsLater(home2, b)
    BY <1>7, <1>22, <1>23
  <2>3. QED
    BY <2>1, <2>2 DEF held
<1>25. Edges(bs2, home2)
  <2> SUFFICES ASSUME NEW b \in 1 .. n + fresh, NEW c \in TargetsOf(bs2[b].code)
               PROVE  c \in 1 .. n + fresh /\ home2[c] = home2[b] /\ IsLater(home2, c)
    BY <1>6 DEF Edges
  <2>1. b \in 1 .. n
    BY <1>6, <1>7, <1>17
  <2>2. CASE c \in TargetsOf(bs[b].code)
    <3>1. c \in 1 .. n /\ home[c] = home[b] /\ IsLater(home, c)
      BY <1>4, <2>1, <2>2 DEF Edges
    <3>2. QED
      BY <1>7, <1>19, <1>22, <2>1, <3>1, LaterStays
  <2>3. CASE c \notin TargetsOf(bs[b].code)
    <3>1. b = at /\ c \in TargetsOf(is)
      BY <1>16, <2>1, <2>3
    <3>2. home2[b] = here.in
      <4>1. is # << >>
        BY <1>17, <3>1
      <4>2. QED
        BY <1>1, <1>15, <1>22, <2>1, <3>1, <4>1
    <3>3. QED
      BY <1>1, <1>24, <3>1, <3>2
  <2>4. QED
    BY <2>2, <2>3
<1>26. \A c \in (Branched(t)[top] \cap Awaits(t)[top]) \cup TargetsOf(is) :
         Reachable(bs2, home2, c)
  <2>1. ASSUME NEW c \in TargetsOf(is) PROVE Reachable(bs2, home2, c)
    <3>1. is # << >>
      BY <1>17
    <3>2. at \in 1 .. n /\ at \in 1 .. Len(bs2)
      BY <1>1, <1>6, <1>7, <1>15, <3>1
    <3>3. Reachable(bs2, home2, at)
      BY <1>14, <1>19, <3>2, ReachableStays
    <3>4. c \in TargetsOf(bs2[at].code)
      BY <1>16, <3>2
    <3>5. QED
      BY <3>2, <3>3, <3>4, ReachableNext
  <2>2. ASSUME NEW c \in Branched(t)[top] \cap Awaits(t)[top] PROVE Reachable(bs2, home2, c)
    BY <1>8, <1>19, ReachableStays
  <2>3. QED
    BY <2>1, <2>2
<1>27. Kept(t, s2, bs2, home2)
  <2> SUFFICES ASSUME NEW i \in 1 .. Len(s2), NEW b \in Awaits(t)[s2[i]] \cup ComesBack(t)[s2[i]]
               PROVE  /\ b \in 1 .. n + fresh /\ home2[b] = s2[i].func /\ IsLater(home2, b)
                      /\ b \in Awaits(t)[s2[i]] =>
                           bs2[b].function = nullptr /\ bs2[b].code = << >>
                      /\ b \in Branched(t)[s2[i]] => Reachable(bs2, home2, b)
    BY <1>6 DEF Kept
  <2>1. CASE i \in 1 .. Len(s) - 1 /\ s2[i] = s[i]
    <3>1. i \in 1 .. Len(s) /\ i < Len(s)
      BY <1>5, <2>1
    <3>2. /\ b \in 1 .. n /\ home[b] = s[i].func /\ IsLater(home, b)
          /\ b \in Awaits(t)[s[i]] => bs[b].function = nullptr /\ bs[b].code = << >>
          /\ b \in Branched(t)[s[i]] => Reachable(bs, home, b)
      BY <1>4, <2>1, <3>1 DEF Kept
    <3>3. ASSUME b \in Awaits(t)[s[i]] PROVE b # at /\ b \notin placed
      <4>1. b \in Pending(s, Awaits(t))
        BY <3>1, <3>3 DEF Pending
      <4>2. b \notin Awaits(t)[top]
        BY <1>5, <3>1, <3>3 DEF StackInTurn
      <4>3. b # nullptr
        BY <1>5, <3>2 DEF nullptr
      <4>4. QED
        BY <1>1, <1>10, <1>12, <4>1, <4>2, <4>3
    <3>4. b \in Branched(t)[s[i]] => Reachable(bs2, home2, b)
      BY <1>19, <3>2, ReachableStays
    <3>5. IsLater(home2, b) /\ b \in 1 .. n + fresh /\ home2[b] = s[i].func
      BY <1>7, <1>19, <1>22, <3>2, LaterStays
    <3>6. b \in Awaits(t)[s[i]] => bs2[b].function = nullptr /\ bs2[b].code = << >>
      BY <1>6, <3>2, <3>3
    <3>7. QED
      BY <2>1, <3>4, <3>5, <3>6
  <2>2. CASE i = Len(s) /\ Len(tasks) \in 1 .. Len(tasks) /\ s2[i] = tasks[Len(tasks)]
    <3> PICK last : last = tasks[Len(tasks)]
      OBVIOUS
    <3>1. Len(tasks) # 0
      BY <2>2
    <3>2. /\ Awaits(t)[last] = left
          /\ ComesBack(t)[last] \subseteq ComesBack(t)[top] \cup new
          /\ Branched(t)[last] \subseteq (Branched(t)[top] \cap Awaits(t)[top]) \cup TargetsOf(is)
          /\ left \cup ComesBack(t)[last] # {} => last.func = here.in
      BY <1>3, <3>1 DEF Keeping
    <3>3. b \in held \cup ComesBack(t)[top] /\ last.func = here.in
      BY <2>2, <3>2 DEF left, held
    <3>4. ASSUME b \in Awaits(t)[last] PROVE bs2[b].function = nullptr /\ bs2[b].code = << >>
      <4>1. b \in held /\ b \notin placed
        BY <3>2, <3>4 DEF left
      <4>2. b # at
        BY <1>13, <4>1
      <4>3. QED
        BY <1>6, <1>8, <4>1, <4>2 DEF held
    <3>5. QED
      BY <1>24, <1>26, <2>2, <3>2, <3>3, <3>4
  <2>3. CASE \E j \in 1 .. Len(tasks) - 1 : s2[i] = tasks[j]
    BY <1>3, <2>3 DEF Keeping
  <2>4. QED
    BY <2>1, <2>2, <2>3, ReplacedMembers
<1>28. Placed(t, s2, bs2, here2.open, at2, home2)
  <2> SUFFICES ASSUME NEW b \in 1 .. n + fresh, b \notin Pending(s2, Awaits(t))
               PROVE  /\ bs2[b].function = home2[b]
                      /\ Reachable(bs2, home2, b)
                      /\ IF here2.open /\ b = at2 THEN Unended(bs2[b].code)
                                                  ELSE Ended(bs2[b].code)
    BY <1>6 DEF Placed, PlacedBlock
  <2>1. CASE b \in placed
    <3>1. b \in held /\ b # at /\ b = at2 /\ here2.open
      BY <1>1, <1>2, <1>13, <2>1
    <3>2. bs2[b].function = here.in /\ bs2[b].code = << >>
      BY <1>6, <1>8, <2>1, <3>1 DEF held
    <3>3. home2[b] = here.in
      BY <1>24, <3>1
    <3>4. Reachable(bs2, home2, b)
      BY <1>1, <1>26, <2>1
    <3>5. QED
      BY <1>17, <3>1, <3>2, <3>3, <3>4
  <2>2. CASE b \notin placed
    <3>1. b \notin held /\ b \notin Pending(s, Awaits(t))
      BY <1>11, <2>2 DEF left, held
    <3>2. b \in 1 .. n
      BY <1>7, <3>1 DEF held
    <3>3. PlacedBlock(bs, here.open, at, home, b)
      BY <1>4, <3>1, <3>2 DEF Placed
    <3>4. bs2[b].function = home2[b] /\ Reachable(bs2, home2, b)
      BY <1>6, <1>19, <1>22, <2>2, <3>2, <3>3, ReachableStays DEF PlacedBlock
    <3>5. GoodCode(t, bs2[b].code)
      BY <1>16, <3>2
    <3>6. CASE b # at
      <4>1. Ended(bs[b].code) /\ bs2[b].code = bs[b].code
        BY <1>16, <3>2, <3>3, <3>6 DEF PlacedBlock
      <4>2. ~ (b = at2)
        BY <1>2, <2>2, <3>6
      <4>3. QED
        BY <3>4, <4>1, <4>2
    <3>7. CASE b = at /\ here.open
      <4>1. Unended(bs2[b].code) <=> Unended(is)
        BY <1>16, <3>2, <3>7
      <4>2. Ended(bs2[b].code) <=> ~ Unended(bs2[b].code)
        BY <3>5, CodeEnds
      <4>3. Ended(is) <=> ~ Unended(is)
        BY <1>1, CodeEnds
      <4>4. CASE placed = {}
        BY <1>2, <3>4, <3>7, <4>1, <4>2, <4>4
      <4>5. CASE placed # {}
        <5>1. b # at2 /\ Ended(is)
          BY <1>2, <2>2, <3>7, <4>5
        <5>2. QED
          BY <3>4, <4>1, <4>2, <4>3, <5>1
      <4>6. QED
        BY <4>4, <4>5
    <3>8. CASE b = at /\ ~ here.open
      <4>1. bs2[b].code = bs[b].code /\ Ended(bs[b].code)
        BY <1>14, <1>16, <3>2, <3>8
      <4>2. ~ (here2.open /\ b = at2)
        BY <1>2, <2>2, <3>8
      <4>3. QED
        BY <3>4, <4>1, <4>2
    <3>9. QED
      BY <3>6, <3>7, <3>8
  <2>3. QED
    BY <2>1, <2>2
<1>29. Inserting(t, s2, bs2, here2, at2, home2)
  <2>1. CASE placed = {}
    <3>1. at2 = at /\ at \notin left
      BY <1>2, <1>13, <2>1 DEF left
    <3>2. at2 # nullptr => at2 \in 1 .. n + fresh /\ at2 \notin Pending(s2, Awaits(t))
      BY <1>7, <1>11, <1>12, <3>1
    <3>3. here2.in # nullptr => at2 # nullptr /\ home2[at2] = here2.in
      BY <1>1, <1>12, <1>22, <3>1
    <3>4. QED
      BY <1>1, <1>6, <3>2, <3>3 DEF Inserting
  <2>2. CASE placed # {}
    <3>1. at2 \in placed /\ at2 \in held /\ at2 \notin left
      BY <1>1, <1>2, <2>2 DEF left
    <3>2. at2 \in 1 .. n + fresh /\ home2[at2] = here.in /\ at2 \notin Pending(s2, Awaits(t))
      BY <1>10, <1>11, <1>24, <3>1
    <3>3. at2 # nullptr
      BY <1>6, <3>2 DEF nullptr
    <3>4. QED
      BY <1>1, <1>6, <3>2, <3>3 DEF Inserting
  <2>3. QED
    BY <2>1, <2>2
<1>30. \A b \in 1 .. n + fresh : home2[b] \notin Pending(s2, Owes(t))
  BY <1>4, <1>7, <1>20, <1>22
<1>31. Layout(t, s2, bs2, here2, at2, home2)
  BY <1>6, <1>21, <1>25, <1>27, <1>28, <1>29, <1>30 DEF Layout
<1>32. QED
  BY <1>11, <1>18, <1>31

(***************************************************************************)
(* The context of a task.                                                  *)
(***************************************************************************)
LEMMA InsideNode ==
  ASSUME NEW t, IsProgram(t), NEW n \in DOMAIN t, EnclosingFunction(t, n) # nullptr
  PROVE  /\ n # 1 /\ t[n].kind # "Function" /\ ~ IsTopLevel(t, n)
         /\ EnclosingFunction(t, n) \in FunctionsOf(t)
         /\ \A i \in 1 .. Len(t[n].kids) :
              /\ Kid(t, n, i) \in DOMAIN t
              /\ EnclosingFunction(t, Kid(t, n, i)) = EnclosingFunction(t, n)
<1>1. IsTree(t)
  BY DEF IsProgram
<1>2. n # 1 /\ t[n].kind # "Function" /\ ~ IsTopLevel(t, n)
  BY EnclosingTop DEF IsTopLevel
<1>3. EnclosingFunction(t, n) \in FunctionsOf(t)
  BY <1>1, EnclosingTyped
<1>4. QED
  BY <1>1, <1>2, <1>3, NodeShape, EnclosingKid

\* A statement is in a function.
LEMMA StatementInside ==
  ASSUME NEW t, IsProgram(t), NEW n \in DOMAIN t, IsTopLevel(t, n)
  PROVE  t[n].kind \in {"Program", "Function", "Variable", "Array"}
<1>1. IsTree(t) /\ t[1].kind = "Program" /\ 1 \in DOMAIN t
  BY NodeShape DEF IsProgram, IsTree
<1>2. KidsFit(t, 1)
  BY <1>1, NodeShape
<1>3. QED
  BY <1>1, <1>2 DEF KidsFit, IsTopLevel

\* A task that does no more than go on in the block written to.
Idle(t, k) ==
  /\ k \in Work(t)
  /\ Owes(t)[k] = {} /\ Awaits(t)[k] = {} /\ Branched(t)[k] = {} /\ ComesBack(t)[k] = {}

LEMMA PlainTask ==
  ASSUME NEW t, IsProgram(t), NEW n \in DOMAIN t, EnclosingFunction(t, n) # nullptr, NEW k,
         \/ k \in {Visit(n), Finish(n)}
         \/ k = [op |-> "branch", node |-> n] /\ t[n].kind = "If"
  PROVE  /\ Idle(t, k)
         /\ Begins(t)[k] = Context(TRUE, EnclosingFunction(t, n))
         /\ Leaves(t)[k] = Context(t[n].kind \in StatementKinds => Falls(t, n),
                                   EnclosingFunction(t, n))
<1>1. n # 1 /\ t[n].kind # "Function" /\ n \notin FunctionsOf(t)
  BY InsideNode DEF FunctionsOf, NodesOf
<1>2. k.op \in {"visit", "finish", "branch"} /\ k.node = n
  BY DEF Visit, Finish
<1>3. k \in PlainTasks(t)
  BY <1>2 DEF PlainTasks, Visit, Finish
<1>4. k \in Work(t)
  BY <1>3 DEF Work
<1>5. Idle(t, k)
  BY <1>1, <1>2, <1>4 DEF Idle, Owes, Awaits, Branched, ComesBack
<1>6. Begins(t)[k] = Context(TRUE, EnclosingFunction(t, n))
  BY <1>1, <1>2, <1>4 DEF Begins
<1>7. Completes(t, n) = (t[n].kind \in StatementKinds => Falls(t, n))
  BY DEF Completes
<1>8. Leaves(t)[k] = Context(Completes(t, n), EnclosingFunction(t, n))
  BY <1>2, <1>4 DEF Leaves
<1>9. QED
  BY <1>5, <1>6, <1>7, <1>8

(***************************************************************************)
(* The next step.                                                          *)
(***************************************************************************)
LEMMA TopParts ==
  ASSUME IInv, stack # << >>
  PROVE  /\ ast \in Programs /\ IsProgram(ast) /\ IsTree(ast)
         /\ Len(stack) \in Nat \ {0} /\ Top = stack[Len(stack)]
         /\ Top \in Work(ast) /\ Top.node \in DOMAIN ast
         /\ Here = Begins(ast)[Top]
<1>1. ast \in Programs /\ stack \in Seq(Work(ast)) /\ IsProgram(ast)
  BY ProgramsAssumption DEF IInv
<1>2. Len(stack) \in Nat \ {0} /\ Top = stack[Len(stack)]
  BY <1>1, EmptySeq DEF Top, Last
<1>3. Top \in Work(ast)
  BY <1>1, <1>2
<1>4. Top.node \in DOMAIN ast
  BY <1>3 DEF Work, PlainTasks, IfFrames, WhileFrames, NodesOf
<1>5. QED
  BY <1>1, <1>2, <1>3, <1>4 DEF Here, IsProgram

\* The context after the step that replaces the task on top by the given ones.
NextHere(tasks) == IF tasks = << >> THEN Leaves(ast)[Top] ELSE Begins(ast)[tasks[1]]

LEMMA NextIsHere ==
  ASSUME IInv, stack # << >>, NEW tasks \in Seq(Work(ast)), Continue(tasks), ast' = ast
  PROVE  /\ Here' = NextHere(tasks)
         /\ Replaced(stack, stack', tasks)
         /\ stack' \in Seq(Work(ast'))
<1> PICK k : k = Len(stack)
  OBVIOUS
<1> PICK l : l = Len(tasks)
  OBVIOUS
<1>1. stack \in Seq(Work(ast)) /\ InOrder
  BY DEF IInv
<1>2. /\ stack' \in Seq(Work(ast))
      /\ Len(stack') = k - 1 + l
      /\ \A i \in 1 .. k - 1 : stack'[i] = stack[i]
      /\ \A i \in 1 .. l : stack'[k - 1 + i] = tasks[l - i + 1]
  BY <1>1, ContinueStack
<1>3. k \in Nat \ {0} /\ l \in Nat /\ Top = stack[k] /\ (tasks = << >> <=> l = 0)
  BY TopParts, EmptySeq
<1>4. Replaced(stack, stack', tasks)
  BY <1>2, <1>3 DEF Replaced
<1> PICK s2 : s2 = stack'
  OBVIOUS
<1>5. Here' = IF s2 = << >> THEN End ELSE Begins(ast)[s2[Len(s2)]]
  <2>1. Here' = IF stack' = << >> THEN End ELSE Begins(ast')[Top']
    BY DEF Here, End
  <2>2. Top' = stack'[Len(stack')]
    BY DEF Top, Last
  <2>3. QED
    BY <2>1, <2>2
<1>6. s2 = << >> <=> k - 1 + l = 0
  BY <1>2, EmptySeq
<1>7. CASE l # 0
  <2>1. 1 \in 1 .. l /\ l \in 1 .. l /\ l - l + 1 = 1 /\ k - 1 + l # 0
    BY <1>3, <1>7
  <2>2. s2[k - 1 + l] = tasks[l - l + 1]
    BY <1>2, <2>1
  <2>3. QED
    BY <1>2, <1>3, <1>4, <1>5, <1>6, <1>7, <2>1, <2>2 DEF NextHere
<1>8. CASE l = 0
  <2>1. NextHere(tasks) = Leaves(ast)[stack[k]]
    BY <1>3, <1>8 DEF NextHere
  <2>2. /\ Leaves(ast)[stack[1]] = End
        /\ \A i \in 2 .. k : Leaves(ast)[stack[i]] = Begins(ast)[stack[i - 1]]
    BY <1>1 DEF InOrder, Chained
  <2>3. CASE k = 1
    BY <1>2, <1>4, <1>5, <1>6, <1>8, <2>1, <2>2, <2>3
  <2>4. CASE k # 1
    <3>1. k \in 2 .. k /\ k - 1 \in 1 .. k - 1 /\ k - 1 + l = k - 1 /\ k - 1 # 0
      BY <1>3, <1>8, <2>4
    <3>2. s2[k - 1] = stack[k - 1]
      BY <1>2, <3>1
    <3>3. QED
      BY <1>2, <1>4, <1>5, <1>6, <1>8, <2>1, <2>2, <3>1, <3>2
  <2>5. QED
    BY <2>3, <2>4
<1>9. QED
  BY <1>7, <1>8

\* A step inside a function, or between the declarations at the top.
FlowStep(tasks, is, placed, fresh) ==
  /\ stack # << >> /\ tasks \in Seq(Work(ast)) /\ Continue(tasks)
  /\ UNCHANGED << ast, fields >>
  /\ DOMAIN ir_value' \subseteq DOMAIN ir_value \cup BuiltinDecls \cup DOMAIN ast
  /\ \A i \in 1 .. Len(tasks) : Owes(ast)[tasks[i]] = {}
  /\ Leads(tasks, Begins(ast), Leaves(ast), NextHere(tasks))
  /\ Flow(ast, Top, tasks, blocks, blocks', Here, NextHere(tasks), insertBlock, insertBlock',
          is, placed, fresh)

LEMMA PassedStays ==
  ASSUME Passed, UNCHANGED << ast, fields >>
  PROVE  Passed'
BY DEF Passed, fields

LEMMA FlowKeeps ==
  ASSUME IInv, NEW tasks, NEW is, NEW placed, NEW fresh, FlowStep(tasks, is, placed, fresh)
  PROVE  IInv'
<1>1. /\ stack # << >> /\ tasks \in Seq(Work(ast)) /\ Continue(tasks) /\ ast' = ast
      /\ \A i \in 1 .. Len(tasks) : Owes(ast)[tasks[i]] = {}
      /\ Leads(tasks, Begins(ast), Leaves(ast), NextHere(tasks))
      /\ Flow(ast, Top, tasks, blocks, blocks', Here, NextHere(tasks), insertBlock,
              insertBlock', is, placed, fresh)
  BY DEF FlowStep
<1>2. /\ ast \in Programs /\ stack \in Seq(Work(ast)) /\ Passed /\ InOrder
      /\ GoodBlocks(ast, blocks)
      /\ 1 \in Pending(stack, Owes(ast)) => blocks = << >> /\ insertBlock = nullptr
      /\ DOMAIN ir_value \subseteq BuiltinDecls \cup DOMAIN ast
  BY DEF IInv
<1>3. /\ Here' = NextHere(tasks)
      /\ Replaced(stack, stack', tasks)
      /\ stack' \in Seq(Work(ast'))
  BY <1>1, NextIsHere
<1>4. /\ Top = stack[Len(stack)] /\ Here = Begins(ast)[Top] /\ Top \in Work(ast)
  BY <1>1, TopParts
<1>5. Passed' /\ DOMAIN ir_value' \subseteq BuiltinDecls \cup DOMAIN ast'
  BY <1>1, <1>2, PassedStays DEF FlowStep
<1> PICK owes : owes = Owes(ast)
  OBVIOUS
<1> PICK awaits : awaits = Awaits(ast)
  OBVIOUS
<1>6. StackInTurn(stack, owes, owes) /\ StackInTurn(stack, awaits, awaits)
  BY <1>2 DEF InOrder
<1>7. StackInTurn(stack', owes, owes) /\ Pending(stack', owes) = Pending(stack, owes) \ owes[Top]
  <2>1. Pending(tasks, owes) = {}
    BY <1>1 DEF Pending
  <2>2. InTurn(tasks, owes, owes)
    BY <1>1 DEF InTurn
  <2>3. \A a \in 1 .. Len(tasks) : owes[tasks[a]] \cup owes[tasks[a]] \subseteq owes[Top] \cup owes[Top]
    BY <1>1
  <2> PICK done : done = owes[Top]
    OBVIOUS
  <2>4. Replaces(tasks, done, owes, owes)
    BY <2>1, <2>2, <2>3 DEF Replaces
  <2>5. QED
    BY <1>1, <1>2, <1>6, <2>4, WalkStep
<1>8. PICK home : Layout(ast, stack, blocks, Here, insertBlock, home)
  BY DEF IInv
<1> PICK s2 : s2 = stack'
  OBVIOUS
<1> PICK bs2 : bs2 = blocks'
  OBVIOUS
<1> PICK here : here = Here
  OBVIOUS
<1> PICK here2 : here2 = NextHere(tasks)
  OBVIOUS
<1> PICK at2 : at2 = insertBlock'
  OBVIOUS
<1>9. /\ GoodBlocks(ast, bs2)
      /\ StackInTurn(s2, Awaits(ast), Awaits(ast))
      /\ \E home2 : Layout(ast, s2, bs2, here2, at2, home2)
  <2> PICK s : s = stack
    OBVIOUS
  <2> PICK bs : bs = blocks
    OBVIOUS
  <2> PICK at : at = insertBlock
    OBVIOUS
  <2> PICK top : top = Top
    OBVIOUS
  <2> PICK t : t = ast
    OBVIOUS
  <2>1. /\ t \in Programs /\ s \in Seq(Work(t)) /\ Replaced(s, s2, tasks) /\ top = s[Len(s)]
        /\ StackInTurn(s, Awaits(t), Awaits(t)) /\ GoodBlocks(t, bs)
        /\ here = Begins(t)[top]
    BY <1>2, <1>3, <1>4, <1>6
  <2>2. Pending(s2, Owes(t)) \subseteq Pending(s, Owes(t))
    BY <1>7
  <2>3. /\ Flow(t, top, tasks, bs, bs2, here, here2, at, at2, is, placed, fresh)
        /\ Layout(t, s, bs, here, at, home)
    BY <1>1, <1>8
  <2>4. FlowCase(t, s, s2, tasks, top, bs, bs2, here, here2, at, at2, is, placed, fresh, home)
    BY <2>1, <2>2, <2>3 DEF FlowCase
  <2>5. /\ GoodBlocks(t, bs2)
        /\ StackInTurn(s2, Awaits(t), Awaits(t))
        /\ \E home2 : Layout(t, s2, bs2, here2, at2, home2)
    BY <2>4, FlowLayout
  <2>6. QED
    BY <2>5
<1>10. Chained(stack', Begins(ast), Leaves(ast), Here', End)
  <2>1. Chained(stack, Begins(ast), Leaves(ast), Here, End)
    BY <1>2 DEF InOrder
  <2> PICK b : b = Begins(ast)
    OBVIOUS
  <2> PICK a : a = Leaves(ast)
    OBVIOUS
  <2> PICK last : last = End
    OBVIOUS
  <2>2. Chained(stack, b, a, here, last) /\ Leads(tasks, b, a, here2)
    BY <1>1, <2>1
  <2>3. Chained(stack', b, a, here2, last)
    BY <1>1, <1>2, <2>2, ContextStep
  <2>4. QED
    BY <1>3, <2>3
<1>11. InOrder'
  <2>1. StackInTurn(stack', Owes(ast'), Owes(ast')) /\ StackInTurn(stack', Awaits(ast'), Awaits(ast'))
    BY <1>1, <1>7, <1>9
  <2>2. Chained(stack', Begins(ast'), Leaves(ast'), Here', End)
    BY <1>1, <1>10
  <2> PICK h : h = Here'
    OBVIOUS
  <2>3. QED
    BY <2>1, <2>2 DEF InOrder, End, Context
<1>12. ASSUME 1 \in Pending(stack', owes) PROVE bs2 = << >> /\ at2 = nullptr
  <2>1. blocks = << >> /\ insertBlock = nullptr
    BY <1>2, <1>7, <1>12
  <2>2. here.in = nullptr /\ ~ here.open
    BY <1>8, <2>1 DEF Layout, Inserting
  <2>3. fresh = 0 /\ placed = {}
    BY <1>1, <2>2 DEF Flow
  <2>4. BlockSequence(bs2) /\ Len(bs2) = Len(blocks) + fresh
    BY <1>1 DEF Flow, Shape
  <2>5. Len(bs2) = 0
    BY <2>1, <2>3, <2>4
  <2>6. bs2 = << >>
    BY <2>4, <2>5, EmptySeq DEF BlockSequence, IsSequence
  <2>7. at2 = insertBlock
    BY <1>1, <2>3 DEF Flow
  <2>8. QED
    BY <2>1, <2>6, <2>7
<1>13. GoodBlocks(ast', blocks') /\ \E home2 : Layout(ast', stack', blocks', Here', insertBlock', home2)
  BY <1>1, <1>3, <1>9
<1>14. 1 \in Pending(stack', Owes(ast')) => blocks' = << >> /\ insertBlock' = nullptr
  BY <1>1, <1>12
<1>15. ast' \in Programs
  BY <1>1, <1>2
<1> PICK h : h = Here'
  OBVIOUS
<1>16. QED
  BY <1>3, <1>5, <1>11, <1>13, <1>14, <1>15 DEF IInv

\* A single instruction.
LEMMA OneInstruction ==
  ASSUME NEW t, NEW i, i.at \in BuiltinDecls \cup DOMAIN t,
         i.op = "ret" /\ i.at \in FunctionsOf(t) => t[i.at].type = Void
  PROVE  /\ GoodCode(t, << i >>)
         /\ << i >> # << >>
         /\ TargetsOf(<< i >>) = Range(i.targets)
         /\ Unended(<< i >>) <=> i.op \notin Terminators
         /\ Ended(<< i >>) <=> i.op \in Terminators
<1> PICK code : code = << i >>
  OBVIOUS
<1>1. IsSequence(code) /\ Len(code) = 1 /\ code[1] = i
  BY ShortSequences
<1>2. code # << >>
  BY <1>1, EmptySeq
<1>3. \A j : j \in 1 .. 1 <=> j = 1
  OBVIOUS
<1>4. GoodCode(t, code)
  BY <1>1, <1>3 DEF GoodCode
<1>5. TargetsOf(code) = Range(i.targets)
  BY <1>1, <1>3 DEF TargetsOf
<1>6. (Unended(code) <=> i.op \notin Terminators) /\ (Ended(code) <=> i.op \in Terminators)
  BY <1>1, <1>2, <1>3 DEF Unended, Ended
<1>7. QED
  BY <1>2, <1>4, <1>5, <1>6

LEMMA NoInstruction ==
  ASSUME NEW t
  PROVE  GoodCode(t, << >>) /\ TargetsOf(<< >>) = {} /\ Unended(<< >>)
BY ShortSequences DEF GoodCode, TargetsOf, Unended

LEMMA WriteShape ==
  ASSUME NEW bs, BlockSequence(bs), NEW at, NEW is, NEW f
  PROVE  Shape(bs, Written(bs, at, is), at, is, {}, f, 0)
<1> PICK w : w = Written(bs, at, is)
  OBVIOUS
<1>1. /\ BlockSequence(w) /\ Len(w) = Len(bs)
      /\ \A b \in 1 .. Len(bs) : /\ w[b].function = bs[b].function
                                 /\ w[b].code = IF b = at THEN bs[b].code \o is ELSE bs[b].code
  BY WrittenParts
<1>2. Len(bs) \in Nat
  BY SequenceParts DEF BlockSequence
<1>3. Len(w) = Len(bs) + 0 /\ Len(bs) + 1 .. Len(w) = {}
  BY <1>1, <1>2
<1>4. QED
  BY <1>1, <1>3 DEF Shape

LEMMA NothingWritten ==
  ASSUME NEW t, NEW bs, GoodBlocks(t, bs), NEW at, NEW f
  PROVE  Shape(bs, bs, at, << >>, {}, f, 0)
<1>1. BlockSequence(bs) /\ \A b \in 1 .. Len(bs) : GoodCode(t, bs[b].code)
  BY DEF GoodBlocks
<1>2. Len(bs) \in Nat
  BY <1>1, SequenceParts DEF BlockSequence
<1>3. ASSUME NEW b \in 1 .. Len(bs) PROVE bs[b].code \o << >> = bs[b].code
  <2> PICK code : code = bs[b].code
    OBVIOUS
  <2>1. GoodCode(t, code)
    BY <1>1
  <2>2. code \in Seq({code[i] : i \in DOMAIN code})
    BY <2>1 DEF GoodCode, IsSequence
  <2>3. code \o << >> = code
    BY <2>2, ConcatEmptySeq
  <2>4. QED
    BY <2>3
<1>4. Len(bs) = Len(bs) + 0 /\ Len(bs) + 1 .. Len(bs) = {}
  BY <1>2
<1>5. QED
  BY <1>1, <1>3, <1>4 DEF Shape

\* A step that writes instructions, none of them a branch, at most.
PlainStep(tasks, is) ==
  /\ stack # << >> /\ Top.op \in {"visit", "finish", "branch"}
  /\ IsSequence(tasks) /\ \A i \in 1 .. Len(tasks) : Idle(ast, tasks[i])
  /\ Continue(tasks)
  /\ UNCHANGED << ast, fields, insertBlock >>
  /\ blocks' = Written(blocks, insertBlock, is) \/ (is = << >> /\ blocks' = blocks)
  /\ DOMAIN ir_value' \subseteq DOMAIN ir_value \cup BuiltinDecls \cup DOMAIN ast
  /\ Leads(tasks, Begins(ast), Leaves(ast), NextHere(tasks))
  /\ GoodCode(ast, is) /\ TargetsOf(is) = {}
  /\ is # << >> => Here.open
  /\ NextHere(tasks).in \in {Here.in, nullptr}
  /\ NextHere(tasks).open <=> Here.open /\ Unended(is)
  /\ NextHere(tasks).open => NextHere(tasks).in # nullptr

LEMMA PlainKeeps ==
  ASSUME IInv, NEW tasks, NEW is, PlainStep(tasks, is)
  PROVE  IInv'
<1>1. /\ stack # << >> /\ Top.op \in {"visit", "finish", "branch"}
      /\ IsSequence(tasks) /\ \A i \in 1 .. Len(tasks) : Idle(ast, tasks[i])
      /\ UNCHANGED << ast, fields, insertBlock >>
      /\ blocks' = Written(blocks, insertBlock, is) \/ (is = << >> /\ blocks' = blocks)
  BY DEF PlainStep
<1>2. Top \in Work(ast) /\ GoodBlocks(ast, blocks) /\ BlockSequence(blocks)
  BY <1>1, TopParts DEF IInv, GoodBlocks
<1> PICK bs : bs = blocks
  OBVIOUS
<1> PICK n : n = Len(bs)
  OBVIOUS
<1>3. n \in Nat /\ n + 0 = n /\ n + 1 .. n + 0 = {}
  BY <1>2, SequenceParts DEF BlockSequence
<1>4. Shape(blocks, blocks', insertBlock, is, {}, Here.in, 0)
  <2> PICK f : f = Here.in
    OBVIOUS
  <2>1. CASE blocks' = Written(blocks, insertBlock, is)
    BY <1>2, <2>1, WriteShape
  <2>2. CASE is = << >> /\ blocks' = blocks
    BY <1>2, <2>2, NothingWritten
  <2>3. QED
    BY <1>1, <2>1, <2>2
<1>5. Awaits(ast)[Top] = {}
  BY <1>1, <1>2 DEF Awaits
<1>6. tasks \in Seq(Work(ast))
  <2>1. tasks \in Seq({tasks[i] : i \in DOMAIN tasks}) /\ DOMAIN tasks = 1 .. Len(tasks)
    BY <1>1, SequenceParts DEF IsSequence
  <2>2. {tasks[i] : i \in DOMAIN tasks} \subseteq Work(ast)
    BY <1>1, <2>1 DEF Idle
  <2>3. QED
    BY <2>1, <2>2
<1>7. Keeping(ast, Top, tasks, {}, {}, TargetsOf(is), Here.in)
  <2> PICK l : l = Len(tasks)
    OBVIOUS
  <2>1. l \in Nat
    BY <1>6
  <2>2. \A i \in 1 .. l - 1 : i \in 1 .. l
    BY <2>1
  <2>3. l # 0 => l \in 1 .. l
    BY <2>1
  <2>4. \A i \in 1 .. l : /\ Awaits(ast)[tasks[i]] = {} /\ Branched(ast)[tasks[i]] = {}
                          /\ ComesBack(ast)[tasks[i]] = {}
    BY <1>1 DEF Idle
  <2>5. QED
    BY <2>2, <2>3, <2>4 DEF Keeping
<1>8. Flow(ast, Top, tasks, blocks, blocks', Here, NextHere(tasks), insertBlock, insertBlock',
           is, {}, 0)
  <2>1. (Awaits(ast)[Top] \cup (n + 1 .. n + 0)) \ {} = {} /\ n + 1 .. n + 0 = {}
    BY <1>3, <1>5
  <2>2. /\ GoodCode(ast, is) /\ TargetsOf(is) = {}
        /\ is # << >> => Here.open
        /\ NextHere(tasks).in \in {Here.in, nullptr}
        /\ NextHere(tasks).open <=> Here.open /\ Unended(is)
        /\ NextHere(tasks).open => NextHere(tasks).in # nullptr
    BY DEF PlainStep
  <2>3. 0 \in Nat /\ {} \subseteq {} /\ insertBlock' = insertBlock
    BY <1>1
  <2>4. QED
    BY <1>4, <1>7, <2>1, <2>2, <2>3 DEF Flow
<1>9. \A i \in 1 .. Len(tasks) : Owes(ast)[tasks[i]] = {}
  BY <1>1 DEF Idle
<1> PICK fresh : fresh = 0
  OBVIOUS
<1> PICK placed : placed = {}
  OBVIOUS
<1>10. FlowStep(tasks, is, placed, fresh)
  BY <1>1, <1>6, <1>8, <1>9 DEF FlowStep, PlainStep
<1>11. QED
  BY <1>10, FlowKeeps

\* The first two parts of an invariant state: what the passes before left.
LEMMA AlwaysReturns ==
  ASSUME IInv, NEW n \in NodesOf(ast, StatementKinds)
  PROVE  always_returns[n] = ~ Falls(ast, n)
<1>1. IsTree(ast) /\ always_returns = [m \in DOMAIN OutcomesOf(ast) |-> ~ Falls(ast, m)]
  BY ProgramsAssumption DEF IInv, Passed, IsProgram
<1>2. DOMAIN OutcomesOf(ast) = NodesOf(ast, StatementKinds)
  BY <1>1, OutcomesDefined
<1>3. QED
  BY <1>1, <1>2

LEMMA TopInside ==
  ASSUME IInv, NEW op, NEW kinds, Doing(op, kinds), op \in {"visit", "finish", "branch"},
         kinds \cap {"Program", "Function", "Variable", "Array"} = {}
  PROVE  /\ EnclosingFunction(ast, Top.node) # nullptr
         /\ Top = [op |-> op, node |-> Top.node]
         /\ Here = Context(TRUE, EnclosingFunction(ast, Top.node))
<1>1. /\ stack # << >> /\ Top.op = op /\ ast[Top.node].kind \in kinds
      /\ ast[Top.node].kind \notin {"Program", "Function", "Variable", "Array"}
  BY DEF Doing
<1>2. /\ IsProgram(ast) /\ Top \in Work(ast) /\ Top.node \in DOMAIN ast
      /\ Here = Begins(ast)[Top]
  BY <1>1, TopParts
<1>3. Top \in PlainTasks(ast)
  BY <1>1, <1>2 DEF Work, IfFrames, WhileFrames
<1>4. ~ IsTopLevel(ast, Top.node)
  BY <1>1, <1>2, StatementInside
<1>5. EnclosingFunction(ast, Top.node) # nullptr
  BY <1>1, <1>3, <1>4 DEF PlainTasks
<1>6. Top = [op |-> op, node |-> Top.node]
  BY <1>1, <1>3 DEF PlainTasks
<1>7. Here = Context(TRUE, EnclosingFunction(ast, Top.node))
  BY <1>1, <1>2, <1>5 DEF Begins
<1>8. QED
  BY <1>5, <1>6, <1>7

LEMMA ContextParts ==
  ASSUME NEW a, NEW f
  PROVE  Context(a, f).open = a /\ Context(a, f).in = f
BY DEF Context

\* Control comes out of what is generated for node n of a function.
Goes(t, n) == t[n].kind \in StatementKinds => Falls(t, n)

\* Inside a function the visit of a node either goes through others, one
\* after the other, or writes instructions.
Straight(t, f, k) ==
  /\ k.node \in DOMAIN t /\ EnclosingFunction(t, k.node) = f
  /\ \/ k \in {Visit(k.node), Finish(k.node)}
     \/ k = [op |-> "branch", node |-> k.node] /\ t[k.node].kind = "If"

LineStep(tasks, is) ==
  LET n == Top.node
      f == EnclosingFunction(ast, n)
  IN  /\ stack # << >> /\ f # nullptr /\ Straight(ast, f, Top)
      /\ IsSequence(tasks) /\ \A i \in 1 .. Len(tasks) : Straight(ast, f, tasks[i])
      /\ \A i \in 1 .. Len(tasks) - 1 : Goes(ast, tasks[i].node)
      /\ Len(tasks) # 0 => /\ is = << >>
                           /\ Goes(ast, tasks[Len(tasks)].node) = Goes(ast, n)
      /\ Len(tasks) = 0 => Goes(ast, n) = Unended(is)
      /\ Continue(tasks)
      /\ UNCHANGED << ast, fields, insertBlock >>
      /\ blocks' = Written(blocks, insertBlock, is) \/ (is = << >> /\ blocks' = blocks)
      /\ DOMAIN ir_value' \subseteq DOMAIN ir_value \cup BuiltinDecls \cup DOMAIN ast
      /\ GoodCode(ast, is) /\ TargetsOf(is) = {}

LEMMA LineKeeps ==
  ASSUME IInv, NEW tasks, NEW is, LineStep(tasks, is)
  PROVE  IInv'
<1> PICK f : f = EnclosingFunction(ast, Top.node)
  OBVIOUS
<1> PICK l : l = Len(tasks)
  OBVIOUS
<1>1. /\ stack # << >> /\ f # nullptr /\ Straight(ast, f, Top)
      /\ IsSequence(tasks) /\ \A i \in 1 .. l : Straight(ast, f, tasks[i])
      /\ \A i \in 1 .. l - 1 : Goes(ast, tasks[i].node)
      /\ l # 0 => is = << >> /\ Goes(ast, tasks[l].node) = Goes(ast, Top.node)
      /\ l = 0 => Goes(ast, Top.node) = Unended(is)
      /\ Continue(tasks)
      /\ UNCHANGED << ast, fields, insertBlock >>
      /\ blocks' = Written(blocks, insertBlock, is) \/ (is = << >> /\ blocks' = blocks)
      /\ DOMAIN ir_value' \subseteq DOMAIN ir_value \cup BuiltinDecls \cup DOMAIN ast
      /\ GoodCode(ast, is) /\ TargetsOf(is) = {}
  BY DEF LineStep
<1>2. l \in Nat /\ (tasks = << >> <=> l = 0)
  BY <1>1, SequenceParts, EmptySeq DEF IsSequence
<1>3. IsProgram(ast) /\ Here = Begins(ast)[Top]
  BY <1>1, TopParts
<1>4. ASSUME NEW k, Straight(ast, f, k)
      PROVE  /\ Idle(ast, k)
             /\ Begins(ast)[k] = Context(TRUE, f)
             /\ Leaves(ast)[k] = Context(Goes(ast, k.node), f)
  <2> PICK n : n = k.node
    OBVIOUS
  <2>1. /\ n \in DOMAIN ast /\ EnclosingFunction(ast, n) = f /\ f # nullptr
        /\ \/ k \in {Visit(n), Finish(n)}
           \/ k = [op |-> "branch", node |-> n] /\ ast[n].kind = "If"
    BY <1>1, <1>4 DEF Straight
  <2>2. /\ Idle(ast, k)
        /\ Begins(ast)[k] = Context(TRUE, EnclosingFunction(ast, n))
        /\ Leaves(ast)[k] = Context(ast[n].kind \in StatementKinds => Falls(ast, n),
                                    EnclosingFunction(ast, n))
    BY <1>3, <2>1, PlainTask
  <2>3. QED
    BY <2>1, <2>2 DEF Goes
<1>5. Here = Context(TRUE, f) /\ Leaves(ast)[Top] = Context(Goes(ast, Top.node), f)
  BY <1>1, <1>3, <1>4
<1>6. \A i \in 1 .. l : /\ Idle(ast, tasks[i])
                        /\ Begins(ast)[tasks[i]] = Context(TRUE, f)
                        /\ Leaves(ast)[tasks[i]] = Context(Goes(ast, tasks[i].node), f)
  BY <1>1, <1>4
<1>7. /\ \A i \in 1 .. l - 1 : i \in 1 .. l /\ i + 1 \in 1 .. l
      /\ l # 0 => 1 \in 1 .. l /\ l \in 1 .. l
  BY <1>2
<1>8. NextHere(tasks) = Context(IF l = 0 THEN Goes(ast, Top.node) ELSE TRUE, f)
  BY <1>2, <1>5, <1>6, <1>7 DEF NextHere
<1>9. \A i \in 1 .. l - 1 : Goes(ast, tasks[i].node) = TRUE
  BY <1>1 DEF Goes
<1>10. Leads(tasks, Begins(ast), Leaves(ast), NextHere(tasks))
  <2>1. tasks = << >> => NextHere(tasks) = Leaves(ast)[Top]
    BY DEF NextHere
  <2>2. tasks # << >> => /\ Begins(ast)[tasks[1]] = NextHere(tasks)
                         /\ Leaves(ast)[tasks[l]] = Leaves(ast)[Top]
    BY <1>1, <1>2, <1>5, <1>6, <1>7 DEF NextHere
  <2>3. \A i \in 1 .. l - 1 : Leaves(ast)[tasks[i]] = Begins(ast)[tasks[i + 1]]
    BY <1>6, <1>7, <1>9
  <2>4. QED
    BY <2>1, <2>2, <2>3 DEF Leads
<1>11. Top.op \in {"visit", "finish", "branch"}
  BY <1>1 DEF Straight, Visit, Finish
<1>12. NextHere(tasks).open <=> Here.open /\ Unended(is)
  <2>1. Here.open = TRUE
    BY <1>5, ContextParts
  <2>2. CASE l = 0
    BY <1>1, <1>8, <2>1, <2>2, ContextParts
  <2>3. CASE l # 0
    BY <1>1, <1>8, <2>1, <2>3, ContextParts, NoInstruction
  <2>4. QED
    BY <2>2, <2>3
<1>13. NextHere(tasks).in = Here.in /\ NextHere(tasks).in # nullptr /\ Here.open
  <2> PICK goes : goes = IF l = 0 THEN Goes(ast, Top.node) ELSE TRUE
    OBVIOUS
  <2>1. NextHere(tasks) = Context(goes, f)
    BY <1>8
  <2>2. NextHere(tasks).in = f
    BY <2>1 DEF Context
  <2>3. Here.in = f /\ Here.open = TRUE
    BY <1>5 DEF Context
  <2>4. QED
    BY <1>1, <2>2, <2>3
<1>14. PlainStep(tasks, is)
  BY <1>1, <1>6, <1>10, <1>11, <1>12, <1>13 DEF PlainStep
<1>15. QED
  BY <1>14, PlainKeeps

(***************************************************************************)
(* The visits, one by one.  First those that go through the parts of a     *)
(* node in the block written to.                                           *)
(***************************************************************************)
LEMMA VisitAllParts ==
  ASSUME NEW ns, IsSequence(ns)
  PROVE  /\ IsSequence(VisitAll(ns)) /\ Len(VisitAll(ns)) = Len(ns)
         /\ \A i \in 1 .. Len(ns) : VisitAll(ns)[i] = Visit(ns[i])
<1> PICK tasks : tasks = VisitAll(ns)
  OBVIOUS
<1>1. Len(ns) \in Nat /\ DOMAIN ns = 1 .. Len(ns)
  BY SequenceParts
<1>2. tasks = [i \in 1 .. Len(ns) |-> Visit(ns[i])]
  BY <1>1 DEF VisitAll
<1>3. tasks = [i \in 1 .. Len(ns) |-> tasks[i]] /\ \A i \in 1 .. Len(ns) : tasks[i] = Visit(ns[i])
  BY <1>2
<1>4. IsSequence(tasks) /\ Len(tasks) = Len(ns)
  BY <1>1, <1>3, SequenceMade
<1>5. QED
  BY <1>3, <1>4

\* A step that only goes on, in the parts of a node of a function.
LEMMA OnwardKeeps ==
  ASSUME IInv, NEW op, NEW kinds, Doing(op, kinds), op \in {"visit", "finish"},
         kinds \cap {"Program", "Function", "Variable", "Array"} = {},
         NEW tasks, IsSequence(tasks), Continue(tasks), UNCHANGED << ast, fields, ir >>,
         \A i \in 1 .. Len(tasks) : Straight(ast, EnclosingFunction(ast, Top.node), tasks[i]),
         \A i \in 1 .. Len(tasks) - 1 : Goes(ast, tasks[i].node),
         Len(tasks) # 0 => Goes(ast, tasks[Len(tasks)].node) = Goes(ast, Top.node),
         Len(tasks) = 0 => Goes(ast, Top.node)
  PROVE  IInv'
<1> PICK is : is = << >>
  OBVIOUS
<1>1. stack # << >> /\ Top.node \in DOMAIN ast
  BY TopParts DEF Doing
<1>2. EnclosingFunction(ast, Top.node) # nullptr /\ Top = [op |-> op, node |-> Top.node]
  BY TopInside
<1>3. Straight(ast, EnclosingFunction(ast, Top.node), Top)
  BY <1>1, <1>2 DEF Straight, Visit, Finish
<1>4. GoodCode(ast, is) /\ TargetsOf(is) = {} /\ Unended(is)
  BY NoInstruction
<1>5. Len(tasks) = 0 => Goes(ast, Top.node) = Unended(is)
  BY <1>4, Zenon DEF Goes, Unended
<1>6. UNCHANGED << ast, fields, insertBlock >> /\ blocks' = blocks /\ ir_value' = ir_value
  BY DEF ir
<1>7. LineStep(tasks, is)
  BY <1>1, <1>2, <1>3, <1>4, <1>5, <1>6 DEF LineStep
<1>8. QED
  BY <1>7, LineKeeps

LEMMA StraightKid ==
  ASSUME NEW t, IsProgram(t), NEW n \in DOMAIN t, EnclosingFunction(t, n) # nullptr,
         NEW i \in 1 .. Len(t[n].kids)
  PROVE  /\ Straight(t, EnclosingFunction(t, n), Visit(Kid(t, n, i)))
         /\ Visit(Kid(t, n, i)).node = Kid(t, n, i)
<1>1. Kid(t, n, i) \in DOMAIN t /\ EnclosingFunction(t, Kid(t, n, i)) = EnclosingFunction(t, n)
  BY InsideNode
<1>2. QED
  BY <1>1 DEF Straight, Visit

LEMMA StraightFinish ==
  ASSUME NEW t, NEW n \in DOMAIN t
  PROVE  Straight(t, EnclosingFunction(t, n), Finish(n)) /\ Finish(n).node = n
BY DEF Straight, Finish

LEMMA GoesOn ==
  ASSUME NEW t, NEW n \in DOMAIN t, t[n].kind \notin StatementKinds
  PROVE  Goes(t, n)
BY DEF Goes

\* The operands of a node, then the node.
LEMMA OperandsKeep ==
  ASSUME IInv, NEW kinds, Visiting(kinds), UNCHANGED << ast, fields, ir >>,
         kinds \subseteq {"Return", "ExpressionStmt"} \cup ExpressionKinds,
         Continue(VisitAll(Kids(ast, Top.node)) \o << Finish(Top.node) >>)
  PROVE  IInv'
<1> PICK n : n = Top.node
  OBVIOUS
<1> PICK tasks : tasks = VisitAll(Kids(ast, n)) \o << Finish(n) >>
  OBVIOUS
<1> PICK l : l = Len(ast[n].kids)
  OBVIOUS
<1> PICK f : f = EnclosingFunction(ast, n)
  OBVIOUS
<1>1. /\ stack # << >> /\ ast[n].kind \in {"Return", "ExpressionStmt"} \cup ExpressionKinds
      /\ IsProgram(ast) /\ IsTree(ast) /\ n \in DOMAIN ast
  <2>1. stack # << >> /\ ast[n].kind \in kinds
    BY DEF Visiting, Doing
  <2>2. QED
    BY <2>1, TopParts
<1>2. kinds \cap {"Program", "Function", "Variable", "Array"} = {}
  BY DEF ExpressionKinds, LiteralKinds
<1>3. Doing("visit", kinds)
  BY DEF Visiting
<1>4. f # nullptr
  BY <1>2, <1>3, TopInside
<1>5. /\ l \in Nat /\ IsSequence(Kids(ast, n)) /\ Len(Kids(ast, n)) = l
      /\ \A i \in 1 .. l : Kids(ast, n)[i] = Kid(ast, n, i)
  BY <1>1, KidsSequence, SequenceOf
<1>6. /\ IsSequence(VisitAll(Kids(ast, n))) /\ Len(VisitAll(Kids(ast, n))) = l
      /\ \A i \in 1 .. l : VisitAll(Kids(ast, n))[i] = Visit(Kid(ast, n, i))
  BY <1>5, VisitAllParts
<1> PICK visits : visits = VisitAll(Kids(ast, n))
  OBVIOUS
<1>7. tasks = visits \o << Finish(n) >> /\ IsSequence(visits) /\ Len(visits) = l
  BY <1>6
<1>8. /\ IsSequence(tasks) /\ Len(tasks) = l + 1
      /\ \A i \in 1 .. l : tasks[i] = visits[i]
      /\ tasks[l + 1] = Finish(n)
  <2> PICK x : x = Finish(n)
    OBVIOUS
  <2>1. Extends(tasks, visits, x)
    BY <1>7, LastAdded
  <2>2. QED
    BY <1>7, <2>1 DEF Extends
<1>9. \A i \in 1 .. l : /\ Straight(ast, f, tasks[i]) /\ Goes(ast, tasks[i].node)
  <2> TAKE i \in 1 .. l
  <2>1. tasks[i] = Visit(Kid(ast, n, i))
    BY <1>6, <1>8
  <2>2. Straight(ast, f, Visit(Kid(ast, n, i))) /\ Visit(Kid(ast, n, i)).node = Kid(ast, n, i)
    BY <1>1, <1>4, StraightKid
  <2>3. Kid(ast, n, i) \in NodesOf(ast, ExpressionKinds)
    BY <1>1, Operands
  <2>4. Goes(ast, Kid(ast, n, i))
    BY <2>3, GoesOn DEF NodesOf, ExpressionKinds, LiteralKinds, StatementKinds
  <2>5. QED
    BY <2>1, <2>2, <2>4
<1>10. tasks[l + 1] = Finish(n) /\ Straight(ast, f, tasks[l + 1]) /\ tasks[l + 1].node = n
  BY <1>1, <1>8, StraightFinish
<1>11. /\ \A i \in 1 .. l + 1 : i \in 1 .. l \/ i = l + 1
       /\ \A i \in 1 .. (l + 1) - 1 : i \in 1 .. l
       /\ l + 1 # 0
  BY <1>5
<1>12. /\ \A i \in 1 .. Len(tasks) : Straight(ast, EnclosingFunction(ast, Top.node), tasks[i])
       /\ \A i \in 1 .. Len(tasks) - 1 : Goes(ast, tasks[i].node)
       /\ Len(tasks) # 0 => Goes(ast, tasks[Len(tasks)].node) = Goes(ast, Top.node)
       /\ Len(tasks) = 0 => Goes(ast, Top.node)
  BY <1>8, <1>9, <1>10, <1>11
<1> PICK op : op = "visit"
  OBVIOUS
<1>13. QED
  BY <1>2, <1>3, <1>8, <1>12, OnwardKeeps

LEMMA StatementVisited ==
  ASSUME IInv, VisitStatement
  PROVE  IInv'
<1> PICK kinds : kinds = {"Return", "ExpressionStmt"}
  OBVIOUS
<1>1. /\ Visiting(kinds) /\ UNCHANGED << ast, fields, ir >>
      /\ kinds \subseteq {"Return", "ExpressionStmt"} \cup ExpressionKinds
      /\ Continue(VisitAll(Kids(ast, Top.node)) \o << Finish(Top.node) >>)
  BY DEF VisitStatement
<1>2. QED
  BY <1>1, OperandsKeep

LEMMA ExpressionVisited ==
  ASSUME IInv, VisitExpression
  PROVE  IInv'
<1> PICK kinds : kinds = {"Subscript", "ImplicitCast", "Call", "Additive", "Multiplicative",
                          "Relational"}
  OBVIOUS
<1>1. /\ Visiting(kinds) /\ UNCHANGED << ast, fields, ir >>
      /\ kinds \subseteq {"Return", "ExpressionStmt"} \cup ExpressionKinds
      /\ Continue(VisitAll(Kids(ast, Top.node)) \o << Finish(Top.node) >>)
  BY DEF VisitExpression, VisitOperands, ExpressionKinds
<1>2. QED
  BY <1>1, OperandsKeep

\* Two or three tasks.
LEMMA FewTasks ==
  /\ \A a, b : /\ IsSequence(<< a, b >>) /\ Len(<< a, b >>) = 2
               /\ << a, b >>[1] = a /\ << a, b >>[2] = b
  /\ \A a, b, c : /\ IsSequence(<< a, b, c >>) /\ Len(<< a, b, c >>) = 3
                  /\ << a, b, c >>[1] = a /\ << a, b, c >>[2] = b /\ << a, b, c >>[3] = c
<1>1. ASSUME NEW a, NEW b, NEW c
      PROVE  /\ IsSequence(<< a, b, c >>) /\ Len(<< a, b, c >>) = 3
             /\ << a, b, c >>[1] = a /\ << a, b, c >>[2] = b /\ << a, b, c >>[3] = c
  <2>1. << a, b, c >> = [i \in 1 .. 3 |-> << a, b, c >>[i]]
    OBVIOUS
  <2>2. 3 \in Nat
    OBVIOUS
  <2>3. QED
    BY <2>1, <2>2, SequenceMade
<1>2. QED
  BY <1>1, ShortSequences

LEMMA AssignmentVisited ==
  ASSUME IInv, VisitAssignment
  PROVE  IInv'
<1> PICK n : n = Top.node
  OBVIOUS
<1> PICK x : x = Kid(ast, n, 2)
  OBVIOUS
<1> PICK y : y = Kid(ast, n, 1)
  OBVIOUS
<1> PICK tasks : tasks = << Visit(x), Visit(y), Finish(n) >>
  OBVIOUS
<1> PICK kinds : kinds = {"Assignment"}
  OBVIOUS
<1> PICK op : op = "visit"
  OBVIOUS
<1>1. Doing(op, kinds) /\ Continue(tasks) /\ UNCHANGED << ast, fields, ir >>
  BY DEF VisitAssignment, Visiting
<1>2. /\ kinds \cap {"Program", "Function", "Variable", "Array"} = {}
      /\ op \in {"visit", "finish", "branch"}
  OBVIOUS
<1>3. /\ IsProgram(ast) /\ IsTree(ast) /\ n \in DOMAIN ast /\ ast[n].kind = "Assignment"
  <2>1. stack # << >> /\ ast[n].kind = "Assignment"
    BY <1>1 DEF Doing
  <2>2. QED
    BY <2>1, TopParts
<1>4. EnclosingFunction(ast, n) # nullptr
  BY <1>1, <1>2, TopInside
<1>5. Len(ast[n].kids) = 2 /\ 1 \in 1 .. 2 /\ 2 \in 1 .. 2
  BY <1>3, KidCounts
<1>6. /\ Straight(ast, EnclosingFunction(ast, n), Visit(x)) /\ Visit(x).node = x
      /\ Straight(ast, EnclosingFunction(ast, n), Visit(y)) /\ Visit(y).node = y
      /\ Straight(ast, EnclosingFunction(ast, n), Finish(n)) /\ Finish(n).node = n
  BY <1>3, <1>4, <1>5, StraightKid, StraightFinish
<1>7. x \in NodesOf(ast, ExpressionKinds) /\ y \in NodesOf(ast, ExpressionKinds)
  BY <1>3, <1>5, Operands DEF ExpressionKinds
<1>8. Goes(ast, x) /\ Goes(ast, y)
  BY <1>7, GoesOn DEF NodesOf, ExpressionKinds, LiteralKinds, StatementKinds
<1>9. /\ IsSequence(tasks) /\ Len(tasks) = 3
      /\ tasks[1] = Visit(x) /\ tasks[2] = Visit(y) /\ tasks[3] = Finish(n)
  BY FewTasks
<1>10. /\ \A i \in 1 .. Len(tasks) : Straight(ast, EnclosingFunction(ast, Top.node), tasks[i])
       /\ \A i \in 1 .. Len(tasks) - 1 : Goes(ast, tasks[i].node)
       /\ Len(tasks) # 0 => Goes(ast, tasks[Len(tasks)].node) = Goes(ast, Top.node)
       /\ Len(tasks) = 0 => Goes(ast, Top.node)
  <2>1. \A i : (i \in 1 .. 3 <=> i \in {1, 2, 3}) /\ (i \in 1 .. 3 - 1 <=> i \in {1, 2})
    OBVIOUS
  <2> HIDE DEF Goes
  <2>2. QED
    BY <1>6, <1>8, <1>9, <2>1
<1>11. QED
  BY <1>1, <1>2, <1>9, <1>10, OnwardKeeps

LEMMA IfVisited ==
  ASSUME IInv, VisitIf
  PROVE  IInv'
<1> PICK n : n = Top.node
  OBVIOUS
<1> PICK x : x = Kid(ast, n, 1)
  OBVIOUS
<1> PICK branch : branch = [op |-> "branch", node |-> n]
  OBVIOUS
<1> PICK tasks : tasks = << Visit(x), branch >>
  OBVIOUS
<1> PICK kinds : kinds = {"If"}
  OBVIOUS
<1> PICK op : op = "visit"
  OBVIOUS
<1>1. Doing(op, kinds) /\ Continue(tasks) /\ UNCHANGED << ast, fields, ir >>
  BY DEF VisitIf, Visiting
<1>2. /\ kinds \cap {"Program", "Function", "Variable", "Array"} = {}
      /\ op \in {"visit", "finish", "branch"}
  OBVIOUS
<1>3. /\ IsProgram(ast) /\ IsTree(ast) /\ n \in DOMAIN ast /\ ast[n].kind = "If"
  <2>1. stack # << >> /\ ast[n].kind = "If"
    BY <1>1 DEF Doing
  <2>2. QED
    BY <2>1, TopParts
<1>4. EnclosingFunction(ast, n) # nullptr
  BY <1>1, <1>2, TopInside
<1>5. 1 \in 1 .. Len(ast[n].kids)
  BY <1>3, KidCounts
<1>6. /\ Straight(ast, EnclosingFunction(ast, n), Visit(x)) /\ Visit(x).node = x
      /\ Straight(ast, EnclosingFunction(ast, n), branch) /\ branch.node = n
  BY <1>3, <1>4, <1>5, StraightKid DEF Straight
<1>7. Goes(ast, x)
  <2>1. x \in NodesOf(ast, ExpressionKinds)
    BY <1>3, <1>5, Operands
  <2>2. QED
    BY <2>1, GoesOn DEF NodesOf, ExpressionKinds, LiteralKinds, StatementKinds
<1>8. /\ IsSequence(tasks) /\ Len(tasks) = 2 /\ tasks[1] = Visit(x) /\ tasks[2] = branch
  BY FewTasks
<1>9. /\ \A i \in 1 .. Len(tasks) : Straight(ast, EnclosingFunction(ast, Top.node), tasks[i])
      /\ \A i \in 1 .. Len(tasks) - 1 : Goes(ast, tasks[i].node)
      /\ Len(tasks) # 0 => Goes(ast, tasks[Len(tasks)].node) = Goes(ast, Top.node)
      /\ Len(tasks) = 0 => Goes(ast, Top.node)
  <2>1. \A i : (i \in 1 .. 2 <=> i \in {1, 2}) /\ (i \in 1 .. 2 - 1 <=> i = 1)
    OBVIOUS
  <2>2. QED
    BY <1>6, <1>7, <1>8, <2>1
<1>10. QED
  BY <1>1, <1>2, <1>8, <1>9, OnwardKeeps

LEMMA ExpressionStmtFinished ==
  ASSUME IInv, FinishExpressionStmt
  PROVE  IInv'
<1> PICK n : n = Top.node
  OBVIOUS
<1> PICK tasks : tasks = << >>
  OBVIOUS
<1> PICK kinds : kinds = {"ExpressionStmt"}
  OBVIOUS
<1> PICK op : op = "finish"
  OBVIOUS
<1>1. Doing(op, kinds) /\ Continue(tasks) /\ UNCHANGED << ast, fields, ir >>
  BY DEF FinishExpressionStmt
<1>2. /\ kinds \cap {"Program", "Function", "Variable", "Array"} = {}
      /\ op \in {"visit", "finish"}
  OBVIOUS
<1>3. /\ IsTree(ast) /\ n \in DOMAIN ast /\ ast[n].kind = "ExpressionStmt"
  <2>1. stack # << >> /\ ast[n].kind = "ExpressionStmt"
    BY <1>1 DEF Doing
  <2>2. QED
    BY <2>1, TopParts
<1>4. Goes(ast, n)
  BY <1>3, FallsThrough DEF Goes, Falls, NodesOf, StatementKinds
<1>5. IsSequence(tasks) /\ Len(tasks) = 0 /\ 1 .. 0 = {} /\ 1 .. 0 - 1 = {}
  BY ShortSequences
<1>6. QED
  BY <1>1, <1>2, <1>4, <1>5, OnwardKeeps

\* The statements that are generated: all but the last of them fall through,
\* and the last does if the block does.
GeneratedWell(n, stmts) ==
  LET generated == Generated(stmts)
      l == Len(generated)
  IN  /\ IsSequence(generated)
      /\ l \in 0 .. Len(stmts)
      /\ \A i \in 1 .. l : generated[i] = stmts[i]
      /\ \A i \in 1 .. l - 1 : Falls(ast, stmts[i])
      /\ l # 0 => (Falls(ast, stmts[l]) <=> Falls(ast, n))
      /\ l = 0 => Falls(ast, n)

LEMMA GeneratedParts ==
  ASSUME IInv, NEW n \in DOMAIN ast, ast[n].kind = "Compound"
  PROVE  GeneratedWell(n, Statements(ast, n))
<1> PICK stmts : stmts = Statements(ast, n)
  OBVIOUS
<1> PICK l : l = Len(stmts)
  OBVIOUS
<1> DEFINE returning == {i \in DOMAIN stmts : always_returns[stmts[i]]}
<1>1. IsTree(ast)
  BY ProgramsAssumption DEF IInv, IsProgram
<1>2. n \in NodesOf(ast, StatementKinds)
  BY DEF NodesOf, StatementKinds
<1>3. stmts \in Seq(DOMAIN ast) /\ l \in Nat /\ DOMAIN stmts = 1 .. l /\ IsSequence(stmts)
  <2>1. stmts \in Seq(DOMAIN ast)
    BY <1>1, BlockParts
  <2>2. IsSequence(stmts)
    BY <2>1, SequenceOf
  <2>3. QED
    BY <2>1, <2>2
<1>4. \A i \in 1 .. l : stmts[i] \in NodesOf(ast, StatementKinds)
  BY <1>1, <1>2, <1>3, StatementsInside
<1>5. \A i \in 1 .. l : always_returns[stmts[i]] <=> ~ Falls(ast, stmts[i])
  <2> TAKE i \in 1 .. l
  <2>1. always_returns[stmts[i]] = ~ Falls(ast, stmts[i])
    BY <1>4, AlwaysReturns
  <2>2. QED
    BY <2>1
<1>6. Falls(ast, n) <=> \A i \in 1 .. l : Falls(ast, stmts[i])
  BY <1>1, <1>2, <1>3, FallsThrough DEF Falls
<1>7. Generated(stmts) = IF returning = {} THEN stmts ELSE SubSeq(stmts, 1, Min(returning))
  BY DEF Generated
<1>8. CASE returning = {}
  <2>1. \A i \in 1 .. l : Falls(ast, stmts[i])
    BY <1>3, <1>5, <1>8
  <2>2. Generated(stmts) = stmts
    BY <1>7, <1>8
  <2>3. l \in 0 .. l /\ (l # 0 => l \in 1 .. l) /\ \A i \in 1 .. l - 1 : i \in 1 .. l
    BY <1>3
  <2> HIDE DEF returning
  <2>4. QED
    BY <1>3, <1>6, <2>1, <2>2, <2>3 DEF GeneratedWell
<1>9. CASE returning # {}
  <2> PICK m : m = Min(returning)
    OBVIOUS
  <2>1. m \in returning /\ \A k \in returning : m <= k
    <3>1. returning \in SUBSET Nat
      BY <1>3
    <3> HIDE DEF returning
    <3>2. QED
      BY <1>9, <3>1, MinLeast
  <2>2. m \in 1 .. l /\ m \in Nat /\ ~ Falls(ast, stmts[m])
    BY <1>3, <1>5, <2>1
  <2>3. \A i \in 1 .. m - 1 : Falls(ast, stmts[i])
    <3> TAKE i \in 1 .. m - 1
    <3>1. i \in 1 .. l /\ ~ m <= i
      BY <1>3, <2>2
    <3>2. i \notin returning
      BY <2>1, <3>1
    <3>3. QED
      BY <1>3, <1>5, <3>1, <3>2
  <2> HIDE DEF returning
  <2> PICK g : g = Generated(stmts)
    OBVIOUS
  <2>4. g = SubSeq(stmts, 1, m)
    BY <1>7, <1>9
  <2>5. g \in Seq(DOMAIN ast) /\ Len(g) = m /\ \A i \in 1 .. m : g[i] = stmts[i]
    <3>1. \A i \in 1 .. m : stmts[i] \in DOMAIN ast
      BY <1>3, <2>2
    <3>2. g = [i \in 1 .. m |-> stmts[i]]
      <4>1. g = [i \in 1 .. (1 + m) - 1 |-> stmts[(i + 1) - 1]]
        BY <2>2, <2>4
      <4>2. (1 + m) - 1 = m /\ \A i \in 1 .. m : (i + 1) - 1 = i
        BY <2>2
      <4>3. QED
        BY <4>1, <4>2
    <3>3. QED
      BY <2>2, <3>1, <3>2
  <2>6. IsSequence(g)
    BY <2>5, SequenceOf
  <2>7. m \in 0 .. l /\ m # 0
    BY <1>3, <2>2
  <2>8. ~ Falls(ast, n)
    BY <1>6, <2>2
  <2>9. QED
    BY <2>2, <2>3, <2>5, <2>6, <2>7, <2>8 DEF GeneratedWell
<1>10. QED
  BY <1>8, <1>9

LEMMA CompoundVisited ==
  ASSUME IInv, VisitCompound
  PROVE  IInv'
<1>n. PICK n : n = Top.node
  OBVIOUS
<1>f. PICK f : f = EnclosingFunction(ast, n)
  OBVIOUS
<1>decls. PICK decls : decls = LocalDecls(ast, n)
  OBVIOUS
<1>stmts. PICK stmts : stmts = Statements(ast, n)
  OBVIOUS
<1>gen. PICK gen : gen = Generated(stmts)
  OBVIOUS
<1>ns. PICK ns : ns = decls \o gen
  OBVIOUS
<1>tasks. PICK tasks : tasks = VisitAll(ns)
  OBVIOUS
<1>kinds. PICK kinds : kinds = {"Compound"}
  OBVIOUS
<1>op. PICK op : op = "visit"
  OBVIOUS
<1>d. PICK d : d = ast[n].locals
  OBVIOUS
<1>l. PICK l : l = Len(gen)
  OBVIOUS
<1>1. Doing(op, kinds) /\ Continue(tasks) /\ UNCHANGED << ast, fields, ir >>
  BY <1>n, <1>decls, <1>stmts, <1>gen, <1>ns, <1>tasks, <1>kinds, <1>op
     DEF VisitCompound, Visiting
<1>2. /\ kinds \cap {"Program", "Function", "Variable", "Array"} = {}
      /\ op \in {"visit", "finish"} /\ op \in {"visit", "finish", "branch"}
  BY <1>kinds, <1>op
<1>3. /\ IsProgram(ast) /\ IsTree(ast) /\ n \in DOMAIN ast /\ ast[n].kind = "Compound"
  <2>1. stack # << >> /\ ast[n].kind = "Compound"
    BY <1>1, <1>n, <1>kinds DEF Doing
  <2>2. QED
    BY <2>1, <1>n, TopParts
<1>4. f # nullptr
  BY <1>1, <1>2, <1>n, <1>f, TopInside
<1>5. /\ d \in Nat /\ d \in 0 .. Len(ast[n].kids) /\ Len(ast[n].kids) \in Nat
      /\ decls \in Seq(DOMAIN ast) /\ Len(decls) = d
      /\ \A i \in 1 .. d : /\ decls[i] = Kid(ast, n, i)
                           /\ ast[Kid(ast, n, i)].kind \in {"Variable", "Array"}
      /\ Len(stmts) = Len(ast[n].kids) - d
      /\ \A i \in 1 .. Len(ast[n].kids) - d :
           stmts[i] = Kid(ast, n, d + i) /\ d + i \in 1 .. Len(ast[n].kids)
  <2>1. IsTree(ast) /\ n \in DOMAIN ast /\ ast[n].kind = "Compound"
    BY <1>3
  <2>2. /\ ast[n].locals \in 0 .. Len(ast[n].kids) /\ Len(ast[n].kids) \in Nat
        /\ LocalDecls(ast, n) \in Seq(DOMAIN ast) /\ Len(LocalDecls(ast, n)) = ast[n].locals
        /\ \A i \in 1 .. ast[n].locals :
             /\ LocalDecls(ast, n)[i] = Kid(ast, n, i)
             /\ ast[Kid(ast, n, i)].kind \in {"Variable", "Array"}
        /\ Statements(ast, n) \in Seq(DOMAIN ast)
        /\ Len(Statements(ast, n)) = Len(ast[n].kids) - ast[n].locals
        /\ \A i \in 1 .. Len(ast[n].kids) - ast[n].locals :
             /\ Statements(ast, n)[i] = Kid(ast, n, ast[n].locals + i)
             /\ ast[n].locals + i \in 1 .. Len(ast[n].kids)
             /\ ast[Kid(ast, n, ast[n].locals + i)].kind \in StatementKinds
    BY <2>1, BlockParts
  <2>3. d \in 0 .. Len(ast[n].kids) /\ Len(ast[n].kids) \in Nat
    BY <1>d, <2>2
  <2>4. d \in Nat
    BY <2>3
  <2>5. QED
    BY <1>d, <1>decls, <1>stmts, <2>2, <2>3, <2>4
<1>6. /\ IsSequence(gen) /\ l \in 0 .. Len(stmts) /\ l \in Nat
      /\ \A i \in 1 .. l : gen[i] = stmts[i]
      /\ \A i \in 1 .. l - 1 : Falls(ast, stmts[i])
      /\ l # 0 => (Falls(ast, stmts[l]) <=> Falls(ast, n))
      /\ l = 0 => Falls(ast, n)
  <2>1. GeneratedWell(n, stmts)
    BY <1>3, <1>stmts, GeneratedParts
  <2>2. \A i : i \in 0 .. Len(stmts) => i \in Nat
    OBVIOUS
  <2>3. QED
    BY <2>1, <2>2, <1>gen, <1>l, <1>stmts DEF GeneratedWell
<1>7. /\ IsSequence(ns) /\ Len(ns) = d + l
      /\ \A i \in 1 .. d : ns[i] = decls[i]
      /\ \A i \in 1 .. l : ns[d + i] = gen[i]
      /\ \A i \in 1 .. Len(ns) :
           \/ i \in 1 .. d /\ ns[i] = decls[i]
           \/ i - d \in 1 .. l /\ ns[i] = gen[i - d]
  <2>1. IsSequence(decls)
    BY <1>5, SequenceOf
  <2>2. /\ IsSequence(ns) /\ Len(ns) = Len(decls) + Len(gen)
        /\ \A i \in 1 .. Len(decls) : ns[i] = decls[i]
        /\ \A i \in 1 .. Len(gen) : ns[Len(decls) + i] = gen[i]
        /\ \A i \in 1 .. Len(ns) :
             \/ i \in 1 .. Len(decls) /\ ns[i] = decls[i]
             \/ i - Len(decls) \in 1 .. Len(gen) /\ ns[i] = gen[i - Len(decls)]
    BY <1>6, <1>ns, <2>1, Joined
  <2>3. QED
    BY <1>5, <1>l, <2>2
<1>8. /\ IsSequence(tasks) /\ Len(tasks) = d + l
      /\ \A i \in 1 .. d + l : tasks[i] = Visit(ns[i])
  BY <1>7, <1>tasks, VisitAllParts
<1>9. ASSUME NEW i \in 1 .. d
      PROVE  Straight(ast, f, Visit(ns[i])) /\ Visit(ns[i]).node = ns[i] /\ Goes(ast, ns[i])
  <2>1. ns[i] = Kid(ast, n, i) /\ ast[Kid(ast, n, i)].kind \in {"Variable", "Array"}
    BY <1>5, <1>7
  <2>2. i \in 1 .. Len(ast[n].kids)
    BY <1>5
  <2>3. Straight(ast, f, Visit(Kid(ast, n, i))) /\ Visit(Kid(ast, n, i)).node = Kid(ast, n, i)
    BY <1>3, <1>4, <1>f, <2>2, StraightKid
  <2>4. Goes(ast, Kid(ast, n, i))
    BY <2>1 DEF Goes, StatementKinds
  <2>5. QED
    BY <2>1, <2>3, <2>4
<1>10. ASSUME NEW i \in 1 .. l
       PROVE  /\ Straight(ast, f, Visit(ns[d + i])) /\ Visit(ns[d + i]).node = ns[d + i]
              /\ ns[d + i] = stmts[i] /\ ns[d + i] \in NodesOf(ast, StatementKinds)
  <2>1. i \in 1 .. Len(ast[n].kids) - d /\ i \in 1 .. Len(stmts)
    BY <1>5, <1>6
  <2>2. ns[d + i] = stmts[i] /\ stmts[i] = Kid(ast, n, d + i) /\ d + i \in 1 .. Len(ast[n].kids)
    BY <1>5, <1>6, <1>7, <2>1
  <2> PICK j \in 1 .. Len(ast[n].kids) : j = d + i
    BY <2>2
  <2>3. Straight(ast, f, Visit(Kid(ast, n, j))) /\ Visit(Kid(ast, n, j)).node = Kid(ast, n, j)
    BY <1>3, <1>4, <1>f, StraightKid
  <2>4. stmts[i] \in NodesOf(ast, StatementKinds)
    <3>1. n \in NodesOf(ast, StatementKinds)
      BY <1>3 DEF NodesOf, StatementKinds
    <3>2. stmts \in Seq(DOMAIN ast)
      BY <1>3, <1>stmts, BlockParts
    <3>3. i \in DOMAIN stmts
      BY <2>1, <3>2
    <3>4. QED
      BY <1>3, <1>stmts, <3>1, <3>3, StatementsInside
  <2>5. QED
    BY <2>2, <2>3, <2>4
<1>11. \A i \in 1 .. l : Goes(ast, ns[d + i]) <=> Falls(ast, stmts[i])
  BY <1>10 DEF Goes, NodesOf
<1>12. \A i \in 1 .. d + l : Straight(ast, f, tasks[i]) /\ tasks[i].node = ns[i]
  <2> TAKE i \in 1 .. d + l
  <2>1. tasks[i] = Visit(ns[i])
    BY <1>8
  <2>2. CASE i \in 1 .. d
    BY <1>9, <2>1, <2>2
  <2>3. CASE i \notin 1 .. d
    <3>1. PICK j \in 1 .. l : d + j = i
      BY <1>5, <1>6, <2>3, PlacesSplit
    <3>2. QED
      BY <1>10, <2>1, <3>1
  <2>4. QED
    BY <2>2, <2>3
<1>13. \A i \in 1 .. (d + l) - 1 : Goes(ast, ns[i])
  <2> TAKE i \in 1 .. (d + l) - 1
  <2>1. CASE i \in 1 .. d
    BY <1>9, <2>1
  <2>2. CASE i \notin 1 .. d
    <3>1. PICK j \in 1 .. l - 1 : j \in 1 .. l /\ d + j = i
      <4>1. d \in Nat /\ l \in Nat
        BY <1>5, <1>6
      <4>2. \A p \in 1 .. (d + l) - 1 :
              p \in 1 .. d \/ \E j \in 1 .. l - 1 : j \in 1 .. l /\ d + j = p
        BY <4>1, PlacesSplit
      <4>3. QED
        BY <2>2, <4>2
    <3>2. QED
      BY <1>6, <1>11, <3>1
  <2>3. QED
    BY <2>1, <2>2
<1>14. Goes(ast, n) <=> Falls(ast, n)
  BY <1>3 DEF Goes, StatementKinds
<1>15. d + l # 0 => (Goes(ast, ns[d + l]) <=> Goes(ast, n))
  <2>1. CASE l = 0
    <3>1. d + l # 0 => d + l \in 1 .. d
      BY <1>5, <2>1
    <3>2. QED
      BY <1>6, <1>9, <1>14, <2>1, <3>1
  <2>2. CASE l # 0
    <3>1. l \in 1 .. l
      BY <1>6, <2>2
    <3>2. QED
      BY <1>6, <1>11, <1>14, <2>2, <3>1
  <2>3. QED
    BY <2>1, <2>2
<1>16. d + l = 0 => Goes(ast, n)
  <2>1. d + l = 0 => l = 0
    BY <1>5, <1>6
  <2>2. QED
    BY <1>6, <1>14, <2>1
<1>17. d + l # 0 => d + l \in 1 .. d + l
  BY <1>5, <1>6, PlacesSplit
<1>18. \A i \in 1 .. (d + l) - 1 : i \in 1 .. d + l
  BY <1>5, <1>6, PlacesSplit
<1>19. d + l # 0 => Goes(ast, ns[d + l]) = Goes(ast, n)
  BY <1>15, Zenon DEF Goes
<1>20. /\ \A i \in 1 .. Len(tasks) : Straight(ast, EnclosingFunction(ast, Top.node), tasks[i])
       /\ \A i \in 1 .. Len(tasks) - 1 : Goes(ast, tasks[i].node)
       /\ Len(tasks) # 0 => Goes(ast, tasks[Len(tasks)].node) = Goes(ast, Top.node)
       /\ Len(tasks) = 0 => Goes(ast, Top.node)
  <2> PICK k : k = d + l
    OBVIOUS
  <2>1. /\ \A i \in 1 .. k : Straight(ast, f, tasks[i]) /\ tasks[i].node = ns[i]
        /\ \A i \in 1 .. k - 1 : i \in 1 .. k /\ Goes(ast, ns[i])
        /\ k = 0 => Goes(ast, n)
        /\ k # 0 => k \in 1 .. k /\ Goes(ast, ns[k]) = Goes(ast, n)
        /\ Len(tasks) = k
    BY <1>8, <1>12, <1>13, <1>16, <1>17, <1>18, <1>19
  <2>2. QED
    BY <1>n, <1>f, <2>1
<1>21. QED
  BY <1>1, <1>2, <1>8, <1>20, OnwardKeeps

(***************************************************************************)
(* Those that write instructions at the end of the block.                  *)
(***************************************************************************)
LEMMA EndKeeps ==
  ASSUME IInv, NEW op, NEW kinds, Doing(op, kinds), op \in {"visit", "finish"},
         kinds \cap {"Program", "Function", "Variable", "Array"} = {},
         Continue(<< >>), UNCHANGED << ast, fields, insertBlock >>,
         NEW is, Emit(is), GoodCode(ast, is), TargetsOf(is) = {},
         DOMAIN ir_value' \subseteq DOMAIN ir_value \cup BuiltinDecls \cup DOMAIN ast,
         Goes(ast, Top.node) = Unended(is)
  PROVE  IInv'
<1> PICK tasks : tasks = << >>
  OBVIOUS
<1>1. stack # << >> /\ Top.node \in DOMAIN ast
  BY TopParts DEF Doing
<1>2. EnclosingFunction(ast, Top.node) # nullptr /\ Top = [op |-> op, node |-> Top.node]
  BY TopInside
<1>3. Straight(ast, EnclosingFunction(ast, Top.node), Top)
  BY <1>1, <1>2 DEF Straight, Visit, Finish
<1>4. IsSequence(tasks) /\ Len(tasks) = 0 /\ \A i : i \notin 1 .. 0
  BY ShortSequences
<1>5. \A i \in 1 .. 0 - 1 : FALSE
  OBVIOUS
<1>6. blocks' = Written(blocks, insertBlock, is)
  BY DEF Emit
<1>7. LineStep(tasks, is)
  BY <1>1, <1>2, <1>3, <1>4, <1>5, <1>6 DEF LineStep
<1>8. QED
  BY <1>7, LineKeeps

\* No instruction, or one that goes on to the next.
Quiet(t, is) ==
  \/ is = << >>
  \/ \E i : is = << i >> /\ i.at \in DOMAIN t /\ i.op \notin Terminators /\ i.targets = << >>

LEMMA QuietCode ==
  ASSUME NEW t, NEW is, Quiet(t, is)
  PROVE  GoodCode(t, is) /\ TargetsOf(is) = {} /\ Unended(is)
<1>1. CASE is = << >>
  BY <1>1, NoInstruction
<1>2. ASSUME NEW i, is = << i >>, i.at \in DOMAIN t, i.op \notin Terminators, i.targets = << >>
      PROVE  GoodCode(t, is) /\ TargetsOf(is) = {} /\ Unended(is)
  <2>1. i.op # "ret"
    BY <1>2 DEF Terminators
  <2>2. Range(i.targets) = {}
    BY <1>2 DEF Range
  <2>3. QED
    BY <1>2, <2>1, <2>2, OneInstruction
<1>3. QED
  BY <1>1, <1>2 DEF Quiet

LEMMA AssignedDomain ==
  ASSUME NEW field, NEW n, NEW v
  PROVE  DOMAIN Assigned(field, n, v) = {n} \cup DOMAIN field
BY DEF Assigned

\* The visit of an expression ends.
LEMMA ValueKeeps ==
  ASSUME IInv, NEW op, NEW kinds, Doing(op, kinds), op \in {"visit", "finish"},
         kinds \subseteq ExpressionKinds,
         NEW is, Quiet(ast, is), NEW value, Generates(Top.node, is, value)
  PROVE  IInv'
<1>1. stack # << >> /\ Top.node \in DOMAIN ast /\ ast[Top.node].kind \in kinds
  BY TopParts DEF Doing
<1>2. kinds \cap {"Program", "Function", "Variable", "Array"} = {}
  BY DEF ExpressionKinds, LiteralKinds
<1>3. ast[Top.node].kind \notin StatementKinds
  BY <1>1 DEF ExpressionKinds, LiteralKinds, StatementKinds
<1>4. GoodCode(ast, is) /\ TargetsOf(is) = {} /\ Unended(is)
  BY QuietCode
<1>5. Goes(ast, Top.node) = Unended(is)
  BY <1>3, <1>4, Zenon DEF Goes, Unended
<1>6. /\ Continue(<< >>) /\ UNCHANGED << ast, fields, insertBlock >> /\ Emit(is)
      /\ ir_value' = Assigned(ir_value, Top.node, value)
  BY DEF Generates, SetValue
<1>7. DOMAIN ir_value' \subseteq DOMAIN ir_value \cup BuiltinDecls \cup DOMAIN ast
  <2>1. DOMAIN Assigned(ir_value, Top.node, value) = {Top.node} \cup DOMAIN ir_value
    BY AssignedDomain
  <2>2. QED
    BY <1>1, <1>6, <2>1
<1>8. QED
  BY <1>2, <1>4, <1>5, <1>6, <1>7, EndKeeps

LEMMA LiteralVisited ==
  ASSUME IInv, VisitLiteral
  PROVE  IInv'
<1> PICK op : op = "visit"
  OBVIOUS
<1> PICK kinds : kinds = {"IntLiteral", "FloatLiteral", "BoolLiteral"}
  OBVIOUS
<1> PICK is : is = << >>
  OBVIOUS
<1> PICK value : value = Value("constant", Top.node, {})
  OBVIOUS
<1>1. Doing(op, kinds) /\ Generates(Top.node, is, value)
  BY DEF VisitLiteral, Visiting
<1>2. kinds \subseteq ExpressionKinds
  BY DEF ExpressionKinds, LiteralKinds
<1>3. Quiet(ast, is)
  BY DEF Quiet
<1>4. QED
  BY <1>1, <1>2, <1>3, ValueKeeps

\* One instruction at the node on top.
LEMMA QuietOne ==
  ASSUME NEW t, NEW n \in DOMAIN t, NEW op, op \in {"load", "store", "call", "alloca"}, NEW args
  PROVE  Quiet(t, << Instruction(op, n, args, << >>) >>)
<1> PICK i : i = Instruction(op, n, args, << >>)
  OBVIOUS
<1>1. i.at = n /\ i.op = op /\ i.targets = << >>
  BY DEF Instruction
<1>2. i.op \notin Terminators
  BY <1>1 DEF Terminators
<1>3. QED
  BY <1>1, <1>2 DEF Quiet

\* The end of the visit of an expression: no instruction, or the given one.
ValueStep(op, kinds, i) ==
  /\ Doing(op, kinds)
  /\ \/ \E value : Generates(Top.node, << >>, value)
     \/ \E value : Generates(Top.node, << i >>, value)

LEMMA ValueStepKeeps ==
  ASSUME IInv, NEW op, NEW kinds, NEW i, ValueStep(op, kinds, i), op \in {"visit", "finish"},
         kinds \subseteq ExpressionKinds, Quiet(ast, << i >>)
  PROVE  IInv'
<1>1. Quiet(ast, << >>) /\ Doing(op, kinds)
  BY DEF Quiet, ValueStep
<1>2. ASSUME NEW is, Quiet(ast, is), NEW value, Generates(Top.node, is, value)
      PROVE  IInv'
  BY <1>1, <1>2, ValueKeeps
<1>3. CASE \E value : Generates(Top.node, << >>, value)
  <2> PICK is : is = << >>
    OBVIOUS
  <2>1. PICK value : Generates(Top.node, is, value)
    BY <1>3
  <2>2. QED
    BY <1>1, <1>2, <2>1
<1>4. CASE \E value : Generates(Top.node, << i >>, value)
  <2> PICK is : is = << i >>
    OBVIOUS
  <2>1. PICK value : Generates(Top.node, is, value)
    BY <1>4
  <2>2. QED
    BY <1>2, <2>1
<1>5. QED
  BY <1>3, <1>4 DEF ValueStep

LEMMA AssignmentFinished ==
  ASSUME IInv, FinishAssignment
  PROVE  IInv'
<1>1. PICK i : i = Store(Top.node, ValueOf(Kid(ast, Top.node, 2)), ValueOf(Kid(ast, Top.node, 1)))
  OBVIOUS
<1>2. ValueStep("finish", {"Assignment"}, i)
  BY <1>1, Zenon DEF FinishAssignment, ValueStep
<1>3. stack # << >> /\ Top.node \in DOMAIN ast
  BY <1>2, TopParts DEF ValueStep, Doing
<1>4. Quiet(ast, << i >>)
  BY <1>1, <1>3, QuietOne DEF Store
<1>5. {"Assignment"} \subseteq ExpressionKinds /\ "finish" \in {"visit", "finish"}
  BY DEF ExpressionKinds
<1>6. QED
  BY <1>2, <1>4, <1>5, ValueStepKeeps

LEMMA VariableExprVisited ==
  ASSUME IInv, VisitVariableExpr
  PROVE  IInv'
<1>1. PICK i : i = Load(Top.node, ValueOf(referent[Top.node]))
  OBVIOUS
<1>2. ValueStep("visit", {"VariableExpr"}, i)
  BY <1>1, Zenon DEF VisitVariableExpr, Visiting, ValueStep
<1>3. stack # << >> /\ Top.node \in DOMAIN ast
  BY <1>2, TopParts DEF ValueStep, Doing
<1>4. Quiet(ast, << i >>)
  BY <1>1, <1>3, QuietOne DEF Load
<1>5. {"VariableExpr"} \subseteq ExpressionKinds /\ "visit" \in {"visit", "finish"}
  BY DEF ExpressionKinds
<1>6. QED
  BY <1>2, <1>4, <1>5, ValueStepKeeps

LEMMA SubscriptFinished ==
  ASSUME IInv, FinishSubscript
  PROVE  IInv'
<1>1. PICK i : i = Load(Top.node, ValueOf(referent[Top.node]))
  OBVIOUS
<1>2. ValueStep("finish", {"Subscript"}, i)
  BY <1>1, Zenon DEF FinishSubscript, ValueStep
<1>3. stack # << >> /\ Top.node \in DOMAIN ast
  BY <1>2, TopParts DEF ValueStep, Doing
<1>4. Quiet(ast, << i >>)
  BY <1>1, <1>3, QuietOne DEF Load
<1>5. {"Subscript"} \subseteq ExpressionKinds /\ "finish" \in {"visit", "finish"}
  BY DEF ExpressionKinds
<1>6. QED
  BY <1>2, <1>4, <1>5, ValueStepKeeps

LEMMA ImplicitCastFinished ==
  ASSUME IInv, FinishImplicitCast
  PROVE  IInv'
<1>1. PICK i : i = Load(Top.node, ValueOf(Kid(ast, Top.node, 1)))
  OBVIOUS
<1>2. ValueStep("finish", {"ImplicitCast"}, i)
  BY <1>1, Zenon DEF FinishImplicitCast, ValueStep
<1>3. stack # << >> /\ Top.node \in DOMAIN ast
  BY <1>2, TopParts DEF ValueStep, Doing
<1>4. Quiet(ast, << i >>)
  BY <1>1, <1>3, QuietOne DEF Load
<1>5. {"ImplicitCast"} \subseteq ExpressionKinds /\ "finish" \in {"visit", "finish"}
  BY DEF ExpressionKinds
<1>6. QED
  BY <1>2, <1>4, <1>5, ValueStepKeeps

LEMMA CallFinished ==
  ASSUME IInv, FinishCall
  PROVE  IInv'
<1>1. PICK i : i = CallOf(Top.node,
                           << ValueOf(referent[Top.node]) >> \o ValuesOf(Kids(ast, Top.node)))
  OBVIOUS
<1>2. ValueStep("finish", {"Call"}, i)
  BY <1>1, Zenon DEF FinishCall, ValueStep
<1>3. stack # << >> /\ Top.node \in DOMAIN ast
  BY <1>2, TopParts DEF ValueStep, Doing
<1>4. Quiet(ast, << i >>)
  BY <1>1, <1>3, QuietOne DEF CallOf
<1>5. {"Call"} \subseteq ExpressionKinds /\ "finish" \in {"visit", "finish"}
  BY DEF ExpressionKinds
<1>6. QED
  BY <1>2, <1>4, <1>5, ValueStepKeeps

LEMMA OperationFinished ==
  ASSUME IInv, FinishOperation
  PROVE  IInv'
<1> PICK op : op = "finish"
  OBVIOUS
<1> PICK kinds : kinds = {"Additive", "Multiplicative", "Relational"}
  OBVIOUS
<1> PICK is : is = << >>
  OBVIOUS
<1>1. PICK value : value = Computed(ast[Top.node].operation, Top.node,
                                    ValuesOf(Kids(ast, Top.node)))
  OBVIOUS
<1>2. Doing(op, kinds) /\ Generates(Top.node, is, value)
  BY <1>1, Zenon DEF FinishOperation
<1>3. kinds \subseteq ExpressionKinds
  BY DEF ExpressionKinds
<1>4. Quiet(ast, is)
  BY DEF Quiet
<1>5. QED
  BY <1>2, <1>3, <1>4, ValueKeeps

LEMMA ReturnFinished ==
  ASSUME IInv, FinishReturn
  PROVE  IInv'
<1> PICK op : op = "finish"
  OBVIOUS
<1> PICK kinds : kinds = {"Return"}
  OBVIOUS
<1>1. PICK is : is = IF ast[Top.node].kids = << >> THEN << RetVoid(Top.node) >>
                     ELSE << Ret(Top.node, ValueOf(Kid(ast, Top.node, 1))) >>
  OBVIOUS
<1>2. /\ Doing(op, kinds) /\ Emit(is) /\ Continue(<< >>)
      /\ UNCHANGED << ast, fields, insertBlock >> /\ ir_value' = ir_value
  BY <1>1, Zenon DEF FinishReturn
<1>3. stack # << >> /\ Top.node \in DOMAIN ast /\ ast[Top.node].kind = "Return" /\ IsTree(ast)
  BY <1>2, TopParts DEF Doing
<1>4. Top.node \in NodesOf(ast, StatementKinds) /\ Top.node \notin FunctionsOf(ast)
  BY <1>3 DEF NodesOf, StatementKinds, FunctionsOf
<1>5. ~ Goes(ast, Top.node)
  BY <1>3, <1>4, FallsThrough DEF Goes, Falls, StatementKinds
<1>6. PICK i : is = << i >> /\ i.op = "ret" /\ i.at = Top.node /\ i.targets = << >>
  BY <1>1 DEF RetVoid, Ret, Instruction
<1>7. GoodCode(ast, is) /\ TargetsOf(is) = {} /\ ~ Unended(is)
  <2>1. Range(i.targets) = {}
    BY <1>6 DEF Range
  <2>2. /\ GoodCode(ast, << i >>) /\ TargetsOf(<< i >>) = Range(i.targets)
        /\ Unended(<< i >>) <=> i.op \notin Terminators
    BY <1>3, <1>4, <1>6, OneInstruction
  <2>3. QED
    BY <1>6, <2>1, <2>2 DEF Terminators
<1>8. Goes(ast, Top.node) = Unended(is)
  BY <1>5, <1>7, Zenon DEF Goes, Unended
<1>9. kinds \cap {"Program", "Function", "Variable", "Array"} = {}
  OBVIOUS
<1>10. QED
  BY <1>2, <1>7, <1>8, <1>9, EndKeeps

(***************************************************************************)
(* Declarations.                                                           *)
(***************************************************************************)
\* The scope of a global has no depth; what is generated for a declaration is
\* an instruction only inside a function.
LEMMA VariableVisited ==
  ASSUME IInv, VisitVariable
  PROVE  IInv'
<1> PICK tasks : tasks = << >>
  OBVIOUS
<1>n. PICK n : n = Top.node
  OBVIOUS
<1>1. /\ Doing("visit", {"Variable", "Array"})
      /\ \/ nest_level[n] = 0 /\ Generates(n, << >>, Value("global", n, {}))
         \/ nest_level[n] # 0 /\ Generates(n, << Alloca(n) >>, Result(Alloca(n)))
  BY <1>n, Zenon DEF VisitVariable, Visiting
<1>2. /\ stack # << >> /\ Top.op = "visit" /\ n \in DOMAIN ast
      /\ ast[n].kind \in {"Variable", "Array"}
      /\ IsProgram(ast) /\ IsTree(ast) /\ Top \in Work(ast) /\ Here = Begins(ast)[Top]
  BY <1>1, <1>n, TopParts DEF Doing
<1>3. Top \in PlainTasks(ast) /\ Top = Visit(n)
  <2>1. Top \in PlainTasks(ast)
    BY <1>2 DEF Work, IfFrames, WhileFrames
  <2>2. Top = [op |-> Top.op, node |-> Top.node]
    BY <2>1 DEF PlainTasks
  <2>3. QED
    BY <1>2, <1>n, <2>1, <2>2 DEF Visit
<1>4. PICK is : /\ \E value : Generates(n, is, value)
                /\ Quiet(ast, is)
                /\ nest_level[n] = 0 => is = << >>
  <2>1. Quiet(ast, << >>)
    BY DEF Quiet
  <2>2. Quiet(ast, << Alloca(n) >>)
    BY <1>2, QuietOne DEF Alloca
  <2>3. CASE nest_level[n] = 0 /\ Generates(n, << >>, Value("global", n, {}))
    BY <2>1, <2>3
  <2>4. CASE nest_level[n] # 0 /\ Generates(n, << Alloca(n) >>, Result(Alloca(n)))
    BY <2>2, <2>4
  <2>5. QED
    BY <1>1, <2>3, <2>4
<1>5. GoodCode(ast, is) /\ TargetsOf(is) = {} /\ Unended(is)
  BY <1>4, QuietCode
<1>6. /\ Continue(tasks) /\ UNCHANGED << ast, fields, insertBlock >>
      /\ blocks' = Written(blocks, insertBlock, is)
      /\ DOMAIN ir_value' \subseteq DOMAIN ir_value \cup BuiltinDecls \cup DOMAIN ast
  <2>1. PICK value : Generates(n, is, value)
    BY <1>4
  <2>2. DOMAIN Assigned(ir_value, n, value) = {n} \cup DOMAIN ir_value
    BY AssignedDomain
  <2>3. QED
    BY <1>2, <2>1, <2>2 DEF Generates, SetValue, Emit
<1>7. IsSequence(tasks) /\ Len(tasks) = 0 /\ (\A i : i \notin 1 .. 0) /\ \A i : i \notin 1 .. 0 - 1
  BY ShortSequences
<1>8. Goes(ast, n) = Unended(is)
  <2>1. Goes(ast, n)
    BY <1>2 DEF Goes, StatementKinds
  <2>2. QED
    BY <1>5, <2>1, Zenon DEF Goes, Unended
<1>9. CASE EnclosingFunction(ast, n) # nullptr
  <2>1. Straight(ast, EnclosingFunction(ast, n), Top)
    BY <1>2, <1>3, <1>n DEF Straight
  <2>2. LineStep(tasks, is)
    BY <1>2, <1>5, <1>6, <1>7, <1>8, <1>9, <1>n, <2>1 DEF LineStep
  <2>3. QED
    BY <2>2, LineKeeps
<1>10. CASE EnclosingFunction(ast, n) = nullptr
  <2>1. PICK i \in 1 .. Len(ast[1].kids) : n = Kid(ast, 1, i)
    <3>1. ast[1].kind = "Program"
      BY <1>2 DEF IsProgram
    <3>2. QED
      BY <1>2, <1>3, <1>10, <3>1 DEF PlainTasks, IsTopLevel, Visit
  <2>2. nest_level[n] = 0
    <3>1. nest_level = [d \in DeclsOf(ast) |-> Depth(ast, d)] /\ n \in DeclsOf(ast)
      BY <1>2 DEF IInv, Passed, DeclsOf, DeclKinds
    <3>2. Depth(ast, n) = 0
      BY <1>2, <2>1, TopLevelDepth
    <3>3. QED
      BY <3>1, <3>2
  <2>3. is = << >>
    BY <1>4, <2>2
  <2>4. Begins(ast)[Top] = Context(FALSE, nullptr) /\ Leaves(ast)[Top] = Context(FALSE, nullptr)
    <3>1. Begins(ast)[Top] = Context(EnclosingFunction(ast, n) # nullptr, EnclosingFunction(ast, n))
      BY <1>2, <1>n DEF Begins
    <3>2. Leaves(ast)[Top] = Context(Completes(ast, n), EnclosingFunction(ast, n))
      BY <1>2, <1>n DEF Leaves
    <3>3. Completes(ast, n) = FALSE /\ (EnclosingFunction(ast, n) # nullptr) = FALSE
      BY <1>10 DEF Completes
    <3>4. QED
      BY <1>10, <3>1, <3>2, <3>3
  <2>5. NextHere(tasks) = Context(FALSE, nullptr) /\ Here = Context(FALSE, nullptr)
    BY <1>2, <2>4 DEF NextHere
  <2>6. /\ NextHere(tasks).in = nullptr /\ Here.in = nullptr
        /\ NextHere(tasks).open = FALSE /\ Here.open = FALSE
    BY <2>5 DEF Context
  <2>7. Leads(tasks, Begins(ast), Leaves(ast), NextHere(tasks))
    BY <1>7, <2>4, <2>5 DEF Leads
  <2>8. PlainStep(tasks, is)
    BY <1>2, <1>5, <1>6, <1>7, <2>3, <2>6, <2>7 DEF PlainStep
  <2>9. QED
    BY <2>8, PlainKeeps
<1>11. QED
  BY <1>9, <1>10

\* A return is added where control falls out of the body: the program does
\* not contain it, so the function is void.
LEMMA FunctionFinished ==
  ASSUME IInv, FinishFunction
  PROVE  IInv'
<1> PICK tasks : tasks = << >>
  OBVIOUS
<1>f. PICK f : f = Top.node
  OBVIOUS
<1>is. PICK is : is = IF always_returns[Body(ast, f)] THEN << >> ELSE << RetVoid(f) >>
  OBVIOUS
<1>1. /\ Doing("finish", {"Function"})
      /\ Emit(is) /\ Continue(tasks)
      /\ UNCHANGED << ast, fields, ir_value, insertBlock >>
  BY <1>f, <1>is, Zenon DEF FinishFunction
<1>2. /\ stack # << >> /\ Top.op = "finish" /\ f \in DOMAIN ast /\ ast[f].kind = "Function"
      /\ IsProgram(ast) /\ IsTree(ast) /\ Top \in Work(ast) /\ Here = Begins(ast)[Top]
  BY <1>1, <1>f, TopParts DEF Doing
<1>3. f \in FunctionsOf(ast) /\ f \in DeclsOf(ast)
  BY <1>2 DEF FunctionsOf, NodesOf, DeclsOf, DeclKinds
<1>4. PICK falls : falls = Falls(ast, Body(ast, f))
  OBVIOUS
<1>5. always_returns[Body(ast, f)] = ~ falls
  <2>1. Body(ast, f) \in NodesOf(ast, StatementKinds)
    BY <1>2, <1>3, BodyShape DEF NodesOf, StatementKinds
  <2>2. QED
    BY <1>4, <2>1, AlwaysReturns
<1>6. falls => ast[f].type = Void
  <2>1. WellTyped(ast, referent)
    BY DEF IInv, Passed
  <2>2. WellDeclared(ast, f)
    BY <1>3, <2>1 DEF WellTyped
  <2>3. QED
    BY <1>2, <1>4, <2>2 DEF WellDeclared, Falls
<1>7. GoodCode(ast, is) /\ TargetsOf(is) = {} /\ (Unended(is) <=> ~ falls) /\ (~ falls => is = << >>)
  <2>1. CASE falls
    <3>0. PICK i : i = RetVoid(f)
      OBVIOUS
    <3>1. is = << i >> /\ i.op = "ret" /\ i.at = f /\ i.targets = << >>
      BY <1>is, <1>5, <2>1, <3>0 DEF RetVoid, Instruction
    <3>2. Range(i.targets) = {}
      BY <3>1 DEF Range
    <3>3. /\ GoodCode(ast, << i >>) /\ TargetsOf(<< i >>) = Range(i.targets)
          /\ Unended(<< i >>) <=> i.op \notin Terminators
      BY <1>2, <1>6, <2>1, <3>1, OneInstruction
    <3>4. QED
      BY <2>1, <3>1, <3>2, <3>3 DEF Terminators
  <2>2. CASE ~ falls
    <3>1. is = << >>
      BY <1>is, <1>5, <2>2
    <3>2. GoodCode(ast, << >>) /\ TargetsOf(<< >>) = {} /\ Unended(<< >>)
      BY NoInstruction
    <3>3. QED
      BY <2>2, <3>1, <3>2
  <2>3. QED
    BY <2>1, <2>2
<1>8. Here = Context(falls, f) /\ Leaves(ast)[Top] = Context(FALSE, nullptr)
  <2>1. EnclosingFunction(ast, f) = nullptr
    BY <1>2, EnclosingTop
  <2>2. Begins(ast)[Top] = Context(Falls(ast, Body(ast, f)), f)
    BY <1>2, <1>f DEF Begins
  <2>3. Leaves(ast)[Top] = Context(Completes(ast, f), EnclosingFunction(ast, f))
    BY <1>2, <1>f DEF Leaves
  <2>4. Completes(ast, f) = FALSE
    BY <2>1 DEF Completes
  <2>5. QED
    BY <1>2, <1>4, <2>1, <2>2, <2>3, <2>4
<1>9. NextHere(tasks) = Context(FALSE, nullptr)
  BY <1>8 DEF NextHere
<1>10. /\ NextHere(tasks).in = nullptr /\ NextHere(tasks).open = FALSE /\ Here.open = falls
  BY <1>8, <1>9 DEF Context
<1>11. IsSequence(tasks) /\ Len(tasks) = 0 /\ (\A i : i \notin 1 .. 0) /\ \A i : i \notin 1 .. 0 - 1
  BY ShortSequences
<1>12. Leads(tasks, Begins(ast), Leaves(ast), NextHere(tasks))
  BY <1>8, <1>9, <1>11 DEF Leads
<1>13. PlainStep(tasks, is)
  BY <1>1, <1>2, <1>7, <1>10, <1>11, <1>12 DEF PlainStep, Emit
<1>14. QED
  BY <1>13, PlainKeeps

(***************************************************************************)
(* Control flow: a step that ends the block written to, if it is open, and *)
(* goes on in another one, which it places in the function.                *)
(***************************************************************************)
LEMMA InsertShape ==
  ASSUME NEW bs, BlockSequence(bs), NEW at, NEW is, NEW p, NEW f
  PROVE  Shape(bs, Inserted(Written(bs, at, is), p, f), at, is, {p}, f, 0)
<1>1. PICK w : w = Written(bs, at, is)
  OBVIOUS
<1>2. PICK v : v = Inserted(w, p, f)
  OBVIOUS
<1>3. /\ BlockSequence(w) /\ Len(w) = Len(bs)
      /\ \A b \in 1 .. Len(bs) : /\ w[b].function = bs[b].function
                                 /\ w[b].code = IF b = at THEN bs[b].code \o is ELSE bs[b].code
  BY <1>1, WrittenParts
<1>4. /\ BlockSequence(v) /\ Len(v) = Len(w)
      /\ \A b \in 1 .. Len(w) : /\ v[b].function = IF b = p THEN f ELSE w[b].function
                                /\ v[b].code = w[b].code
  BY <1>2, <1>3, InsertedParts
<1>5. Len(bs) \in Nat
  BY SequenceParts DEF BlockSequence
<1>6. Len(v) = Len(bs) + 0 /\ Len(bs) + 1 .. Len(v) = {}
  BY <1>3, <1>4, <1>5
<1>7. \A b : b \in {p} <=> b = p
  OBVIOUS
<1>8. Shape(bs, v, at, is, {p}, f, 0)
  BY <1>3, <1>4, <1>6, <1>7 DEF Shape
<1>9. QED
  BY <1>1, <1>2, <1>8

\* The first of the new blocks is in the function already.
LEMMA AddShape ==
  ASSUME NEW bs, BlockSequence(bs), NEW at, NEW is, NEW f, NEW new, BlockSequence(new),
         Len(new) # 0,
         \A b \in 1 .. Len(new) : /\ new[b].function = IF b = 1 THEN f ELSE nullptr
                                  /\ new[b].code = << >>
  PROVE  Shape(bs, Written(bs, at, is) \o new, at, is, {Len(bs) + 1}, f, Len(new))
<1>1. PICK w : w = Written(bs, at, is)
  OBVIOUS
<1>2. PICK v : v = w \o new
  OBVIOUS
<1>n. PICK n : n = Len(bs)
  OBVIOUS
<1>k. PICK k : k = Len(new)
  OBVIOUS
<1>3. /\ BlockSequence(w) /\ Len(w) = n
      /\ \A b \in 1 .. n : /\ w[b].function = bs[b].function
                           /\ w[b].code = IF b = at THEN bs[b].code \o is ELSE bs[b].code
  BY <1>1, <1>n, WrittenParts
<1>4. /\ BlockSequence(v) /\ Len(v) = Len(w) + k
      /\ Len(w) \in Nat /\ k \in Nat
      /\ \A b \in 1 .. Len(w) : v[b] = w[b]
      /\ \A b \in 1 .. k : v[Len(w) + b] = new[b]
  <2>1. /\ BlockSequence(w \o new) /\ Len(w \o new) = Len(w) + Len(new)
        /\ Len(w) \in Nat /\ Len(new) \in Nat
        /\ \A b \in 1 .. Len(w) : (w \o new)[b] = w[b]
        /\ \A b \in 1 .. Len(new) : (w \o new)[Len(w) + b] = new[b]
    <3>1. BlockSequence(w)
      BY <1>3
    <3>2. QED
      BY <3>1, AddedParts
  <2>2. QED
    BY <1>2, <1>k, <2>1
<1>5. n \in Nat /\ k \in Nat /\ k # 0 /\ Len(v) = n + k /\ n + 1 \notin 1 .. n
  BY <1>3, <1>4, <1>k
<1>6. \A b \in 1 .. n : b \notin {n + 1} /\ v[b] = w[b]
  BY <1>3, <1>4, <1>5
<1>7. ASSUME NEW b \in n + 1 .. n + k
      PROVE  /\ v[b].function = IF b \in {n + 1} THEN f ELSE nullptr
             /\ v[b].code = << >>
  <2>1. PICK c : c = b - n
    OBVIOUS
  <2>2. c \in 1 .. k /\ n + c = b /\ (c = 1 <=> b = n + 1)
    BY <1>5, <2>1
  <2>3. v[b] = new[c]
    <3>1. v[n + c] = new[c]
      BY <1>3, <1>4, <2>2
    <3>2. QED
      BY <2>2, <3>1
  <2>4. /\ new[c].function = IF c = 1 THEN f ELSE nullptr
        /\ new[c].code = << >>
    BY <1>k, <2>2
  <2>5. QED
    BY <2>2, <2>3, <2>4
<1>8. Shape(bs, v, at, is, {n + 1}, f, k)
  BY <1>3, <1>4, <1>5, <1>6, <1>7, <1>n DEF Shape
<1>9. QED
  BY <1>1, <1>2, <1>8, <1>n, <1>k

\* The visits that a step of control flow leaves: none, or that of a part and
\* a frame that keeps the blocks.
Handed(tasks, is, f, left, new) ==
  \/ /\ tasks = << >> /\ left = {}
     /\ Leaves(ast)[Top] = Context(TRUE, f)
  \/ \E m, last :
       /\ tasks = << Visit(m), last >>
       /\ Straight(ast, f, Visit(m)) /\ m \in DOMAIN ast
       /\ last \in Work(ast) /\ Owes(ast)[last] = {} /\ last.func = f
       /\ Begins(ast)[last] = Context(Goes(ast, m), f)
       /\ Leaves(ast)[last] = Leaves(ast)[Top]
       /\ Awaits(ast)[last] = left
       /\ ComesBack(ast)[last] \subseteq ComesBack(ast)[Top] \cup new
       /\ Branched(ast)[last] \subseteq (Branched(ast)[Top] \cap Awaits(ast)[Top]) \cup TargetsOf(is)

PlacingStep(tasks, is, p, fresh) ==
  LET new  == Len(blocks) + 1 .. Len(blocks) + fresh
      held == Awaits(ast)[Top] \cup new
      f    == Here.in
  IN  /\ stack # << >> /\ Continue(tasks) /\ UNCHANGED << ast, fields, ir_value >>
      /\ fresh \in Nat /\ f # nullptr
      /\ Shape(blocks, blocks', insertBlock, is, {p}, f, fresh)
      /\ insertBlock' = p
      /\ GoodCode(ast, is)
      /\ Here.open => Ended(is)
      /\ is # << >> \/ fresh # 0 => Here.open
      /\ TargetsOf(is) \subseteq held \cup ComesBack(ast)[Top]
      /\ p \in held
      /\ p \in (Branched(ast)[Top] \cap Awaits(ast)[Top]) \cup TargetsOf(is)
      /\ Handed(tasks, is, f, held \ {p}, new)

LEMMA StraightParts ==
  ASSUME NEW t, IsProgram(t), NEW f, f # nullptr, NEW k, Straight(t, f, k)
  PROVE  /\ Idle(t, k) /\ k \in Work(t)
         /\ Begins(t)[k] = Context(TRUE, f)
         /\ Leaves(t)[k] = Context(Goes(t, k.node), f)
<1>n. PICK n : n = k.node
  OBVIOUS
<1>1. /\ n \in DOMAIN t /\ EnclosingFunction(t, n) = f
      /\ \/ k \in {Visit(n), Finish(n)}
         \/ k = [op |-> "branch", node |-> n] /\ t[n].kind = "If"
  BY <1>n DEF Straight
<1>2. /\ Idle(t, k)
      /\ Begins(t)[k] = Context(TRUE, EnclosingFunction(t, n))
      /\ Leaves(t)[k] = Context(t[n].kind \in StatementKinds => Falls(t, n),
                                EnclosingFunction(t, n))
  BY <1>1, PlainTask
<1>3. QED
  BY <1>1, <1>2, <1>n DEF Goes, Idle

LEMMA PlacingKeeps ==
  ASSUME IInv, NEW tasks, NEW is, NEW p, NEW fresh, PlacingStep(tasks, is, p, fresh)
  PROVE  IInv'
<1>new. PICK new : new = Len(blocks) + 1 .. Len(blocks) + fresh
  OBVIOUS
<1>held. PICK held : held = Awaits(ast)[Top] \cup new
  OBVIOUS
<1>f. PICK f : f = Here.in
  OBVIOUS
<1>left. PICK left : left = held \ {p}
  OBVIOUS
<1>placed. PICK placed : placed = {p}
  OBVIOUS
<1>1. /\ stack # << >> /\ Continue(tasks) /\ UNCHANGED << ast, fields, ir_value >>
      /\ fresh \in Nat /\ f # nullptr
      /\ Shape(blocks, blocks', insertBlock, is, placed, f, fresh)
      /\ insertBlock' = p
      /\ GoodCode(ast, is)
      /\ Here.open => Ended(is)
      /\ is # << >> \/ fresh # 0 => Here.open
      /\ TargetsOf(is) \subseteq held \cup ComesBack(ast)[Top]
      /\ p \in held
      /\ p \in (Branched(ast)[Top] \cap Awaits(ast)[Top]) \cup TargetsOf(is)
      /\ Handed(tasks, is, f, left, new)
  BY <1>new, <1>held, <1>f, <1>left, <1>placed DEF PlacingStep
<1>2. IsProgram(ast) /\ Top \in Work(ast)
  BY <1>1, TopParts
<1>3. /\ tasks \in Seq(Work(ast))
      /\ \A i \in 1 .. Len(tasks) : Owes(ast)[tasks[i]] = {}
      /\ Leads(tasks, Begins(ast), Leaves(ast), NextHere(tasks))
      /\ NextHere(tasks) = Context(TRUE, f)
      /\ Keeping(ast, Top, tasks, left, new, TargetsOf(is), f)
  <2>1. CASE /\ tasks = << >> /\ left = {}
             /\ Leaves(ast)[Top] = Context(TRUE, f)
    <3>1. /\ tasks \in Seq(Work(ast)) /\ Len(tasks) = 0
          /\ (\A i : i \notin 1 .. 0) /\ \A i : i \notin 1 .. 0 - 1
      BY <2>1
    <3>2. NextHere(tasks) = Leaves(ast)[Top]
      BY <2>1 DEF NextHere
    <3>3. Leads(tasks, Begins(ast), Leaves(ast), NextHere(tasks))
      BY <2>1, <3>1, <3>2 DEF Leads
    <3>4. Keeping(ast, Top, tasks, left, new, TargetsOf(is), f)
      BY <2>1, <3>1 DEF Keeping
    <3>5. QED
      BY <2>1, <3>1, <3>2, <3>3, <3>4
  <2>2. CASE \E m, last :
               /\ tasks = << Visit(m), last >>
               /\ Straight(ast, f, Visit(m)) /\ m \in DOMAIN ast
               /\ last \in Work(ast) /\ Owes(ast)[last] = {} /\ last.func = f
               /\ Begins(ast)[last] = Context(Goes(ast, m), f)
               /\ Leaves(ast)[last] = Leaves(ast)[Top]
               /\ Awaits(ast)[last] = left
               /\ ComesBack(ast)[last] \subseteq ComesBack(ast)[Top] \cup new
               /\ Branched(ast)[last] \subseteq
                    (Branched(ast)[Top] \cap Awaits(ast)[Top]) \cup TargetsOf(is)
    <3>1. PICK m, last :
               /\ tasks = << Visit(m), last >>
               /\ Straight(ast, f, Visit(m)) /\ m \in DOMAIN ast
               /\ last \in Work(ast) /\ Owes(ast)[last] = {} /\ last.func = f
               /\ Begins(ast)[last] = Context(Goes(ast, m), f)
               /\ Leaves(ast)[last] = Leaves(ast)[Top]
               /\ Awaits(ast)[last] = left
               /\ ComesBack(ast)[last] \subseteq ComesBack(ast)[Top] \cup new
               /\ Branched(ast)[last] \subseteq
                    (Branched(ast)[Top] \cap Awaits(ast)[Top]) \cup TargetsOf(is)
      BY <2>2
    <3>k. PICK k : k = Visit(m)
      OBVIOUS
    <3>2. k.node = m
      BY <3>k DEF Visit
    <3>3. /\ Idle(ast, k) /\ k \in Work(ast)
          /\ Begins(ast)[k] = Context(TRUE, f)
          /\ Leaves(ast)[k] = Context(Goes(ast, m), f)
      <4>1. Straight(ast, f, k)
        BY <3>1, <3>k
      <4>2. /\ Idle(ast, k) /\ k \in Work(ast)
            /\ Begins(ast)[k] = Context(TRUE, f)
            /\ Leaves(ast)[k] = Context(Goes(ast, k.node), f)
        BY <1>1, <1>2, <4>1, StraightParts
      <4>3. QED
        BY <3>2, <4>2
    <3>4. tasks = << k, last >>
      BY <3>1, <3>k
    <3>5. /\ tasks \in Seq(Work(ast)) /\ Len(tasks) = 2 /\ tasks[1] = k /\ tasks[2] = last
          /\ tasks # << >>
      BY <3>1, <3>3, <3>4
    <3>6. /\ \A i \in 1 .. 2 : i = 1 \/ i = 2
          /\ \A i \in 1 .. 2 - 1 : i = 1 /\ i + 1 = 2
      OBVIOUS
    <3>7. NextHere(tasks) = Context(TRUE, f)
      BY <3>3, <3>5 DEF NextHere
    <3>8. Leads(tasks, Begins(ast), Leaves(ast), NextHere(tasks))
      BY <3>1, <3>3, <3>5, <3>6, <3>7 DEF Leads
    <3>9. Keeping(ast, Top, tasks, left, new, TargetsOf(is), f)
      BY <3>1, <3>3, <3>5, <3>6 DEF Keeping, Idle
    <3>10. \A i \in 1 .. Len(tasks) : Owes(ast)[tasks[i]] = {}
      BY <3>1, <3>3, <3>5, <3>6 DEF Idle
    <3>11. QED
      BY <3>5, <3>7, <3>8, <3>9, <3>10
  <2>3. QED
    BY <1>1, <2>1, <2>2 DEF Handed
<1>4. NextHere(tasks).open = TRUE /\ NextHere(tasks).in = f
  BY <1>3 DEF Context
<1>5. placed \subseteq held /\ (placed # {} /\ placed = {p})
      /\ placed \subseteq (Branched(ast)[Top] \cap Awaits(ast)[Top]) \cup TargetsOf(is)
      /\ left = held \ placed
  BY <1>1, <1>left, <1>placed
<1>6. Flow(ast, Top, tasks, blocks, blocks', Here, NextHere(tasks), insertBlock, insertBlock',
           is, placed, fresh)
  BY <1>1, <1>3, <1>4, <1>5, <1>f, <1>new, <1>held DEF Flow
<1>7. FlowStep(tasks, is, placed, fresh)
  BY <1>1, <1>3, <1>6 DEF FlowStep
<1>8. QED
  BY <1>7, FlowKeeps

\* What the steps of control flow write and leave: no more than one branch,
\* and the visit of a part and a frame of the same statement.
Branching(tasks, is) ==
  LET n == Top.node
  IN  /\ ast[n].kind \in {"If", "While"}
      /\ Awaits(ast)[Top] = {} \/ Top.func = Here.in
      /\ \/ is = << >>
         \/ \E b : is = << Br(n, b) >>
         \/ /\ Top.op \in {"branch", "loop"}
            /\ \E b, c : is = << CondBr(n, ValueOf(Kid(ast, n, 1)), b, c) >>
      /\ \/ tasks = << >>
         \/ \E i \in 1 .. Len(ast[n].kids) : \E last :
              /\ tasks = << Visit(Kid(ast, n, i)), last >>
              /\ last.node = n /\ last.op \in {"else", "merge", "loop", "post"}
              /\ last.op = "loop" => i = 1 /\ ast[n].kind = "While"

Placing ==
  \E tasks, is, p, fresh : PlacingStep(tasks, is, p, fresh) /\ Branching(tasks, is)

\* Or no step goes on behind the statement.
Ceasing ==
  /\ ast[Top.node].kind = "If"
  /\ blocks' = Written(blocks, insertBlock, << >>) /\ Continue(<< >>)
  /\ UNCHANGED << ast, fields, ir_value, insertBlock >>

(***************************************************************************)
(* If statements.                                                          *)
(***************************************************************************)
LEMMA IfParts ==
  ASSUME NEW t, IsProgram(t), NEW n \in DOMAIN t, t[n].kind = "If",
         EnclosingFunction(t, n) # nullptr
  PROVE  /\ n \in NodesOf(t, StatementKinds) /\ n \in NodesOf(t, {"If"})
         /\ EnclosingFunction(t, n) \in FunctionsOf(t)
         /\ Len(t[n].kids) = 2 \/ Len(t[n].kids) = 3
         /\ \A i \in 2 .. Len(t[n].kids) :
              /\ Kid(t, n, i) \in NodesOf(t, StatementKinds)
              /\ Goes(t, Kid(t, n, i)) = Falls(t, Kid(t, n, i))
              /\ Straight(t, EnclosingFunction(t, n), Visit(Kid(t, n, i)))
              /\ Falls(t, Kid(t, n, i)) => Falls(t, n)
         /\ Len(t[n].kids) = 2 => Falls(t, n)
         /\ Falls(t, n) => \/ Len(t[n].kids) = 2
                           \/ Falls(t, Kid(t, n, 2))
                           \/ Falls(t, Kid(t, n, 3))
<1>1. IsTree(t)
  BY DEF IsProgram
<1>2. n \in NodesOf(t, StatementKinds) /\ n \in NodesOf(t, {"If"})
  BY DEF NodesOf, StatementKinds
<1>3. EnclosingFunction(t, n) \in FunctionsOf(t)
  BY InsideNode
<1>4. /\ Len(t[n].kids) = 2 \/ Len(t[n].kids) = 3
      /\ Kid(t, n, 2) \in NodesOf(t, StatementKinds)
      /\ Len(t[n].kids) = 3 => Kid(t, n, 3) \in NodesOf(t, StatementKinds)
  BY <1>1, <1>2, StatementsInside
<1>5. Falls(t, n) <=> \/ Len(t[n].kids) = 2
                      \/ Falls(t, Kid(t, n, 2))
                      \/ Falls(t, Kid(t, n, 3))
  BY <1>1, <1>2, FallsThrough DEF Falls
<1>6. ASSUME NEW i \in 2 .. Len(t[n].kids)
      PROVE  /\ Kid(t, n, i) \in NodesOf(t, StatementKinds)
             /\ Goes(t, Kid(t, n, i)) = Falls(t, Kid(t, n, i))
             /\ Straight(t, EnclosingFunction(t, n), Visit(Kid(t, n, i)))
             /\ Falls(t, Kid(t, n, i)) => Falls(t, n)
  <2>1. i = 2 \/ (i = 3 /\ Len(t[n].kids) = 3)
    <3>1. PICK k : k = Len(t[n].kids)
      OBVIOUS
    <3>2. i \in 2 .. k /\ (k = 2 \/ k = 3)
      BY <1>4, <3>1
    <3>3. i = 2 \/ (i = 3 /\ k = 3)
      BY <3>2
    <3>4. QED
      BY <3>1, <3>3
  <2>2. Kid(t, n, i) \in NodesOf(t, StatementKinds)
    BY <1>4, <2>1
  <2>3. t[Kid(t, n, i)].kind \in StatementKinds
    BY <2>2 DEF NodesOf
  <2>4. Goes(t, Kid(t, n, i)) = Falls(t, Kid(t, n, i))
    BY <2>3 DEF Goes, Falls
  <2>5. i \in 1 .. Len(t[n].kids)
    BY <1>4, <2>1
  <2>6. Straight(t, EnclosingFunction(t, n), Visit(Kid(t, n, i)))
    BY <2>5, StraightKid
  <2>7. Falls(t, Kid(t, n, i)) => Falls(t, n)
    BY <1>5, <2>1
  <2>8. QED
    BY <2>2, <2>4, <2>6, <2>7
<1>7. QED
  BY <1>2, <1>3, <1>4, <1>5, <1>6

LEMMA CompletesStatement ==
  ASSUME NEW t, NEW n, EnclosingFunction(t, n) # nullptr, t[n].kind \in StatementKinds
  PROVE  Completes(t, n) = Falls(t, n)
<1>1. Completes(t, n) = (t[n].kind \in StatementKinds => Falls(t, n))
  BY DEF Completes
<1>2. (t[n].kind \in StatementKinds => Falls(t, n)) = Falls(t, n)
  BY DEF Falls
<1>3. QED
  BY <1>1, <1>2

\* The frame of an if that is generated in part.
LEMMA IfTop ==
  ASSUME IInv, NEW op, op \in {"else", "merge"}, Doing(op, {"If"})
  PROVE  /\ stack # << >> /\ IsProgram(ast) /\ Top \in IfFrames(ast) /\ Top.op = op
         /\ Top.node \in DOMAIN ast /\ ast[Top.node].kind = "If"
         /\ Top.func = EnclosingFunction(ast, Top.node)
         /\ Top.func \in FunctionsOf(ast) /\ Top.func # nullptr
         /\ Top \in Work(ast) /\ Here = Begins(ast)[Top]
         /\ Leaves(ast)[Top] = Context(Falls(ast, Top.node), Top.func)
<1>1. /\ stack # << >> /\ IsProgram(ast) /\ IsTree(ast) /\ Top \in Work(ast)
      /\ Top.node \in DOMAIN ast /\ Here = Begins(ast)[Top]
      /\ Top.op = op /\ ast[Top.node].kind = "If"
  BY TopParts DEF Doing
<1>2. Top \in IfFrames(ast)
  BY <1>1 DEF Work, PlainTasks, WhileFrames
<1>3. Top.func = EnclosingFunction(ast, Top.node) /\ Top.func \in FunctionsOf(ast)
  BY <1>2 DEF IfFrames
<1>4. Top.func # nullptr
  BY <1>1, <1>3, NodeShape DEF FunctionsOf, NodesOf, nullptr
<1>5. Completes(ast, Top.node) = Falls(ast, Top.node)
  BY <1>1, <1>3, <1>4, CompletesStatement DEF StatementKinds
<1>6. Leaves(ast)[Top] = Context(Completes(ast, Top.node), EnclosingFunction(ast, Top.node))
  BY <1>1 DEF Leaves
<1>7. QED
  BY <1>1, <1>2, <1>3, <1>4, <1>5, <1>6

\* A branch to the block b behind a statement that control falls out of.
LEMMA GoToCode ==
  ASSUME IInv, NEW n \in DOMAIN ast, ast[n].kind \in {"If", "While"},
         NEW s \in NodesOf(ast, StatementKinds), NEW b, NEW is, is = GoTo(n, s, b)
  PROVE  /\ GoodCode(ast, is)
         /\ Falls(ast, s) => Ended(is) /\ TargetsOf(is) = {b}
         /\ ~ Falls(ast, s) => is = << >> /\ TargetsOf(is) = {}
         /\ is = << >> \/ is = << Br(n, b) >>
<1>1. always_returns[s] = ~ Falls(ast, s)
  BY AlwaysReturns
<1>2. CASE ~ Falls(ast, s)
  <2>1. is = << >>
    BY <1>1, <1>2 DEF GoTo
  <2>2. GoodCode(ast, << >>) /\ TargetsOf(<< >>) = {}
    BY NoInstruction
  <2>3. QED
    BY <1>2, <2>1, <2>2
<1>3. CASE Falls(ast, s)
  <2>1. PICK i : i = Br(n, b)
    OBVIOUS
  <2>2. is = << i >> /\ i.op = "br" /\ i.at = n /\ i.targets = << b >>
    BY <1>1, <1>3, <2>1 DEF GoTo, Br, Instruction
  <2>3. Range(i.targets) = {b}
    BY <2>2 DEF Range
  <2>4. /\ GoodCode(ast, << i >>) /\ TargetsOf(<< i >>) = Range(i.targets)
        /\ Ended(<< i >>) <=> i.op \in Terminators
    BY <2>2, OneInstruction
  <2>5. QED
    BY <1>3, <2>1, <2>2, <2>3, <2>4 DEF Terminators
<1>4. QED
  BY <1>2, <1>3

\* A conditional branch.
LEMMA CondBrCode ==
  ASSUME NEW t, NEW n \in DOMAIN t, NEW condition, NEW b, NEW c, NEW is,
         is = << CondBr(n, condition, b, c) >>
  PROVE  GoodCode(t, is) /\ Ended(is) /\ TargetsOf(is) = {b, c} /\ is # << >>
<1>1. PICK i : i = CondBr(n, condition, b, c)
  OBVIOUS
<1>2. i.op = "condbr" /\ i.at = n /\ i.targets = << b, c >>
  BY <1>1 DEF CondBr, Instruction
<1>3. Range(i.targets) = {b, c}
  BY <1>2 DEF Range
<1>4. /\ GoodCode(t, << i >>) /\ TargetsOf(<< i >>) = Range(i.targets) /\ << i >> # << >>
      /\ Ended(<< i >>) <=> i.op \in Terminators
  BY <1>2, OneInstruction
<1>5. QED
  BY <1>1, <1>2, <1>3, <1>4 DEF Terminators

LEMMA ElseEntered ==
  ASSUME IInv, EnterElse
  PROVE  IInv' /\ Placing
<1>n. PICK n : n = Top.node
  OBVIOUS
<1>f. PICK f : f = Top.func
  OBVIOUS
<1>e. PICK e : e = Top.else_block
  OBVIOUS
<1>m. PICK m : m = Top.merge_block
  OBVIOUS
<1>k. PICK k : k = Len(ast[n].kids)
  OBVIOUS
<1>is. PICK is : is = GoTo(n, Kid(ast, n, 2), m)
  OBVIOUS
<1>last. PICK last : last = [Top EXCEPT !.op = "merge"]
  OBVIOUS
<1>op. PICK op : op = "else"
  OBVIOUS
<1>new. PICK new : new = Len(blocks) + 1 .. Len(blocks) + 0
  OBVIOUS
<1>1. /\ Doing(op, {"If"})
      /\ blocks' = Inserted(Written(blocks, insertBlock, is), e, f)
      /\ insertBlock' = e
      /\ \/ k = 3 /\ Continue(<< Visit(Kid(ast, n, 3)), last >>)
         \/ k = 2 /\ Continue(<< >>)
      /\ UNCHANGED << ast, fields, ir_value >>
  BY <1>n, <1>f, <1>e, <1>m, <1>k, <1>is, <1>last, <1>op, Zenon DEF EnterElse
<1>2. /\ stack # << >> /\ IsProgram(ast) /\ Top \in IfFrames(ast) /\ Top.op = "else"
      /\ n \in DOMAIN ast /\ ast[n].kind = "If"
      /\ f = EnclosingFunction(ast, n) /\ f \in FunctionsOf(ast) /\ f # nullptr
      /\ Top \in Work(ast) /\ Here = Begins(ast)[Top]
      /\ Leaves(ast)[Top] = Context(Falls(ast, n), f)
  BY <1>1, <1>n, <1>f, <1>op, IfTop
<1>3. /\ k = 2 \/ k = 3
      /\ \A i \in 2 .. k :
           /\ Kid(ast, n, i) \in NodesOf(ast, StatementKinds)
           /\ Goes(ast, Kid(ast, n, i)) = Falls(ast, Kid(ast, n, i))
           /\ Straight(ast, f, Visit(Kid(ast, n, i)))
           /\ Falls(ast, Kid(ast, n, i)) => Falls(ast, n)
      /\ k = 2 => Falls(ast, n)
  BY <1>2, <1>k, IfParts
<1>4. 2 \in 2 .. k /\ (k = 3 => 3 \in 2 .. k)
  BY <1>3
<1>5. /\ e \in Nat \ {0} /\ m \in Nat
      /\ m # nullptr <=> Falls(ast, n)
      /\ k = 2 => e = m
      /\ k = 3 => e # m
  BY <1>2, <1>n, <1>e, <1>m, <1>k DEF IfFrames
<1>6. /\ Awaits(ast)[Top] = {e} \cup ({m} \ {nullptr})
      /\ Branched(ast)[Top] = {e} /\ ComesBack(ast)[Top] = {}
      /\ Here = Context(Falls(ast, Kid(ast, n, 2)), f)
  BY <1>2, <1>n, <1>e, <1>m DEF Awaits, Branched, ComesBack, Begins
<1>7. /\ GoodCode(ast, is)
      /\ Falls(ast, Kid(ast, n, 2)) => Ended(is) /\ TargetsOf(is) = {m}
      /\ ~ Falls(ast, Kid(ast, n, 2)) => is = << >> /\ TargetsOf(is) = {}
      /\ is = << >> \/ is = << Br(n, m) >>
  BY <1>2, <1>3, <1>4, <1>is, GoToCode
<1>8. new = {}
  <2>1. Len(blocks) \in Nat
    BY SequenceParts DEF IInv, GoodBlocks, BlockSequence
  <2>2. QED
    BY <1>new, <2>1
<1>9. Shape(blocks, blocks', insertBlock, is, {e}, f, 0)
  <2>1. BlockSequence(blocks)
    BY DEF IInv, GoodBlocks
  <2>2. QED
    BY <1>1, <2>1, InsertShape
<1>10. Here.in = f /\ Here.open = Falls(ast, Kid(ast, n, 2))
  BY <1>6 DEF Context
<1>11. PICK left : left = (Awaits(ast)[Top] \cup new) \ {e}
  OBVIOUS
<1>12. PICK tasks : /\ Continue(tasks)
                    /\ Handed(tasks, is, f, left, new)
                    /\ Branching(tasks, is)
  <2>1. CASE k = 2
    <3>1. Continue(<< >>) /\ left = {}
      BY <1>1, <1>5, <1>6, <1>8, <1>11, <2>1
    <3>2. Leaves(ast)[Top] = Context(TRUE, f)
      BY <1>2, <1>3, <2>1
    <3>3. Handed(<< >>, is, f, left, new)
      BY <3>1, <3>2 DEF Handed
    <3>4. Branching(<< >>, is)
      BY <1>2, <1>7, <1>10, <1>f, <1>n DEF Branching
    <3>5. QED
      BY <3>1, <3>3, <3>4
  <2>2. CASE k = 3
    <3>s. PICK s : s = Kid(ast, n, 3)
      OBVIOUS
    <3>tasks. PICK tasks : tasks = << Visit(s), last >>
      OBVIOUS
    <3>1. /\ last \in IfFrames(ast) /\ last.op = "merge" /\ last.node = n /\ last.func = f
          /\ last.merge_block = m
      <4>1. Top = [op |-> Top.op, node |-> n, func |-> f, else_block |-> e, merge_block |-> m]
        BY <1>2, <1>n, <1>f, <1>e, <1>m DEF IfFrames
      <4>2. last = [op |-> "merge", node |-> n, func |-> f, else_block |-> e, merge_block |-> m]
        BY <1>last, <4>1
      <4>3. n \in NodesOf(ast, {"If"})
        BY <1>2 DEF NodesOf
      <4>4. QED
        BY <1>2, <1>3, <1>5, <1>k, <2>2, <4>2, <4>3 DEF IfFrames
    <3>2. last \in Work(ast)
      BY <3>1 DEF Work
    <3>3. /\ Owes(ast)[last] = {} /\ ComesBack(ast)[last] = {}
          /\ Awaits(ast)[last] = {m} \ {nullptr}
          /\ Branched(ast)[last] = IF Falls(ast, Kid(ast, n, 2)) THEN {m} ELSE {}
          /\ Begins(ast)[last] = Context(Falls(ast, s), f)
      BY <1>2, <3>1, <3>2, <3>s DEF Owes, ComesBack, Awaits, Branched, Begins
    <3>4. Leaves(ast)[last] = Leaves(ast)[Top]
      BY <1>2, <1>n, <3>1, <3>2 DEF Leaves
    <3>5. Straight(ast, f, Visit(s)) /\ s \in DOMAIN ast /\ Goes(ast, s) = Falls(ast, s)
      BY <1>3, <1>4, <2>2, <3>s DEF NodesOf
    <3>6. Awaits(ast)[last] = left /\ Branched(ast)[last] \subseteq TargetsOf(is)
      BY <1>5, <1>6, <1>7, <1>8, <1>11, <2>2, <3>3
    <3>7. Begins(ast)[last] = Context(Goes(ast, s), f)
      BY <3>3, <3>5
    <3>8. Handed(tasks, is, f, left, new)
      BY <3>tasks, <3>1, <3>2, <3>3, <3>4, <3>5, <3>6, <3>7 DEF Handed
    <3>9. Continue(tasks)
      BY <1>1, <2>2, <3>s, <3>tasks
    <3>10. Branching(tasks, is)
      BY <1>2, <1>3, <1>4, <1>7, <1>10, <1>f, <1>k, <1>n, <2>2, <3>1, <3>s, <3>tasks DEF Branching
    <3>11. QED
      BY <3>8, <3>9, <3>10
  <2>3. QED
    BY <1>3, <2>1, <2>2
<1>13. PlacingStep(tasks, is, e, 0)
  BY <1>1, <1>2, <1>5, <1>6, <1>7, <1>9, <1>10, <1>11, <1>12, <1>new DEF PlacingStep
<1>14. QED
  BY <1>12, <1>13, PlacingKeeps DEF Placing

\* An if that always returns leaves no block to go on in.
LEMMA IfFinished ==
  ASSUME IInv, FinishIf
  PROVE  IInv' /\ (Placing \/ Ceasing)
<1>n. PICK n : n = Top.node
  OBVIOUS
<1>f. PICK f : f = Top.func
  OBVIOUS
<1>m. PICK m : m = Top.merge_block
  OBVIOUS
<1>s. PICK s : s = Kid(ast, n, 3)
  OBVIOUS
<1>is. PICK is : is = GoTo(n, s, m)
  OBVIOUS
<1>op. PICK op : op = "merge"
  OBVIOUS
<1>new. PICK new : new = Len(blocks) + 1 .. Len(blocks) + 0
  OBVIOUS
<1>tasks. PICK tasks : tasks = << >>
  OBVIOUS
<1>1. /\ Doing(op, {"If"})
      /\ \/ /\ always_returns[n]
            /\ blocks' = Written(blocks, insertBlock, is) /\ insertBlock' = insertBlock
         \/ /\ ~ always_returns[n]
            /\ blocks' = Inserted(Written(blocks, insertBlock, is), m, f)
            /\ insertBlock' = m
      /\ Continue(tasks)
      /\ UNCHANGED << ast, fields, ir_value >>
  BY <1>n, <1>f, <1>m, <1>s, <1>is, <1>op, <1>tasks, Zenon DEF FinishIf
<1>2. /\ stack # << >> /\ IsProgram(ast) /\ Top \in IfFrames(ast) /\ Top.op = "merge"
      /\ n \in DOMAIN ast /\ ast[n].kind = "If"
      /\ f = EnclosingFunction(ast, n) /\ f \in FunctionsOf(ast) /\ f # nullptr
      /\ Top \in Work(ast) /\ Here = Begins(ast)[Top]
      /\ Leaves(ast)[Top] = Context(Falls(ast, n), f)
  BY <1>1, <1>n, <1>f, <1>op, IfTop
<1>3. Len(ast[n].kids) = 3
  <2>1. Len(ast[n].kids) = 2 \/ Len(ast[n].kids) = 3
    BY <1>2, IfParts
  <2>2. Len(ast[n].kids) # 2
    BY <1>2, <1>n DEF IfFrames
  <2>3. QED
    BY <2>1, <2>2
<1>4. /\ n \in NodesOf(ast, StatementKinds)
      /\ s \in NodesOf(ast, StatementKinds)
      /\ Falls(ast, s) => Falls(ast, n)
      /\ Falls(ast, n) => Falls(ast, Kid(ast, n, 2)) \/ Falls(ast, s)
  <2>1. 3 \in 2 .. 3 /\ 3 # 2
    OBVIOUS
  <2>2. /\ n \in NodesOf(ast, StatementKinds)
        /\ \A i \in 2 .. Len(ast[n].kids) :
             /\ Kid(ast, n, i) \in NodesOf(ast, StatementKinds)
             /\ Falls(ast, Kid(ast, n, i)) => Falls(ast, n)
        /\ Falls(ast, n) => \/ Len(ast[n].kids) = 2
                            \/ Falls(ast, Kid(ast, n, 2))
                            \/ Falls(ast, Kid(ast, n, 3))
    BY <1>2, IfParts
  <2>3. QED
    BY <1>3, <1>s, <2>1, <2>2
<1>5. m \in Nat /\ (m # nullptr <=> Falls(ast, n))
  BY <1>2, <1>n, <1>m DEF IfFrames
<1>6. /\ Awaits(ast)[Top] = {m} \ {nullptr}
      /\ Branched(ast)[Top] = IF Falls(ast, Kid(ast, n, 2)) THEN {m} ELSE {}
      /\ ComesBack(ast)[Top] = {}
      /\ Here = Context(Falls(ast, s), f)
  BY <1>2, <1>n, <1>m, <1>s DEF Awaits, Branched, ComesBack, Begins
<1>7. /\ GoodCode(ast, is)
      /\ Falls(ast, s) => Ended(is) /\ TargetsOf(is) = {m}
      /\ ~ Falls(ast, s) => is = << >> /\ TargetsOf(is) = {}
      /\ is = << >> \/ is = << Br(n, m) >>
  BY <1>2, <1>4, <1>is, GoToCode
<1>8. Len(blocks) \in Nat /\ BlockSequence(blocks)
  BY SequenceParts DEF IInv, GoodBlocks, BlockSequence
<1>9. new = {}
  BY <1>8, <1>new
<1>10. Here.in = f /\ Here.open = Falls(ast, s)
  BY <1>6 DEF Context
<1>11. always_returns[n] = ~ Falls(ast, n)
  BY <1>4, AlwaysReturns
<1>12. CASE Falls(ast, n)
  <2>1. /\ blocks' = Inserted(Written(blocks, insertBlock, is), m, f)
        /\ insertBlock' = m
    BY <1>1, <1>11, <1>12
  <2>2. Shape(blocks, blocks', insertBlock, is, {m}, f, 0)
    BY <1>8, <2>1, InsertShape
  <2>3. PICK left : left = (Awaits(ast)[Top] \cup new) \ {m}
    OBVIOUS
  <2>4. left = {}
    BY <1>6, <1>9, <2>3
  <2>5. Leaves(ast)[Top] = Context(TRUE, f)
    BY <1>2, <1>12
  <2>6. Handed(tasks, is, f, left, new)
    BY <1>tasks, <2>4, <2>5 DEF Handed
  <2>7. m \in Awaits(ast)[Top] /\ m \in (Branched(ast)[Top] \cap Awaits(ast)[Top]) \cup TargetsOf(is)
    BY <1>4, <1>5, <1>6, <1>7, <1>12
  <2>8. TargetsOf(is) \subseteq Awaits(ast)[Top]
    BY <1>7, <2>7
  <2>9. PlacingStep(tasks, is, m, 0)
    BY <1>1, <1>2, <1>7, <1>10, <1>new, <2>1, <2>2, <2>3, <2>6, <2>7, <2>8 DEF PlacingStep
  <2>10. Branching(tasks, is)
    BY <1>2, <1>7, <1>10, <1>f, <1>n, <1>tasks DEF Branching
  <2>11. QED
    BY <2>9, <2>10, PlacingKeeps DEF Placing
<1>13. CASE ~ Falls(ast, n)
  <2>1. is = << >> /\ TargetsOf(is) = {} /\ ~ Falls(ast, s)
    BY <1>4, <1>7, <1>13
  <2>2. blocks' = Written(blocks, insertBlock, is) /\ insertBlock' = insertBlock
    BY <1>1, <1>11, <1>13
  <2>p. PICK placed : placed = {}
    OBVIOUS
  <2>fresh. PICK fresh : fresh = 0
    OBVIOUS
  <2>3. Shape(blocks, blocks', insertBlock, is, placed, f, fresh)
    BY <1>8, <2>2, <2>p, <2>fresh, WriteShape
  <2>4. Awaits(ast)[Top] = {}
    BY <1>5, <1>6, <1>13
  <2>5. NextHere(tasks) = Context(FALSE, f)
    <3>1. Falls(ast, n) = FALSE
      BY <1>13 DEF Falls
    <3>2. Leaves(ast)[Top] = Context(FALSE, f)
      BY <1>2, <3>1
    <3>3. QED
      BY <1>tasks, <3>2 DEF NextHere
  <2>6. NextHere(tasks).in = f /\ NextHere(tasks).open = FALSE /\ Here.open = FALSE
    BY <1>10, <2>1, <2>5 DEF Context
  <2>7. /\ tasks \in Seq(Work(ast)) /\ Len(tasks) = 0
        /\ (\A i : i \notin 1 .. 0) /\ \A i : i \notin 1 .. 0 - 1
    BY <1>tasks
  <2>8. Leads(tasks, Begins(ast), Leaves(ast), NextHere(tasks))
    BY <1>tasks, <2>7 DEF Leads, NextHere
  <2>9. Keeping(ast, Top, tasks, {}, new, TargetsOf(is), f)
    BY <2>7 DEF Keeping
  <2>10. PICK held : held = Awaits(ast)[Top] \cup new
    OBVIOUS
  <2>11. held \ placed = {} /\ placed = {}
    BY <1>9, <2>4, <2>10, <2>p
  <2>12. Keeping(ast, Top, tasks, held \ placed, new, TargetsOf(is), f)
    BY <2>9, <2>11
  <2>13. Flow(ast, Top, tasks, blocks, blocks', Here, NextHere(tasks), insertBlock, insertBlock',
              is, placed, fresh)
    BY <1>7, <1>10, <1>new, <2>1, <2>2, <2>3, <2>6, <2>10, <2>11, <2>12, <2>fresh DEF Flow
  <2>14. \A i \in 1 .. Len(tasks) : Owes(ast)[tasks[i]] = {}
    BY <2>7
  <2>15. FlowStep(tasks, is, placed, fresh)
    BY <1>1, <1>2, <2>7, <2>8, <2>13, <2>14 DEF FlowStep
  <2>16. Ceasing
    BY <1>1, <1>2, <1>n, <1>tasks, <2>1, <2>2 DEF Ceasing
  <2>17. QED
    BY <2>15, <2>16, FlowKeeps
<1>14. QED
  BY <1>12, <1>13

\* The block written to is in the function that the step is inside of.
LEMMA FunctionHere ==
  ASSUME IInv, Here.in # nullptr
  PROVE  blocks[insertBlock].function = Here.in
<1>1. PICK home : Layout(ast, stack, blocks, Here, insertBlock, home)
  BY DEF IInv
<1>2. /\ insertBlock # nullptr /\ home[insertBlock] = Here.in
      /\ insertBlock \in 1 .. Len(blocks) /\ insertBlock \notin Pending(stack, Awaits(ast))
  BY <1>1 DEF Layout, Inserting
<1>3. blocks[insertBlock].function = home[insertBlock]
  BY <1>1, <1>2 DEF Layout, Placed, PlacedBlock
<1>4. QED
  BY <1>2, <1>3

\* New blocks: one in function f and others that are not placed yet.
NewBlocks(new, f, k) ==
  /\ BlockSequence(new) /\ Len(new) = k
  /\ \A b \in 1 .. k : /\ new[b].function = IF b = 1 THEN f ELSE nullptr
                       /\ new[b].code = << >>

LEMMA TwoNewBlocks ==
  ASSUME NEW f, NEW l1, NEW l2
  PROVE  NewBlocks(<< Block(l1, f, << >>), Block(l2, nullptr, << >>) >>, f, 2)
<1>1. PICK x : x = Block(l1, f, << >>)
  OBVIOUS
<1>2. PICK y : y = Block(l2, nullptr, << >>)
  OBVIOUS
<1>3. PICK new : new = << x, y >>
  OBVIOUS
<1>4. /\ x = Block(x.label, x.function, x.code) /\ x.function = f /\ x.code = << >>
      /\ y = Block(y.label, y.function, y.code) /\ y.function = nullptr /\ y.code = << >>
  BY <1>1, <1>2 DEF Block
<1>5. IsSequence(new) /\ Len(new) = 2 /\ new[1] = x /\ new[2] = y
  BY <1>3, ShortSequences
<1>6. \A b \in 1 .. 2 : b = 1 \/ (b = 2 /\ b # 1)
  OBVIOUS
<1>7. NewBlocks(new, f, 2)
  BY <1>4, <1>5, <1>6 DEF NewBlocks, BlockSequence
<1>8. QED
  BY <1>1, <1>2, <1>3, <1>7

LEMMA ThreeNewBlocks ==
  ASSUME NEW f, NEW l1, NEW l2, NEW l3
  PROVE  NewBlocks(<< Block(l1, f, << >>), Block(l2, nullptr, << >>),
                      Block(l3, nullptr, << >>) >>, f, 3)
<1>1. PICK x : x = Block(l1, f, << >>)
  OBVIOUS
<1>2. PICK y : y = Block(l2, nullptr, << >>)
  OBVIOUS
<1>z. PICK z : z = Block(l3, nullptr, << >>)
  OBVIOUS
<1>3. PICK new : new = << x, y, z >>
  OBVIOUS
<1>4. /\ x = Block(x.label, x.function, x.code) /\ x.function = f /\ x.code = << >>
      /\ y = Block(y.label, y.function, y.code) /\ y.function = nullptr /\ y.code = << >>
      /\ z = Block(z.label, z.function, z.code) /\ z.function = nullptr /\ z.code = << >>
  BY <1>1, <1>2, <1>z DEF Block
<1>5. IsSequence(new) /\ Len(new) = 3 /\ new[1] = x /\ new[2] = y /\ new[3] = z
  BY <1>3, FewTasks
<1>6. \A b \in 1 .. 3 : b = 1 \/ (b = 2 /\ b # 1) \/ (b = 3 /\ b # 1)
  OBVIOUS
<1>7. NewBlocks(new, f, 3)
  BY <1>4, <1>5, <1>6 DEF NewBlocks, BlockSequence
<1>8. QED
  BY <1>1, <1>2, <1>3, <1>z, <1>7

\* The blocks that BranchIf adds.
LEMMA IfBlocks ==
  ASSUME NEW f, NEW merge, NEW else, NEW falls \in BOOLEAN, NEW three \in BOOLEAN,
         merge = IF ~ falls THEN << >> ELSE << Block("post", nullptr, << >>) >>,
         else = IF three THEN << Block("else", nullptr, << >>) >> ELSE << >>,
         three \/ falls
  PROVE  /\ NewBlocks(<< Block("then", f, << >>) >> \o merge \o else, f,
                      1 + Len(merge) + Len(else))
         /\ Len(merge) = IF falls THEN 1 ELSE 0
         /\ Len(else) = IF three THEN 1 ELSE 0
         /\ (merge = << >> <=> ~ falls) /\ (else = << >> <=> ~ three)
<1>1. PICK x : x = Block("then", f, << >>)
  OBVIOUS
<1>2. PICK y : y = Block("post", nullptr, << >>)
  OBVIOUS
<1>3. PICK z : z = Block("else", nullptr, << >>)
  OBVIOUS
<1>all. PICK all : all = << x >> \o merge \o else
  OBVIOUS
<1>4. /\ merge = IF falls THEN << y >> ELSE << >>
      /\ else = IF three THEN << z >> ELSE << >>
  BY <1>2, <1>3
<1>5. /\ Len(<< y >>) = 1 /\ << y >> # << >> /\ Len(<< z >>) = 1 /\ << z >> # << >>
      /\ Len(<< >>) = 0
  OBVIOUS
<1>6. /\ Len(merge) = IF falls THEN 1 ELSE 0
      /\ Len(else) = IF three THEN 1 ELSE 0
      /\ (merge = << >> <=> ~ falls) /\ (else = << >> <=> ~ three)
  BY <1>4, <1>5, Zenon
<1>7. NewBlocks(all, f, 1 + Len(merge) + Len(else))
  <2>1. CASE falls /\ three
    <3>1. merge = << y >> /\ else = << z >>
      BY <1>4, <2>1
    <3>2. all = << x, y, z >>
      <4>1. << x >> \o << y >> = << x, y >> /\ << x, y >> \o << z >> = << x, y, z >>
        BY ShortJoined
      <4>2. all = (<< x >> \o << y >>) \o << z >>
        BY <1>all, <3>1
      <4>3. QED
        BY <4>1, <4>2, Zenon
    <3>3. NewBlocks(<< x, y, z >>, f, 3)
      BY <1>1, <1>2, <1>3, ThreeNewBlocks
    <3>4. 1 + Len(merge) + Len(else) = 3
      BY <1>6, <2>1
    <3>5. QED
      BY <3>2, <3>3, <3>4, Zenon
  <2>2. CASE falls /\ ~ three
    <3>1. merge = << y >> /\ else = << >>
      BY <1>4, <2>2
    <3>2. all = << x, y >>
      BY <1>all, <3>1, ShortJoined, Zenon
    <3>3. NewBlocks(<< x, y >>, f, 2)
      BY <1>1, <1>2, TwoNewBlocks
    <3>4. 1 + Len(merge) + Len(else) = 2
      BY <1>6, <2>2
    <3>5. QED
      BY <3>2, <3>3, <3>4, Zenon
  <2>3. CASE ~ falls /\ three
    <3>1. merge = << >> /\ else = << z >>
      BY <1>4, <2>3
    <3>2. all = << x, z >>
      BY <1>all, <3>1, ShortJoined, Zenon
    <3>3. NewBlocks(<< x, z >>, f, 2)
      BY <1>1, <1>3, TwoNewBlocks
    <3>4. 1 + Len(merge) + Len(else) = 2
      BY <1>6, <2>3
    <3>5. QED
      BY <3>2, <3>3, <3>4, Zenon
  <2>4. QED
    BY <2>1, <2>2, <2>3
<1>8. QED
  BY <1>1, <1>6, <1>7, <1>all

\* The places of the blocks that BranchIf adds behind l others.
IfPlacing(l, falls, three, a, b, m, e) ==
  /\ l \in Nat /\ falls \in BOOLEAN /\ three \in BOOLEAN /\ (three \/ falls)
  /\ a = IF falls THEN 1 ELSE 0
  /\ b = IF three THEN 1 ELSE 0
  /\ m = IF falls THEN l + 1 + 1 ELSE nullptr
  /\ e = IF three THEN l + 1 + a + 1 ELSE m

LEMMA IfPlaces ==
  ASSUME NEW l, NEW falls, NEW three, NEW a, NEW b, NEW m, NEW e,
         IfPlacing(l, falls, three, a, b, m, e)
  PROVE  LET new == l + 1 .. l + (1 + a + b)
         IN  /\ 1 + a + b \in Nat /\ 1 + a + b # 0
             /\ l + 1 \in new /\ e \in new /\ new \ {l + 1} = {e} \cup ({m} \ {nullptr})
             /\ e \in Nat \ {0} /\ m \in Nat /\ (m # nullptr <=> falls)
             /\ (~ three => e = m) /\ (three => e # m)
<1> USE DEF nullptr, IfPlacing
<1>1. CASE falls /\ three
  <2>1. a = 1 /\ b = 1 /\ m = l + 2 /\ e = l + 3
    BY <1>1
  <2>2. \A i : i \in l + 1 .. l + 3 <=> i = l + 1 \/ i = l + 2 \/ i = l + 3
    OBVIOUS
  <2>3. 1 + a + b = 3
    BY <2>1
  <2>4. QED
    BY <1>1, <2>1, <2>2, <2>3
<1>2. CASE falls /\ ~ three
  <2>1. a = 1 /\ b = 0 /\ m = l + 2 /\ e = l + 2
    BY <1>2
  <2>2. \A i : i \in l + 1 .. l + 2 <=> i = l + 1 \/ i = l + 2
    OBVIOUS
  <2>3. 1 + a + b = 2
    BY <2>1
  <2>4. QED
    BY <1>2, <2>1, <2>2, <2>3
<1>3. CASE ~ falls /\ three
  <2>1. a = 0 /\ b = 1 /\ m = 0 /\ e = l + 2
    BY <1>3
  <2>2. \A i : i \in l + 1 .. l + 2 <=> i = l + 1 \/ i = l + 2
    OBVIOUS
  <2>3. 1 + a + b = 2
    BY <2>1
  <2>4. QED
    BY <1>3, <2>1, <2>2, <2>3
<1>4. QED
  BY <1>1, <1>2, <1>3

LEMMA IfBranched ==
  ASSUME IInv, BranchIf
  PROVE  IInv' /\ Placing
<1>n. PICK n : n = Top.node
  OBVIOUS
<1>f. PICK f : f = EnclosingFunction(ast, n)
  OBVIOUS
<1>l. PICK l : l = Len(blocks)
  OBVIOUS
<1>func. PICK func : func = blocks[insertBlock].function
  OBVIOUS
<1>first. PICK first : first = << Block("then", func, << >>) >>
  OBVIOUS
<1>merge. PICK merge : merge = IF always_returns[n] THEN << >>
                               ELSE << Block("post", nullptr, << >>) >>
  OBVIOUS
<1>else. PICK else : else = IF Len(ast[n].kids) = 3 THEN << Block("else", nullptr, << >>) >>
                            ELSE << >>
  OBVIOUS
<1>m. PICK m : m = IF merge = << >> THEN nullptr ELSE l + 1 + 1
  OBVIOUS
<1>e. PICK e : e = IF else = << >> THEN m ELSE l + 1 + Len(merge) + 1
  OBVIOUS
<1>is. PICK is : is = << CondBr(n, ValueOf(Kid(ast, n, 1)), l + 1, e) >>
  OBVIOUS
<1>last. PICK last : last = IfFrame("else", n, func, e, m)
  OBVIOUS
<1>s. PICK s : s = Kid(ast, n, 2)
  OBVIOUS
<1>tasks. PICK tasks : tasks = << Visit(s), last >>
  OBVIOUS
<1>w. PICK w : w = Written(blocks, insertBlock, is)
  OBVIOUS
<1>op. PICK op : op = "branch"
  OBVIOUS
<1>1. /\ Doing(op, {"If"})
      /\ blocks' = w \o first \o merge \o else
      /\ insertBlock' = l + 1
      /\ Continue(tasks)
      /\ UNCHANGED << ast, fields, ir_value >>
  BY <1>n, <1>l, <1>func, <1>first, <1>merge, <1>else, <1>m, <1>e, <1>is, <1>last, <1>s,
     <1>tasks, <1>w, <1>op, Zenon DEF BranchIf
<1>2. /\ stack # << >> /\ IsProgram(ast) /\ Top \in Work(ast)
      /\ n \in DOMAIN ast /\ ast[n].kind = "If" /\ Top.op = "branch"
  BY <1>1, <1>n, <1>op, TopParts DEF Doing
<1>3. f # nullptr /\ Here = Context(TRUE, f)
  <2>1. {"If"} \cap {"Program", "Function", "Variable", "Array"} = {}
    OBVIOUS
  <2>2. QED
    BY <1>1, <1>n, <1>f, <1>op, <2>1, TopInside
<1>4. Here.open = TRUE /\ Here.in = f
  BY <1>3 DEF Context
<1>5. func = f
  BY <1>3, <1>4, <1>func, FunctionHere
<1>6. /\ n \in NodesOf(ast, StatementKinds) /\ n \in NodesOf(ast, {"If"})
      /\ f \in FunctionsOf(ast)
      /\ Len(ast[n].kids) = 2 \/ Len(ast[n].kids) = 3
      /\ s \in NodesOf(ast, StatementKinds)
      /\ Goes(ast, s) = Falls(ast, s)
      /\ Straight(ast, f, Visit(s))
      /\ Len(ast[n].kids) = 2 => Falls(ast, n)
  <2>1. /\ n \in NodesOf(ast, StatementKinds) /\ n \in NodesOf(ast, {"If"})
        /\ f \in FunctionsOf(ast)
        /\ Len(ast[n].kids) = 2 \/ Len(ast[n].kids) = 3
        /\ \A i \in 2 .. Len(ast[n].kids) :
             /\ Kid(ast, n, i) \in NodesOf(ast, StatementKinds)
             /\ Goes(ast, Kid(ast, n, i)) = Falls(ast, Kid(ast, n, i))
             /\ Straight(ast, f, Visit(Kid(ast, n, i)))
        /\ Len(ast[n].kids) = 2 => Falls(ast, n)
    BY <1>2, <1>3, <1>f, IfParts
  <2>2. 2 \in 2 .. Len(ast[n].kids)
    BY <2>1
  <2>3. QED
    BY <1>s, <2>1, <2>2

<1>falls. PICK falls \in BOOLEAN : falls <=> Falls(ast, n)
  <2>1. CASE Falls(ast, n)
    BY <2>1
  <2>2. CASE ~ Falls(ast, n)
    BY <2>2
  <2>3. QED
    BY <2>1, <2>2
<1>three. PICK three \in BOOLEAN : three <=> Len(ast[n].kids) = 3
  OBVIOUS
<1>7. three \/ falls
  BY <1>6, <1>falls, <1>three
<1>8. /\ merge = IF ~ falls THEN << >> ELSE << Block("post", nullptr, << >>) >>
      /\ else = IF three THEN << Block("else", nullptr, << >>) >> ELSE << >>
  <2>1. always_returns[n] = ~ Falls(ast, n)
    BY <1>6, AlwaysReturns
  <2>2. always_returns[n] <=> ~ falls
    BY <1>falls, <2>1
  <2>3. QED
    BY <1>merge, <1>else, <1>three, <2>2, Zenon
<1>new. PICK new : new = first \o merge \o else
  OBVIOUS
<1>a. PICK a : a = Len(merge)
  OBVIOUS
<1>b. PICK b : b = Len(else)
  OBVIOUS
<1>9. /\ NewBlocks(new, f, 1 + a + b)
      /\ a = IF falls THEN 1 ELSE 0
      /\ b = IF three THEN 1 ELSE 0
      /\ (merge = << >> <=> ~ falls) /\ (else = << >> <=> ~ three)
  <2>1. /\ NewBlocks(<< Block("then", f, << >>) >> \o merge \o else, f, 1 + Len(merge) + Len(else))
        /\ Len(merge) = IF falls THEN 1 ELSE 0
        /\ Len(else) = IF three THEN 1 ELSE 0
        /\ (merge = << >> <=> ~ falls) /\ (else = << >> <=> ~ three)
    BY <1>7, <1>8, IfBlocks
  <2>2. first = << Block("then", f, << >>) >>
    BY <1>5, <1>first
  <2>3. QED
    BY <1>a, <1>b, <1>new, <2>1, <2>2, Zenon
<1>fresh. PICK fresh : fresh = 1 + a + b
  OBVIOUS
<1>10. l \in Nat /\ BlockSequence(blocks)
  BY <1>l, SequenceParts DEF IInv, GoodBlocks, BlockSequence
<1>11. /\ m = IF falls THEN l + 1 + 1 ELSE nullptr
       /\ e = IF three THEN l + 1 + a + 1 ELSE m
  BY <1>9, <1>m, <1>e, <1>a
<1>added. PICK added : added = l + 1 .. l + fresh
  OBVIOUS
<1>12. /\ fresh \in Nat /\ fresh # 0
       /\ l + 1 \in added /\ e \in added /\ added \ {l + 1} = {e} \cup ({m} \ {nullptr})
       /\ e \in Nat \ {0} /\ m \in Nat /\ (m # nullptr <=> falls)
       /\ (~ three => e = m) /\ (three => e # m)
  <2>1. LET new1 == l + 1 .. l + (1 + a + b)
        IN  /\ 1 + a + b \in Nat /\ 1 + a + b # 0
            /\ l + 1 \in new1 /\ e \in new1 /\ new1 \ {l + 1} = {e} \cup ({m} \ {nullptr})
            /\ e \in Nat \ {0} /\ m \in Nat /\ (m # nullptr <=> falls)
            /\ (~ three => e = m) /\ (three => e # m)
    <3>1. IfPlacing(l, falls, three, a, b, m, e)
      BY <1>7, <1>9, <1>10, <1>11 DEF IfPlacing
    <3>2. QED
      BY <3>1, IfPlaces
  <2>2. QED
    BY <1>fresh, <1>added, <2>1
<1>13. blocks' = w \o new
  <2>1. IsSequence(w)
    BY <1>10, <1>w, WrittenParts DEF BlockSequence
  <2>2. /\ \A x : IsSequence(<< x >>)
        /\ IsSequence(<< >>)
    BY ShortSequences
  <2>first. IsSequence(first)
    BY <1>first, <2>2
  <2>merge. IsSequence(merge)
    BY <1>8, <2>2
  <2>else. IsSequence(else)
    BY <1>8, <2>2
  <2>4. w \o first \o merge \o else = w \o (first \o merge \o else)
    <3>1. AreSequences(w, first, merge, else)
      BY <2>1, <2>first, <2>merge, <2>else DEF AreSequences
    <3>2. QED
      BY <3>1, Regrouped
  <2>5. QED
    BY <1>1, <1>new, <2>4
<1>p. PICK p : p = l + 1
  OBVIOUS
<1>14. Shape(blocks, blocks', insertBlock, is, {p}, f, fresh)
  <2>1. /\ BlockSequence(new) /\ Len(new) = fresh
        /\ \A i \in 1 .. Len(new) : /\ new[i].function = IF i = 1 THEN f ELSE nullptr
                                    /\ new[i].code = << >>
    BY <1>9, <1>fresh DEF NewBlocks
  <2>2. Shape(blocks, Written(blocks, insertBlock, is) \o new, insertBlock, is,
              {Len(blocks) + 1}, f, Len(new))
    BY <1>10, <1>12, <2>1, AddShape
  <2>3. QED
    BY <1>13, <1>w, <1>l, <1>p, <2>1, <2>2
<1>15. GoodCode(ast, is) /\ Ended(is) /\ TargetsOf(is) = {p, e} /\ is # << >>
  BY <1>2, <1>is, <1>p, CondBrCode
<1>16. Awaits(ast)[Top] = {} /\ Branched(ast)[Top] = {} /\ ComesBack(ast)[Top] = {}
  BY <1>2 DEF Awaits, Branched, ComesBack
<1>17. /\ last \in IfFrames(ast) /\ last.op = "else" /\ last.node = n /\ last.func = f
       /\ last.else_block = e /\ last.merge_block = m
  <2>1. last = [op |-> "else", node |-> n, func |-> f, else_block |-> e, merge_block |-> m]
    BY <1>5, <1>last DEF IfFrame
  <2>2. \/ three /\ Len(ast[n].kids) = 3
        \/ ~ three /\ Len(ast[n].kids) = 2
    BY <1>6, <1>three
  <2>3. QED
    BY <1>6, <1>12, <1>f, <1>falls, <2>1, <2>2 DEF IfFrames
<1>18. last \in Work(ast)
  BY <1>17 DEF Work
<1>19. /\ Owes(ast)[last] = {} /\ ComesBack(ast)[last] = {} /\ Branched(ast)[last] = {e}
       /\ Awaits(ast)[last] = {e} \cup ({m} \ {nullptr})
       /\ Begins(ast)[last] = Context(Goes(ast, s), f)
       /\ Leaves(ast)[last] = Leaves(ast)[Top]
  <2>1. /\ Owes(ast)[last] = {} /\ ComesBack(ast)[last] = {} /\ Branched(ast)[last] = {e}
        /\ Awaits(ast)[last] = {e} \cup ({m} \ {nullptr})
    BY <1>17, <1>18 DEF Owes, ComesBack, Awaits, Branched
  <2>2. Begins(ast)[last] = Context(Falls(ast, s), f)
    BY <1>f, <1>s, <1>17, <1>18 DEF Begins
  <2>3. Leaves(ast)[last] = Leaves(ast)[Top]
    BY <1>2, <1>n, <1>17, <1>18 DEF Leaves
  <2>4. QED
    BY <1>6, <2>1, <2>2, <2>3
<1>held. PICK held : held = Awaits(ast)[Top] \cup added
  OBVIOUS
<1>20. /\ TargetsOf(is) \subseteq held \cup ComesBack(ast)[Top]
       /\ p \in held /\ p \in TargetsOf(is)
       /\ held \ {p} = {e} \cup ({m} \ {nullptr})
  BY <1>12, <1>15, <1>16, <1>held, <1>p
<1>21. Handed(tasks, is, f, held \ {p}, added)
  <2>1. s \in DOMAIN ast
    BY <1>6 DEF NodesOf
  <2>2. Branched(ast)[last] \subseteq TargetsOf(is)
    BY <1>15, <1>19
  <2>3. QED
    BY <1>6, <1>17, <1>18, <1>19, <1>20, <1>tasks, <2>1, <2>2 DEF Handed
<1>22. PlacingStep(tasks, is, p, fresh)
  BY <1>1, <1>2, <1>3, <1>4, <1>12, <1>14, <1>15, <1>20, <1>21, <1>held, <1>added, <1>l, <1>p
     DEF PlacingStep
<1>23. Branching(tasks, is)
  <2>k. PICK k : k = Len(ast[n].kids)
    OBVIOUS
  <2>l. (k = 2 \/ k = 3) => 2 \in 1 .. k
    OBVIOUS
  <2>1. 2 \in 1 .. Len(ast[n].kids)
    BY <1>6, <2>k, <2>l
  <2>2. QED
    BY <1>2, <1>16, <1>17, <1>is, <1>n, <1>s, <1>tasks, <2>1 DEF Branching
<1>24. QED
  BY <1>22, <1>23, PlacingKeeps DEF Placing

(***************************************************************************)
(* Loops.                                                                  *)
(***************************************************************************)
LEMMA WhileParts ==
  ASSUME NEW t, IsProgram(t), NEW n \in DOMAIN t, t[n].kind = "While",
         EnclosingFunction(t, n) # nullptr
  PROVE  /\ n \in NodesOf(t, StatementKinds) /\ n \in NodesOf(t, {"While"})
         /\ EnclosingFunction(t, n) \in FunctionsOf(t)
         /\ Kid(t, n, 1) \in DOMAIN t /\ Goes(t, Kid(t, n, 1)) = TRUE
         /\ Straight(t, EnclosingFunction(t, n), Visit(Kid(t, n, 1)))
         /\ Kid(t, n, 2) \in NodesOf(t, StatementKinds)
         /\ Goes(t, Kid(t, n, 2)) = Falls(t, Kid(t, n, 2))
         /\ Straight(t, EnclosingFunction(t, n), Visit(Kid(t, n, 2)))
         /\ Falls(t, n) /\ Len(t[n].kids) = 2
<1>1. IsTree(t)
  BY DEF IsProgram
<1>2. n \in NodesOf(t, StatementKinds) /\ n \in NodesOf(t, {"While"})
  BY DEF NodesOf, StatementKinds
<1>3. EnclosingFunction(t, n) \in FunctionsOf(t)
  BY InsideNode
<1>4. Len(t[n].kids) = 2 /\ Kid(t, n, 2) \in NodesOf(t, StatementKinds)
  BY <1>1, <1>2, StatementsInside
<1>5. Falls(t, n)
  BY <1>1, <1>2, FallsThrough DEF Falls
<1>6. 1 \in 1 .. Len(t[n].kids) /\ 2 \in 1 .. Len(t[n].kids)
  BY <1>4
<1>7. /\ Straight(t, EnclosingFunction(t, n), Visit(Kid(t, n, 1)))
      /\ Straight(t, EnclosingFunction(t, n), Visit(Kid(t, n, 2)))
  BY <1>6, StraightKid
<1>8. Kid(t, n, 1) \in DOMAIN t /\ t[Kid(t, n, 1)].kind \in ExpressionKinds
  BY <1>1, <1>6, NodeShape DEF KidsFit
<1>9. Goes(t, Kid(t, n, 1)) = TRUE
  BY <1>8 DEF Goes, ExpressionKinds, LiteralKinds, StatementKinds
<1>10. t[Kid(t, n, 2)].kind \in StatementKinds
  BY <1>4 DEF NodesOf
<1>11. Goes(t, Kid(t, n, 2)) = Falls(t, Kid(t, n, 2))
  BY <1>10 DEF Goes, Falls
<1>12. QED
  BY <1>2, <1>3, <1>4, <1>5, <1>7, <1>8, <1>9, <1>11

LEMMA WhileTop ==
  ASSUME IInv, NEW op, op \in {"loop", "post"}, Doing(op, {"While"})
  PROVE  /\ stack # << >> /\ IsProgram(ast) /\ Top \in WhileFrames(ast) /\ Top.op = op
         /\ Top.node \in DOMAIN ast /\ ast[Top.node].kind = "While"
         /\ Top.func = EnclosingFunction(ast, Top.node)
         /\ Top.func \in FunctionsOf(ast) /\ Top.func # nullptr
         /\ Top \in Work(ast) /\ Here = Begins(ast)[Top]
         /\ Leaves(ast)[Top] = Context(TRUE, Top.func)
<1>1. /\ stack # << >> /\ IsProgram(ast) /\ IsTree(ast) /\ Top \in Work(ast)
      /\ Top.node \in DOMAIN ast /\ Here = Begins(ast)[Top]
      /\ Top.op = op /\ ast[Top.node].kind = "While"
  BY TopParts DEF Doing
<1>2. Top \in WhileFrames(ast)
  BY <1>1 DEF Work, PlainTasks, IfFrames
<1>3. Top.func = EnclosingFunction(ast, Top.node) /\ Top.func \in FunctionsOf(ast)
  BY <1>2 DEF WhileFrames
<1>4. Top.func # nullptr
  BY <1>1, <1>3, NodeShape DEF FunctionsOf, NodesOf, nullptr
<1>5. Completes(ast, Top.node) = TRUE
  <2>1. Falls(ast, Top.node)
    BY <1>1, <1>3, <1>4, WhileParts
  <2>2. QED
    BY <1>3, <1>4, <2>1 DEF Completes
<1>6. Leaves(ast)[Top] = Context(Completes(ast, Top.node), EnclosingFunction(ast, Top.node))
  BY <1>1 DEF Leaves
<1>7. QED
  BY <1>1, <1>2, <1>3, <1>4, <1>5, <1>6

LEMMA LoopEntered ==
  ASSUME IInv, EnterLoop
  PROVE  IInv' /\ Placing
<1>n. PICK n : n = Top.node
  OBVIOUS
<1>f. PICK f : f = Top.func
  OBVIOUS
<1>l. PICK l : l = Top.loop
  OBVIOUS
<1>x. PICK x : x = Top.post
  OBVIOUS
<1>c. PICK c : c = Top.check
  OBVIOUS
<1>s. PICK s : s = Kid(ast, n, 2)
  OBVIOUS
<1>is. PICK is : is = << CondBr(n, ValueOf(Kid(ast, n, 1)), l, x) >>
  OBVIOUS
<1>last. PICK last : last = [Top EXCEPT !.op = "post"]
  OBVIOUS
<1>tasks. PICK tasks : tasks = << Visit(s), last >>
  OBVIOUS
<1>op. PICK op : op = "loop"
  OBVIOUS
<1>new. PICK new : new = Len(blocks) + 1 .. Len(blocks) + 0
  OBVIOUS
<1>1. /\ Doing(op, {"While"})
      /\ blocks' = Inserted(Written(blocks, insertBlock, is), l, f)
      /\ insertBlock' = l
      /\ Continue(tasks)
      /\ UNCHANGED << ast, fields, ir_value >>
  BY <1>n, <1>f, <1>l, <1>x, <1>s, <1>is, <1>last, <1>tasks, <1>op, Zenon DEF EnterLoop
<1>2. /\ stack # << >> /\ IsProgram(ast) /\ Top \in WhileFrames(ast) /\ Top.op = "loop"
      /\ n \in DOMAIN ast /\ ast[n].kind = "While"
      /\ f = EnclosingFunction(ast, n) /\ f \in FunctionsOf(ast) /\ f # nullptr
      /\ Top \in Work(ast) /\ Here = Begins(ast)[Top]
      /\ Leaves(ast)[Top] = Context(TRUE, f)
  BY <1>1, <1>n, <1>f, <1>op, WhileTop
<1>3. /\ s \in NodesOf(ast, StatementKinds) /\ s \in DOMAIN ast
      /\ Goes(ast, s) = Falls(ast, s) /\ Straight(ast, f, Visit(s))
      /\ n \in NodesOf(ast, {"While"})
  BY <1>2, <1>s, WhileParts DEF NodesOf
<1>4. l \in Nat \ {0} /\ x \in Nat \ {0} /\ c \in Nat \ {0} /\ l # x
  BY <1>2, <1>l, <1>x, <1>c DEF WhileFrames
<1>5. /\ Awaits(ast)[Top] = {l, x} /\ Branched(ast)[Top] = {} /\ ComesBack(ast)[Top] = {c}
      /\ Here = Context(EnclosingFunction(ast, n) # nullptr, EnclosingFunction(ast, n))
  BY <1>2, <1>n, <1>l, <1>x, <1>c DEF Awaits, Branched, ComesBack, Begins
<1>6. Here.in = f /\ Here.open = TRUE
  <2>1. (EnclosingFunction(ast, n) # nullptr) = TRUE
    BY <1>2
  <2>2. Here = Context(TRUE, EnclosingFunction(ast, n))
    BY <1>5, <2>1, Zenon
  <2>3. Here = Context(TRUE, f)
    BY <1>2, <2>2
  <2>4. QED
    BY <2>3 DEF Context
<1>7. GoodCode(ast, is) /\ Ended(is) /\ TargetsOf(is) = {l, x} /\ is # << >>
  BY <1>2, <1>is, CondBrCode
<1>8. new = {}
  <2>1. Len(blocks) \in Nat
    BY SequenceParts DEF IInv, GoodBlocks, BlockSequence
  <2>2. QED
    BY <1>new, <2>1
<1>9. Shape(blocks, blocks', insertBlock, is, {l}, f, 0)
  <2>1. BlockSequence(blocks)
    BY DEF IInv, GoodBlocks
  <2>2. QED
    BY <1>1, <2>1, InsertShape
<1>10. /\ last \in WhileFrames(ast) /\ last.op = "post" /\ last.node = n /\ last.func = f
       /\ last.post = x /\ last.check = c
  <2>1. Top = [op |-> Top.op, node |-> n, func |-> f, check |-> c, loop |-> l, post |-> x]
    BY <1>2, <1>n, <1>f, <1>l, <1>x, <1>c DEF WhileFrames
  <2>2. last = [op |-> "post", node |-> n, func |-> f, check |-> c, loop |-> l, post |-> x]
    BY <1>last, <2>1
  <2>3. QED
    BY <1>2, <1>3, <1>4, <2>2 DEF WhileFrames
<1>11. last \in Work(ast)
  BY <1>10 DEF Work
<1>12. /\ Owes(ast)[last] = {} /\ ComesBack(ast)[last] = {c}
       /\ Awaits(ast)[last] = {x} /\ Branched(ast)[last] = {x}
       /\ Begins(ast)[last] = Context(Falls(ast, s), f)
  BY <1>2, <1>10, <1>11, <1>s DEF Owes, ComesBack, Awaits, Branched, Begins
<1>13. Leaves(ast)[last] = Leaves(ast)[Top]
  BY <1>2, <1>n, <1>10, <1>11 DEF Leaves
<1>14. Begins(ast)[last] = Context(Goes(ast, s), f)
  BY <1>3, <1>12
<1>15. PICK left : left = (Awaits(ast)[Top] \cup new) \ {l}
  OBVIOUS
<1>16. left = {x}
  BY <1>4, <1>5, <1>8, <1>15
<1>17. Handed(tasks, is, f, left, new)
  BY <1>3, <1>5, <1>7, <1>10, <1>11, <1>12, <1>13, <1>14, <1>16, <1>tasks DEF Handed
<1>18. PlacingStep(tasks, is, l, 0)
  BY <1>1, <1>2, <1>5, <1>6, <1>7, <1>9, <1>15, <1>17, <1>new DEF PlacingStep
<1>19. Branching(tasks, is)
  <2>1. 2 \in 1 .. Len(ast[n].kids)
    <3>1. Len(ast[n].kids) = 2
      BY <1>2, WhileParts
    <3>2. QED
      BY <3>1
  <2>2. QED
    BY <1>2, <1>6, <1>10, <1>f, <1>is, <1>n, <1>s, <1>tasks, <2>1 DEF Branching
<1>20. QED
  BY <1>18, <1>19, PlacingKeeps DEF Placing

LEMMA WhileFinished ==
  ASSUME IInv, FinishWhile
  PROVE  IInv' /\ Placing
<1>n. PICK n : n = Top.node
  OBVIOUS
<1>f. PICK f : f = Top.func
  OBVIOUS
<1>x. PICK x : x = Top.post
  OBVIOUS
<1>c. PICK c : c = Top.check
  OBVIOUS
<1>s. PICK s : s = Kid(ast, n, 2)
  OBVIOUS
<1>is. PICK is : is = GoTo(n, s, c)
  OBVIOUS
<1>tasks. PICK tasks : tasks = << >>
  OBVIOUS
<1>op. PICK op : op = "post"
  OBVIOUS
<1>new. PICK new : new = Len(blocks) + 1 .. Len(blocks) + 0
  OBVIOUS
<1>1. /\ Doing(op, {"While"})
      /\ blocks' = Inserted(Written(blocks, insertBlock, is), x, f)
      /\ insertBlock' = x
      /\ Continue(tasks)
      /\ UNCHANGED << ast, fields, ir_value >>
  BY <1>n, <1>f, <1>x, <1>c, <1>s, <1>is, <1>tasks, <1>op, Zenon DEF FinishWhile
<1>2. /\ stack # << >> /\ IsProgram(ast) /\ Top \in WhileFrames(ast) /\ Top.op = "post"
      /\ n \in DOMAIN ast /\ ast[n].kind = "While"
      /\ f = EnclosingFunction(ast, n) /\ f \in FunctionsOf(ast) /\ f # nullptr
      /\ Top \in Work(ast) /\ Here = Begins(ast)[Top]
      /\ Leaves(ast)[Top] = Context(TRUE, f)
  BY <1>1, <1>n, <1>f, <1>op, WhileTop
<1>3. s \in NodesOf(ast, StatementKinds)
  BY <1>2, <1>s, WhileParts
<1>5. /\ Awaits(ast)[Top] = {x} /\ Branched(ast)[Top] = {x} /\ ComesBack(ast)[Top] = {c}
      /\ Here = Context(Falls(ast, s), f)
  BY <1>2, <1>n, <1>s, <1>x, <1>c DEF Awaits, Branched, ComesBack, Begins
<1>6. Here.in = f /\ Here.open = Falls(ast, s)
  BY <1>5 DEF Context
<1>7. /\ GoodCode(ast, is)
      /\ Falls(ast, s) => Ended(is) /\ TargetsOf(is) = {c}
      /\ ~ Falls(ast, s) => is = << >> /\ TargetsOf(is) = {}
      /\ is = << >> \/ is = << Br(n, c) >>
  BY <1>2, <1>3, <1>is, GoToCode
<1>8. new = {}
  <2>1. Len(blocks) \in Nat
    BY SequenceParts DEF IInv, GoodBlocks, BlockSequence
  <2>2. QED
    BY <1>new, <2>1
<1>9. Shape(blocks, blocks', insertBlock, is, {x}, f, 0)
  <2>1. BlockSequence(blocks)
    BY DEF IInv, GoodBlocks
  <2>2. QED
    BY <1>1, <2>1, InsertShape
<1>10. PICK left : left = (Awaits(ast)[Top] \cup new) \ {x}
  OBVIOUS
<1>11. Handed(tasks, is, f, left, new)
  BY <1>2, <1>5, <1>8, <1>10, <1>tasks DEF Handed
<1>12. PlacingStep(tasks, is, x, 0)
  BY <1>1, <1>2, <1>5, <1>6, <1>7, <1>9, <1>10, <1>11, <1>new DEF PlacingStep
<1>13. Branching(tasks, is)
  BY <1>2, <1>3, <1>6, <1>7, <1>f, <1>n, <1>tasks DEF Branching
<1>14. QED
  BY <1>12, <1>13, PlacingKeeps DEF Placing

\* A branch.
LEMMA BrCode ==
  ASSUME NEW t, NEW n \in DOMAIN t, NEW b, NEW is, is = << Br(n, b) >>
  PROVE  GoodCode(t, is) /\ Ended(is) /\ TargetsOf(is) = {b} /\ is # << >>
<1>1. PICK i : i = Br(n, b)
  OBVIOUS
<1>2. i.op = "br" /\ i.at = n /\ i.targets = << b >>
  BY <1>1 DEF Br, Instruction
<1>3. Range(i.targets) = {b}
  BY <1>2 DEF Range
<1>4. /\ GoodCode(t, << i >>) /\ TargetsOf(<< i >>) = Range(i.targets) /\ << i >> # << >>
      /\ Ended(<< i >>) <=> i.op \in Terminators
  BY <1>2, OneInstruction
<1>5. QED
  BY <1>1, <1>2, <1>3, <1>4 DEF Terminators

LEMMA WhileVisited ==
  ASSUME IInv, VisitWhile
  PROVE  IInv' /\ Placing
<1>n. PICK n : n = Top.node
  OBVIOUS
<1>f. PICK f : f = EnclosingFunction(ast, n)
  OBVIOUS
<1>func. PICK func : func = blocks[insertBlock].function
  OBVIOUS
<1>c. PICK c : c = Len(blocks) + 1
  OBVIOUS
<1>l. PICK l : l = c + 1
  OBVIOUS
<1>x. PICK x : x = c + 2
  OBVIOUS
<1>s. PICK s : s = Kid(ast, n, 1)
  OBVIOUS
<1>is. PICK is : is = << Br(n, c) >>
  OBVIOUS
<1>last. PICK last : last = WhileFrame("loop", n, func, c, l, x)
  OBVIOUS
<1>tasks. PICK tasks : tasks = << Visit(s), last >>
  OBVIOUS
<1>w. PICK w : w = Written(blocks, insertBlock, is)
  OBVIOUS
<1>new. PICK new : new = << Block("check", func, << >>), Block("loop", nullptr, << >>),
                            Block("post", nullptr, << >>) >>
  OBVIOUS
<1>op. PICK op : op = "visit"
  OBVIOUS
<1>1. /\ Doing(op, {"While"})
      /\ blocks' = w \o new
      /\ insertBlock' = c
      /\ Continue(tasks)
      /\ UNCHANGED << ast, fields, ir_value >>
  BY <1>n, <1>func, <1>c, <1>l, <1>x, <1>s, <1>is, <1>last, <1>tasks, <1>w, <1>new, <1>op,
     Zenon DEF VisitWhile, Visiting
<1>2. /\ stack # << >> /\ IsProgram(ast) /\ Top \in Work(ast)
      /\ n \in DOMAIN ast /\ ast[n].kind = "While" /\ Top.op = "visit"
  BY <1>1, <1>n, <1>op, TopParts DEF Doing
<1>3. f # nullptr /\ Here = Context(TRUE, f)
  <2>1. {"While"} \cap {"Program", "Function", "Variable", "Array"} = {}
    OBVIOUS
  <2>2. QED
    BY <1>1, <1>n, <1>f, <1>op, <2>1, TopInside
<1>4. Here.open = TRUE /\ Here.in = f
  BY <1>3 DEF Context
<1>5. func = f
  BY <1>3, <1>4, <1>func, FunctionHere
<1>6. /\ s \in DOMAIN ast /\ Goes(ast, s) = TRUE /\ Straight(ast, f, Visit(s))
      /\ n \in NodesOf(ast, {"While"}) /\ f \in FunctionsOf(ast)
      /\ Falls(ast, n)
  BY <1>2, <1>3, <1>f, <1>s, WhileParts
<1>7. c \in Nat \ {0} /\ l \in Nat \ {0} /\ x \in Nat \ {0} /\ l # x /\ Len(blocks) \in Nat
  <2>1. Len(blocks) \in Nat
    BY SequenceParts DEF IInv, GoodBlocks, BlockSequence
  <2>2. QED
    BY <1>c, <1>l, <1>x, <2>1
<1>added. PICK added : added = Len(blocks) + 1 .. Len(blocks) + 3
  OBVIOUS
<1>8. added = {c, l, x} /\ c # l /\ c # x
  <2>1. PICK k : k = Len(blocks)
    OBVIOUS
  <2>2. k \in Nat
    BY <1>7, <2>1
  <2>3. c = k + 1 /\ l = k + 2 /\ x = k + 3 /\ added = k + 1 .. k + 3
    BY <1>c, <1>l, <1>x, <1>added, <2>1, <2>2
  <2>4. \A i : i \in k + 1 .. k + 3 <=> i = k + 1 \/ i = k + 2 \/ i = k + 3
    BY <2>2
  <2>5. QED
    BY <2>2, <2>3, <2>4
<1>9. Shape(blocks, blocks', insertBlock, is, {c}, f, 3)
  <2>1. NewBlocks(new, func, 3)
    BY <1>new, ThreeNewBlocks
  <2>2. /\ BlockSequence(new) /\ Len(new) = 3 /\ Len(new) # 0
        /\ \A i \in 1 .. Len(new) : /\ new[i].function = IF i = 1 THEN f ELSE nullptr
                                    /\ new[i].code = << >>
    BY <1>5, <2>1 DEF NewBlocks
  <2>3. BlockSequence(blocks)
    BY DEF IInv, GoodBlocks
  <2>4. Shape(blocks, Written(blocks, insertBlock, is) \o new, insertBlock, is,
              {Len(blocks) + 1}, f, Len(new))
    BY <2>2, <2>3, AddShape
  <2>5. QED
    BY <1>1, <1>w, <1>c, <2>2, <2>4
<1>10. GoodCode(ast, is) /\ Ended(is) /\ TargetsOf(is) = {c} /\ is # << >>
  BY <1>2, <1>is, BrCode
<1>11. Awaits(ast)[Top] = {} /\ Branched(ast)[Top] = {} /\ ComesBack(ast)[Top] = {}
  BY <1>2 DEF Awaits, Branched, ComesBack
<1>12. /\ last \in WhileFrames(ast) /\ last.op = "loop" /\ last.node = n /\ last.func = f
       /\ last.check = c /\ last.loop = l /\ last.post = x
  <2>1. last = [op |-> "loop", node |-> n, func |-> f, check |-> c, loop |-> l, post |-> x]
    BY <1>5, <1>last DEF WhileFrame
  <2>2. QED
    BY <1>6, <1>7, <1>f, <2>1 DEF WhileFrames
<1>13. last \in Work(ast)
  BY <1>12 DEF Work
<1>14. /\ Owes(ast)[last] = {} /\ ComesBack(ast)[last] = {c}
       /\ Awaits(ast)[last] = {l, x} /\ Branched(ast)[last] = {}
       /\ Begins(ast)[last] = Context(EnclosingFunction(ast, n) # nullptr, EnclosingFunction(ast, n))
  <2>1. ast[last.node].kind # "Function"
    BY <1>2, <1>12
  <2>2. QED
    BY <1>12, <1>13, <2>1 DEF Owes, ComesBack, Awaits, Branched, Begins
<1>15. Leaves(ast)[last] = Leaves(ast)[Top]
  BY <1>2, <1>n, <1>12, <1>13 DEF Leaves
<1>16. Begins(ast)[last] = Context(Goes(ast, s), f)
  <2>1. (EnclosingFunction(ast, n) # nullptr) = TRUE
    BY <1>3, <1>f
  <2>2. QED
    BY <1>6, <1>14, <1>f, <2>1, Zenon
<1>17. PICK left : left = (Awaits(ast)[Top] \cup added) \ {c}
  OBVIOUS
<1>18. left = {l, x}
  BY <1>8, <1>11, <1>17
<1>19. Handed(tasks, is, f, left, added)
  BY <1>6, <1>8, <1>11, <1>12, <1>13, <1>14, <1>15, <1>16, <1>18, <1>tasks DEF Handed
<1>20. PlacingStep(tasks, is, c, 3)
  BY <1>1, <1>2, <1>3, <1>4, <1>8, <1>9, <1>10, <1>11, <1>17, <1>19, <1>added DEF PlacingStep
<1>21. Branching(tasks, is)
  <2>1. 1 \in 1 .. Len(ast[n].kids)
    <3>1. Len(ast[n].kids) = 2
      BY <1>2, <1>3, <1>f, WhileParts
    <3>2. QED
      BY <3>1
  <2>2. QED
    BY <1>2, <1>11, <1>12, <1>is, <1>n, <1>s, <1>tasks, <2>1 DEF Branching
<1>22. QED
  BY <1>20, <1>21, PlacingKeeps DEF Placing

(***************************************************************************)
(* The program and its functions.                                          *)
(***************************************************************************)
TopStep(tasks, done) ==
  /\ stack # << >> /\ tasks \in Seq(Work(ast)) /\ Continue(tasks)
  /\ UNCHANGED << ast, fields >>
  /\ DOMAIN ir_value' \subseteq BuiltinDecls \cup DOMAIN ast
  /\ Replaces(tasks, done, Owes(ast), Owes(ast))
  /\ Replaces(tasks, {}, Awaits(ast), Awaits(ast))
  /\ Leads(tasks, Begins(ast), Leaves(ast), NextHere(tasks))
  /\ 1 \notin Pending(stack, Owes(ast)) \ done
  /\ GoodBlocks(ast, blocks')
  /\ \E home : Layout(ast, stack', blocks', NextHere(tasks), insertBlock', home)

LEMMA TopKeeps ==
  ASSUME IInv, NEW tasks, NEW done, TopStep(tasks, done)
  PROVE  IInv'
<1>1. /\ stack # << >> /\ tasks \in Seq(Work(ast)) /\ Continue(tasks) /\ ast' = ast
      /\ Replaces(tasks, done, Owes(ast), Owes(ast))
      /\ Replaces(tasks, {}, Awaits(ast), Awaits(ast))
      /\ Leads(tasks, Begins(ast), Leaves(ast), NextHere(tasks))
      /\ 1 \notin Pending(stack, Owes(ast)) \ done
      /\ GoodBlocks(ast, blocks')
      /\ \E home : Layout(ast, stack', blocks', NextHere(tasks), insertBlock', home)
  BY DEF TopStep
<1>2. /\ ast \in Programs /\ stack \in Seq(Work(ast)) /\ Passed /\ InOrder
  BY DEF IInv
<1>3. /\ Here' = NextHere(tasks)
      /\ stack' \in Seq(Work(ast'))
  BY <1>1, NextIsHere
<1>4. Passed' /\ DOMAIN ir_value' \subseteq BuiltinDecls \cup DOMAIN ast'
  BY <1>1, <1>2, PassedStays DEF TopStep
<1>owes. PICK owes : owes = Owes(ast)
  OBVIOUS
<1>awaits. PICK awaits : awaits = Awaits(ast)
  OBVIOUS
<1>5. StackInTurn(stack, owes, owes) /\ StackInTurn(stack, awaits, awaits)
  BY <1>2, <1>owes, <1>awaits DEF InOrder
<1>6. StackInTurn(stack', owes, owes) /\ Pending(stack', owes) = Pending(stack, owes) \ done
  BY <1>1, <1>2, <1>5, <1>owes, WalkStep
<1>7. StackInTurn(stack', awaits, awaits)
  <2>1. Replaces(tasks, {}, awaits, awaits)
    BY <1>1, <1>awaits
  <2>d. PICK d : d = {}
    OBVIOUS
  <2>2. QED
    BY <1>1, <1>2, <1>5, <2>1, <2>d, WalkStep
<1>8. Chained(stack', Begins(ast), Leaves(ast), Here', End)
  <2>1. Chained(stack, Begins(ast), Leaves(ast), Here, End)
    BY <1>2 DEF InOrder
  <2>b. PICK b : b = Begins(ast)
    OBVIOUS
  <2>a. PICK a : a = Leaves(ast)
    OBVIOUS
  <2>last. PICK last : last = End
    OBVIOUS
  <2>here. PICK here : here = Here
    OBVIOUS
  <2>here2. PICK here2 : here2 = NextHere(tasks)
    OBVIOUS
  <2>2. Chained(stack, b, a, here, last) /\ Leads(tasks, b, a, here2)
    BY <1>1, <2>1, <2>b, <2>a, <2>last, <2>here, <2>here2
  <2>3. Chained(stack', b, a, here2, last)
    BY <1>1, <1>2, <2>2, ContextStep
  <2>4. QED
    BY <1>3, <2>3, <2>b, <2>a, <2>last, <2>here2
<1>9. InOrder'
  <2>1. StackInTurn(stack', Owes(ast'), Owes(ast')) /\ StackInTurn(stack', Awaits(ast'), Awaits(ast'))
    BY <1>1, <1>6, <1>7, <1>owes, <1>awaits
  <2>2. Chained(stack', Begins(ast'), Leaves(ast'), Here', End)
    BY <1>1, <1>8
  <2>h. PICK h : h = Here'
    OBVIOUS
  <2>3. QED
    BY <2>1, <2>2, <2>h DEF InOrder, End, Context
<1>10. 1 \notin Pending(stack', Owes(ast'))
  BY <1>1, <1>6, <1>owes
<1>11. GoodBlocks(ast', blocks') /\ \E home : Layout(ast', stack', blocks', Here', insertBlock', home)
  BY <1>1, <1>3
<1>12. ast' \in Programs
  BY <1>1, <1>2
<1>h. PICK h : h = Here'
  OBVIOUS
<1>13. QED
  BY <1>3, <1>4, <1>9, <1>10, <1>11, <1>12, <1>h DEF IInv

\* A visit at the top of the tree.
TopLevelTask(t, n) ==
  /\ Visit(n) \in Work(t)
  /\ Owes(t)[Visit(n)] = IF n = 1 THEN {1} \cup FunctionsOf(t) ELSE {n} \cap FunctionsOf(t)
  /\ Awaits(t)[Visit(n)] = {} /\ ComesBack(t)[Visit(n)] = {}
  /\ Begins(t)[Visit(n)] = Context(FALSE, nullptr)
  /\ Leaves(t)[Visit(n)] = Context(FALSE, nullptr)

LEMMA TopTask ==
  ASSUME NEW t, IsProgram(t), NEW n \in DOMAIN t, IsTopLevel(t, n)
  PROVE  TopLevelTask(t, n)
<1>1. IsTree(t)
  BY DEF IsProgram
<1>2. EnclosingFunction(t, n) = nullptr
  BY EnclosingTop DEF IsTopLevel
<1>3. Visit(n).op = "visit" /\ Visit(n).node = n
  BY DEF Visit
<1>4. Visit(n) \in Work(t)
  BY DEF Work, PlainTasks, Visit
<1>5. Begins(t)[Visit(n)] = Context(EnclosingFunction(t, n) # nullptr, EnclosingFunction(t, n))
  BY <1>3, <1>4 DEF Begins
<1>6. Leaves(t)[Visit(n)] = Context(Completes(t, n), EnclosingFunction(t, n))
  BY <1>3, <1>4 DEF Leaves
<1>7. Completes(t, n) = FALSE /\ (EnclosingFunction(t, n) # nullptr) = FALSE
  BY <1>2 DEF Completes
<1>8. /\ Awaits(t)[Visit(n)] = {} /\ ComesBack(t)[Visit(n)] = {}
      /\ Owes(t)[Visit(n)] = IF n = 1 THEN {1} \cup FunctionsOf(t) ELSE {n} \cap FunctionsOf(t)
  BY <1>3, <1>4 DEF Awaits, ComesBack, Owes
<1>9. QED
  BY <1>2, <1>4, <1>5, <1>6, <1>7, <1>8 DEF TopLevelTask

\* The visit of the program or of a function.
LEMMA TopVisit ==
  ASSUME IInv, NEW kind, kind \in {"Program", "Function"}, Visiting({kind})
  PROVE  /\ stack # << >> /\ Top = Visit(Top.node) /\ Top.node \in DOMAIN ast
         /\ ast[Top.node].kind = kind /\ IsTopLevel(ast, Top.node)
         /\ kind = "Program" => Top.node = 1
         /\ kind = "Function" => Top.node \in FunctionsOf(ast) /\ Top.node # 1
<1>1. /\ stack # << >> /\ Top.op = "visit" /\ Top.node \in DOMAIN ast
      /\ ast[Top.node].kind = kind
      /\ IsProgram(ast) /\ IsTree(ast) /\ Top \in Work(ast)
  BY TopParts DEF Visiting, Doing
<1>2. Top \in PlainTasks(ast)
  BY <1>1 DEF Work, IfFrames, WhileFrames
<1>3. Top = Visit(Top.node)
  BY <1>1, <1>2 DEF PlainTasks, Visit
<1>4. Top.node = 1 \/ \E i \in 1 .. Len(ast[1].kids) : Top.node = Kid(ast, 1, i)
  BY <1>1, KidsOfRoot
<1>5. ast[1].kind = "Program"
  BY <1>1 DEF IsProgram
<1>6. ASSUME kind = "Program" PROVE Top.node = 1
  <2>1. \A i \in 1 .. Len(ast[1].kids) : ast[Kid(ast, 1, i)].kind \in {"Variable", "Array", "Function"}
    <3>1. 1 \in DOMAIN ast
      BY <1>1, NodeShape
    <3>2. QED
      BY <1>1, <1>5, <3>1, NodeShape DEF KidsFit
  <2>2. QED
    BY <1>1, <1>4, <1>6, <2>1
<1>7. QED
  BY <1>1, <1>3, <1>4, <1>5, <1>6 DEF IsTopLevel, FunctionsOf, NodesOf

\* An instruction that the program does not branch with.
Builtin(i, b, op) ==
  i.op = op /\ i.at = b /\ i.targets = << >>

LEMMA BuiltinCode ==
  ASSUME NEW t, IsTree(t), NEW b \in BuiltinDecls, NEW code, IsSequence(code),
         Len(code) # 0,
         \A i \in 1 .. Len(code) :
           \E op : Builtin(code[i], b, op) /\ (op \in Terminators <=> i = Len(code))
  PROVE  GoodCode(t, code) /\ Ended(code) /\ TargetsOf(code) = {}
<1>1. Len(code) \in 1 .. Len(code) /\ code # << >>
  <2>1. Len(code) \in Nat
    BY SequenceParts
  <2>2. code # << >>
    BY EmptySeq DEF IsSequence
  <2>3. QED
    BY <2>1, <2>2
<1>2. b \notin FunctionsOf(t)
  <2>1. DOMAIN t = 1 .. Len(t) /\ Len(t) \in Nat
    BY DEF IsTree
  <2>2. \A k \in 1 .. Len(t) : k # -1 /\ k # -2
    BY <2>1
  <2>3. QED
    BY <2>1, <2>2 DEF FunctionsOf, NodesOf, BuiltinDecls
<1>3. ASSUME NEW i \in 1 .. Len(code)
      PROVE  /\ code[i].at = b /\ Range(code[i].targets) = {}
             /\ code[i].op \in Terminators <=> i = Len(code)
  <2>1. PICK op : Builtin(code[i], b, op) /\ (op \in Terminators <=> i = Len(code))
    OBVIOUS
  <2>2. code[i].targets = << >>
    BY <2>1 DEF Builtin
  <2>3. Range(code[i].targets) = {}
    BY <2>2 DEF Range
  <2>4. QED
    BY <2>1, <2>3 DEF Builtin
<1>4. GoodCode(t, code)
  BY <1>2, <1>3 DEF GoodCode
<1>5. Ended(code)
  BY <1>1, <1>3 DEF Ended
<1>6. TargetsOf(code) = {}
  BY <1>3 DEF TargetsOf
<1>7. QED
  BY <1>4, <1>5, <1>6

LEMMA InputGood ==
  ASSUME NEW t, IsTree(t)
  PROVE  GoodCode(t, InputCode) /\ Ended(InputCode) /\ TargetsOf(InputCode) = {}
<1>b. PICK b : b = -1
  OBVIOUS
<1>1. PICK i1 : i1 = Alloca(b)
  OBVIOUS
<1>2. PICK i3 : i3 = Load(b, Result(i1))
  OBVIOUS
<1>3. PICK i2 : i2 = CallOf(b, << Value("scanf", -1, {}), Value("scan_format", -1, {}), Result(i1) >>)
  OBVIOUS
<1>4. PICK i4 : i4 = Ret(b, Result(i3))
  OBVIOUS
<1>5. InputCode = << i1, i2, i3, i4 >>
  BY <1>b, <1>1, <1>2, <1>3, <1>4, Zenon DEF InputCode
<1>6. /\ Builtin(i1, b, "alloca") /\ Builtin(i2, b, "call")
      /\ Builtin(i3, b, "load") /\ Builtin(i4, b, "ret")
  BY <1>1, <1>2, <1>3, <1>4 DEF Builtin, Alloca, Load, CallOf, Ret, Instruction
<1>7. PICK code : code = << i1, i2, i3, i4 >>
  OBVIOUS
<1>8. /\ Len(code) = 4 /\ code = [i \in 1 .. 4 |-> code[i]]
      /\ code[1] = i1 /\ code[2] = i2 /\ code[3] = i3 /\ code[4] = i4
  BY <1>7
<1>9. IsSequence(code)
  <2>n. PICK n : n = 4
    OBVIOUS
  <2>1. n \in Nat /\ code = [i \in 1 .. n |-> code[i]]
    BY <1>8, <2>n
  <2>2. QED
    BY <2>1, SequenceMade
<1>10. \A i \in 1 .. 4 : i = 1 \/ i = 2 \/ i = 3 \/ i = 4
  OBVIOUS
<1>11. ASSUME NEW i \in 1 .. Len(code)
       PROVE  \E op : Builtin(code[i], b, op) /\ (op \in Terminators <=> i = Len(code))
  <2>1. /\ "alloca" \notin Terminators /\ "call" \notin Terminators /\ "load" \notin Terminators
        /\ "ret" \in Terminators
    BY DEF Terminators
  <2>2. i = 1 \/ i = 2 \/ i = 3 \/ i = 4
    BY <1>8, <1>10
  <2>3. CASE i = 1
    BY <1>6, <1>8, <2>1, <2>3
  <2>4. CASE i = 2
    BY <1>6, <1>8, <2>1, <2>4
  <2>5. CASE i = 3
    BY <1>6, <1>8, <2>1, <2>5
  <2>6. CASE i = 4
    BY <1>6, <1>8, <2>1, <2>6
  <2>7. QED
    BY <2>2, <2>3, <2>4, <2>5, <2>6
<1>12. b \in BuiltinDecls /\ Len(code) # 0
  BY <1>b, <1>8 DEF BuiltinDecls
<1>13. GoodCode(t, code) /\ Ended(code) /\ TargetsOf(code) = {}
  BY <1>9, <1>11, <1>12, BuiltinCode
<1>14. QED
  BY <1>5, <1>7, <1>13

LEMMA OutputGood ==
  ASSUME NEW t, IsTree(t)
  PROVE  GoodCode(t, OutputCode) /\ Ended(OutputCode) /\ TargetsOf(OutputCode) = {}
<1>b. PICK b : b = -2
  OBVIOUS
<1>1. PICK i1 : i1 = CallOf(b, << Value("printf", -2, {}), Value("print_format", -2, {}),
                                 Value("argument", -2, {}) >>)
  OBVIOUS
<1>2. PICK i2 : i2 = RetVoid(b)
  OBVIOUS
<1>3. OutputCode = << i1, i2 >>
  BY <1>b, <1>1, <1>2, Zenon DEF OutputCode
<1>4. Builtin(i1, b, "call") /\ Builtin(i2, b, "ret")
  BY <1>1, <1>2 DEF Builtin, CallOf, RetVoid, Instruction
<1>5. PICK code : code = << i1, i2 >>
  OBVIOUS
<1>6. IsSequence(code) /\ Len(code) = 2 /\ code[1] = i1 /\ code[2] = i2
  BY <1>5, ShortSequences
<1>7. ASSUME NEW i \in 1 .. Len(code)
      PROVE  \E op : Builtin(code[i], b, op) /\ (op \in Terminators <=> i = Len(code))
  <2>1. "call" \notin Terminators /\ "ret" \in Terminators
    BY DEF Terminators
  <2>2. i = 1 \/ i = 2
    BY <1>6
  <2>3. CASE i = 1
    BY <1>4, <1>6, <2>1, <2>3
  <2>4. CASE i = 2
    BY <1>4, <1>6, <2>1, <2>4
  <2>5. QED
    BY <2>2, <2>3, <2>4
<1>8. b \in BuiltinDecls /\ Len(code) # 0
  BY <1>b, <1>6 DEF BuiltinDecls
<1>9. GoodCode(t, code) /\ Ended(code) /\ TargetsOf(code) = {}
  BY <1>6, <1>7, <1>8, BuiltinCode
<1>10. QED
  BY <1>3, <1>5, <1>9

\* The declarations at the top, one after the other.
LEMMA ProgramTasks ==
  ASSUME IInv, VisitProgram, NEW tasks, tasks = VisitAll(Kids(ast, 1))
  PROVE  /\ tasks \in Seq(Work(ast))
         /\ \A i \in 1 .. Len(tasks) :
              Awaits(ast)[tasks[i]] = {} /\ ComesBack(ast)[tasks[i]] = {}
         /\ Replaces(tasks, {1}, Owes(ast), Owes(ast))
         /\ Replaces(tasks, {}, Awaits(ast), Awaits(ast))
         /\ Leads(tasks, Begins(ast), Leaves(ast), NextHere(tasks))
         /\ NextHere(tasks) = Context(FALSE, nullptr)
<1>0. Visiting({"Program"})
  BY DEF VisitProgram
<1>1. /\ stack # << >> /\ Top = Visit(1) /\ IsTopLevel(ast, 1) /\ ast[1].kind = "Program"
      /\ 1 \in DOMAIN ast
  <2>k. PICK kind : kind = "Program"
    OBVIOUS
  <2>1. Visiting({kind}) /\ kind \in {"Program", "Function"}
    BY <1>0, <2>k
  <2>2. QED
    BY <2>1, <2>k, TopVisit
<1>2. IsProgram(ast) /\ IsTree(ast)
  BY <1>1, TopParts
<1>l. PICK l : l = Len(ast[1].kids)
  OBVIOUS
<1>3. /\ l \in Nat /\ IsSequence(Kids(ast, 1)) /\ Len(Kids(ast, 1)) = l
      /\ \A i \in 1 .. l : Kids(ast, 1)[i] = Kid(ast, 1, i)
  BY <1>1, <1>2, <1>l, KidsSequence, SequenceOf
<1>4. /\ IsSequence(tasks) /\ Len(tasks) = l
      /\ \A i \in 1 .. l : tasks[i] = Visit(Kid(ast, 1, i))
  BY <1>3, VisitAllParts
<1>5. ASSUME NEW i \in 1 .. l
      PROVE  /\ Kid(ast, 1, i) \in DOMAIN ast /\ Kid(ast, 1, i) # 1
             /\ IsTopLevel(ast, Kid(ast, 1, i))
  <2>1. Kid(ast, 1, i) \in DOMAIN ast /\ 1 < Kid(ast, 1, i) /\ Kid(ast, 1, i) \in Nat
    BY <1>1, <1>2, <1>l, NodeShape, KidsInside
  <2>2. QED
    BY <1>l, <2>1 DEF IsTopLevel
<1>F. PICK F : F = FunctionsOf(ast)
  OBVIOUS
<1>6. ASSUME NEW i \in 1 .. l
      PROVE  /\ tasks[i] \in Work(ast)
             /\ Owes(ast)[tasks[i]] = {Kid(ast, 1, i)} \cap F
             /\ Awaits(ast)[tasks[i]] = {} /\ ComesBack(ast)[tasks[i]] = {}
             /\ Begins(ast)[tasks[i]] = Context(FALSE, nullptr)
             /\ Leaves(ast)[tasks[i]] = Context(FALSE, nullptr)
  <2>n. PICK n : n = Kid(ast, 1, i)
    OBVIOUS
  <2>1. n \in DOMAIN ast /\ n # 1 /\ IsTopLevel(ast, n) /\ tasks[i] = Visit(n)
    BY <1>4, <1>5, <2>n
  <2>2. /\ Visit(n) \in Work(ast)
        /\ Owes(ast)[Visit(n)] = IF n = 1 THEN {1} \cup FunctionsOf(ast) ELSE {n} \cap FunctionsOf(ast)
        /\ Awaits(ast)[Visit(n)] = {} /\ ComesBack(ast)[Visit(n)] = {}
        /\ Begins(ast)[Visit(n)] = Context(FALSE, nullptr)
        /\ Leaves(ast)[Visit(n)] = Context(FALSE, nullptr)
    <3>1. TopLevelTask(ast, n)
      BY <1>2, <2>1, TopTask
    <3>2. QED
      BY <3>1 DEF TopLevelTask
  <2>3. QED
    BY <1>F, <2>1, <2>2, <2>n
<1>7. tasks \in Seq(Work(ast))
  <2>1. tasks \in Seq({tasks[i] : i \in DOMAIN tasks})
    BY <1>4 DEF IsSequence
  <2>2. QED
    BY <1>4, <1>6, <2>1, MembersTyped
<1>8. /\ Owes(ast)[Top] = {1} \cup F /\ Awaits(ast)[Top] = {}
      /\ Leaves(ast)[Top] = Context(FALSE, nullptr)
  <2>n. PICK n : n = 1
    OBVIOUS
  <2>1. n \in DOMAIN ast /\ IsTopLevel(ast, n) /\ Top = Visit(n)
    BY <1>1, <2>n
  <2>2. /\ Owes(ast)[Visit(n)] = IF n = 1 THEN {1} \cup FunctionsOf(ast) ELSE {n} \cap FunctionsOf(ast)
        /\ Awaits(ast)[Visit(n)] = {} /\ Leaves(ast)[Visit(n)] = Context(FALSE, nullptr)
    <3>1. TopLevelTask(ast, n)
      BY <1>2, <2>1, TopTask
    <3>2. QED
      BY <3>1 DEF TopLevelTask
  <2>3. QED
    BY <1>F, <2>1, <2>2, <2>n
<1>9. 1 \notin F /\ \A f \in F : \E i \in 1 .. l : f = Kid(ast, 1, i)
  <2>1. 1 \notin F
    BY <1>1, <1>F DEF FunctionsOf, NodesOf
  <2>2. ASSUME NEW f \in F PROVE \E i \in 1 .. l : f = Kid(ast, 1, i)
    <3>1. f \in DOMAIN ast /\ ast[f].kind = "Function" /\ f # 1
      BY <1>F, <2>1 DEF FunctionsOf, NodesOf
    <3>2. QED
      BY <1>2, <1>l, <3>1, KidsOfRoot
  <2>3. QED
    BY <2>1, <2>2
<1>o. PICK o : o = Owes(ast)
  OBVIOUS
<1>10. Replaces(tasks, {1}, o, o)
  <2>1. InTurn(tasks, o, o)
    <3> SUFFICES ASSUME NEW a \in 1 .. l, NEW b \in 1 .. l, a < b
                 PROVE  o[tasks[b]] \cap (o[tasks[a]] \cup o[tasks[a]]) = {}
      BY <1>4 DEF InTurn
    <3>1. Kid(ast, 1, a) # Kid(ast, 1, b)
      <4>1. a # b
        BY <1>3
      <4>2. QED
        BY <1>1, <1>2, <1>l, <4>1, OneParent
    <3>2. o[tasks[a]] = {Kid(ast, 1, a)} \cap F /\ o[tasks[b]] = {Kid(ast, 1, b)} \cap F
      BY <1>6, <1>o
    <3>3. QED
      BY <3>1, <3>2
  <2>2. \A a \in 1 .. Len(tasks) : o[tasks[a]] \cup o[tasks[a]] \subseteq o[Top] \cup o[Top]
    <3>1. ASSUME NEW a \in 1 .. l PROVE o[tasks[a]] \subseteq F
      <4>1. o[tasks[a]] = {Kid(ast, 1, a)} \cap F
        BY <1>6, <1>o
      <4>2. QED
        BY <4>1
    <3>2. F \subseteq o[Top]
      BY <1>8, <1>o
    <3>3. QED
      BY <1>4, <3>1, <3>2
  <2>3. Pending(tasks, o) = o[Top] \ {1}
    <3>1. Pending(tasks, o) = UNION {o[tasks[i]] : i \in 1 .. l}
      BY <1>4 DEF Pending
    <3>2. UNION {o[tasks[i]] : i \in 1 .. l} = F
      <4>1. \A i \in 1 .. l : o[tasks[i]] = {Kid(ast, 1, i)} \cap F
        BY <1>6, <1>o
      <4>2. QED
        BY <1>9, <4>1
    <3>3. o[Top] \ {1} = F
      BY <1>8, <1>9, <1>o
    <3>4. QED
      BY <3>1, <3>2, <3>3
  <2>4. {1} \subseteq o[Top]
    BY <1>8, <1>o
  <2>5. QED
    BY <2>1, <2>2, <2>3, <2>4 DEF Replaces
<1>w. PICK w : w = Awaits(ast)
  OBVIOUS
<1>11. Replaces(tasks, {}, w, w)
  <2>1. \A i \in 1 .. Len(tasks) : w[tasks[i]] = {}
    BY <1>4, <1>6, <1>w
  <2>2. InTurn(tasks, w, w)
    BY <2>1 DEF InTurn
  <2>3. Pending(tasks, w) = {}
    BY <2>1 DEF Pending
  <2>4. w[Top] = {}
    BY <1>8, <1>w
  <2>5. QED
    BY <2>1, <2>2, <2>3, <2>4 DEF Replaces
<1>c. PICK c : c = Context(FALSE, nullptr)
  OBVIOUS
<1>12. NextHere(tasks) = c
  <2>1. CASE tasks = << >>
    BY <1>8, <1>c, <2>1 DEF NextHere
  <2>2. CASE tasks # << >>
    <3>1. 1 \in 1 .. l
      BY <1>3, <1>4, <1>7, <2>2, EmptySeq
    <3>2. QED
      BY <1>6, <1>c, <2>2, <3>1 DEF NextHere
  <2>3. QED
    BY <2>1, <2>2
<1>13. Leads(tasks, Begins(ast), Leaves(ast), NextHere(tasks))
  <2>1. \A i \in 1 .. l : Begins(ast)[tasks[i]] = c /\ Leaves(ast)[tasks[i]] = c
    BY <1>6, <1>c
  <2>2. Leaves(ast)[Top] = c
    BY <1>8, <1>c
  <2>3. /\ tasks # << >> => 1 \in 1 .. l /\ l \in 1 .. l
        /\ \A i \in 1 .. l - 1 : i \in 1 .. l /\ i + 1 \in 1 .. l
    BY <1>3, <1>4, <1>7, EmptySeq
  <2>4. QED
    BY <1>4, <1>12, <2>1, <2>2, <2>3 DEF Leads
<1>14. QED
  BY <1>4, <1>6, <1>7, <1>10, <1>11, <1>12, <1>13, <1>c, <1>o, <1>w

\* Two blocks that are there from the start on.
LEMMA BuiltinBlocks ==
  ASSUME NEW t, IsTree(t), NEW bs,
         bs = << Block("body", -1, InputCode), Block("body", -2, OutputCode) >>
  PROVE  /\ GoodBlocks(t, bs) /\ Len(bs) = 2
         /\ bs[1].function = -1 /\ bs[2].function = -2
         /\ \A b \in 1 .. 2 : Ended(bs[b].code) /\ TargetsOf(bs[b].code) = {}
<1>c. PICK c : c = InputCode
  OBVIOUS
<1>d. PICK d : d = OutputCode
  OBVIOUS
<1>x. PICK x : x = Block("body", -1, c)
  OBVIOUS
<1>y. PICK y : y = Block("body", -2, d)
  OBVIOUS
<1>1. /\ GoodCode(t, c) /\ Ended(c) /\ TargetsOf(c) = {}
      /\ GoodCode(t, d) /\ Ended(d) /\ TargetsOf(d) = {}
  BY <1>c, <1>d, InputGood, OutputGood
<1>2. /\ x = Block(x.label, x.function, x.code) /\ x.function = -1 /\ x.code = c
      /\ y = Block(y.label, y.function, y.code) /\ y.function = -2 /\ y.code = d
  BY <1>x, <1>y DEF Block
<1>3. IsSequence(bs) /\ Len(bs) = 2 /\ bs[1] = x /\ bs[2] = y
  <2>1. bs = << x, y >>
    BY <1>c, <1>d, <1>x, <1>y
  <2>2. QED
    BY <2>1, ShortSequences
<1>4. \A b \in 1 .. 2 : b = 1 \/ b = 2
  OBVIOUS
<1>5. BlockSequence(bs)
  BY <1>2, <1>3, <1>4 DEF BlockSequence
<1>6. QED
  BY <1>1, <1>2, <1>3, <1>4, <1>5 DEF GoodBlocks

\* Nothing is kept while there are no blocks.
LEMMA NothingKept ==
  ASSUME IInv, blocks = << >>
  PROVE  \A i \in 1 .. Len(stack) :
           Awaits(ast)[stack[i]] = {} /\ ComesBack(ast)[stack[i]] = {}
<1>1. PICK home : Layout(ast, stack, blocks, Here, insertBlock, home)
  BY DEF IInv
<1>2. Len(blocks) = 0 /\ \A b : b \notin 1 .. 0
  BY EmptySeq
<1>3. \A i \in 1 .. Len(stack) : \A b \in Awaits(ast)[stack[i]] \cup ComesBack(ast)[stack[i]] :
        b \in 1 .. Len(blocks)
  BY <1>1 DEF Layout, Kept
<1>4. QED
  BY <1>2, <1>3

LEMMA ProgramVisited ==
  ASSUME IInv, VisitProgram
  PROVE  IInv'
<1>tasks. PICK tasks : tasks = VisitAll(Kids(ast, 1))
  OBVIOUS
<1>bs. PICK bs : bs = << Block("body", -1, InputCode), Block("body", -2, OutputCode) >>
  OBVIOUS
<1>k. PICK kind : kind = "Program"
  OBVIOUS
<1>1. /\ Visiting({kind}) /\ kind \in {"Program", "Function"}
      /\ ir_value' = [b \in BuiltinDecls |-> Value("function", b, {})]
      /\ blocks' = bs /\ insertBlock' = 2
      /\ Continue(VisitAll(Kids(ast, Top.node)))
      /\ UNCHANGED << ast, fields >>
  BY <1>bs, <1>k DEF VisitProgram
<1>2. stack # << >> /\ Top = Visit(1) /\ Top.node = 1 /\ IsTopLevel(ast, 1) /\ 1 \in DOMAIN ast
  BY <1>1, <1>k, TopVisit
<1>3. /\ IsProgram(ast) /\ IsTree(ast) /\ Len(stack) \in Nat \ {0} /\ Top = stack[Len(stack)]
      /\ stack \in Seq(Work(ast)) /\ Top \in Work(ast)
  BY <1>2, TopParts DEF IInv
<1>4. Continue(tasks) /\ ast' = ast
  BY <1>1, <1>2, <1>tasks
<1>5. /\ tasks \in Seq(Work(ast))
      /\ \A i \in 1 .. Len(tasks) : Awaits(ast)[tasks[i]] = {} /\ ComesBack(ast)[tasks[i]] = {}
      /\ Replaces(tasks, {1}, Owes(ast), Owes(ast))
      /\ Replaces(tasks, {}, Awaits(ast), Awaits(ast))
      /\ Leads(tasks, Begins(ast), Leaves(ast), NextHere(tasks))
      /\ NextHere(tasks) = Context(FALSE, nullptr)
  BY <1>tasks, ProgramTasks
<1>6. blocks = << >>
  <2>1. 1 \in Owes(ast)[Top]
    BY <1>5 DEF Replaces
  <2>2. Len(stack) \in 1 .. Len(stack)
    BY <1>3
  <2>3. 1 \in Pending(stack, Owes(ast))
    BY <1>3, <2>1, <2>2 DEF Pending
  <2>4. QED
    BY <2>3 DEF IInv
<1>s2. PICK s2 : s2 = stack'
  OBVIOUS
<1>7. \A i \in 1 .. Len(s2) : /\ s2[i] \in Work(ast)
                              /\ Awaits(ast)[s2[i]] = {} /\ ComesBack(ast)[s2[i]] = {}
  <2>1. Replaced(stack, s2, tasks) /\ stack' \in Seq(Work(ast'))
    BY <1>2, <1>4, <1>5, <1>s2, NextIsHere
  <2>r. Replaced(stack, s2, tasks)
    BY <2>1
  <2>2. \A i \in 1 .. Len(stack) : Awaits(ast)[stack[i]] = {} /\ ComesBack(ast)[stack[i]] = {}
    BY <1>6, NothingKept
  <2>3. /\ \A i \in 1 .. Len(stack) - 1 : i \in 1 .. Len(stack)
        /\ \A j \in 1 .. Len(tasks) - 1 : j \in 1 .. Len(tasks)
    BY <1>3, <1>5
  <2>4. ASSUME NEW i \in 1 .. Len(s2)
        PROVE  Awaits(ast)[s2[i]] = {} /\ ComesBack(ast)[s2[i]] = {}
    <3>1. \/ i \in 1 .. Len(stack) - 1 /\ s2[i] = stack[i]
          \/ i = Len(stack) /\ Len(tasks) \in 1 .. Len(tasks) /\ s2[i] = tasks[Len(tasks)]
          \/ \E j \in 1 .. Len(tasks) - 1 : s2[i] = tasks[j]
      BY <2>r, ReplacedMembers
    <3>2. CASE i \in 1 .. Len(stack) - 1 /\ s2[i] = stack[i]
      BY <2>2, <2>3, <3>2
    <3>3. CASE i = Len(stack) /\ Len(tasks) \in 1 .. Len(tasks) /\ s2[i] = tasks[Len(tasks)]
      BY <1>5, <3>3
    <3>4. CASE \E j \in 1 .. Len(tasks) - 1 : s2[i] = tasks[j]
      BY <1>5, <2>3, <3>4
    <3>5. QED
      BY <3>1, <3>2, <3>3, <3>4
  <2>5. s2 \in Seq(Work(ast))
    BY <1>4, <1>s2, <2>1
  <2>6. \A i \in 1 .. Len(s2) : s2[i] \in Work(ast)
    BY <2>5
  <2>7. QED
    BY <2>4, <2>6
<1>8. Pending(s2, Awaits(ast)) = {}
  BY <1>7 DEF Pending
<1>9. Pending(s2, Owes(ast)) \subseteq DOMAIN ast
  <2>1. \A k \in Work(ast) : Owes(ast)[k] \subseteq DOMAIN ast
    BY <1>2 DEF Owes, FunctionsOf, NodesOf
  <2>2. QED
    BY <1>7, <2>1 DEF Pending
<1>10. /\ GoodBlocks(ast, bs) /\ Len(bs) = 2
       /\ bs[1].function = -1 /\ bs[2].function = -2
       /\ \A b \in 1 .. 2 : Ended(bs[b].code) /\ TargetsOf(bs[b].code) = {}
  BY <1>3, <1>bs, BuiltinBlocks
<1>home. PICK home : home = [b \in 1 .. 2 |-> IF b = 1 THEN -1 ELSE -2]
  OBVIOUS
<1>11. \A b \in 1 .. 2 : b = 1 \/ b = 2
  OBVIOUS
<1>12. home[1] = -1 /\ home[2] = -2
  BY <1>home
<1>h. PICK h : h = Context(FALSE, nullptr)
  OBVIOUS
<1>13. h.open = FALSE /\ h.in = nullptr
  BY <1>h DEF Context
<1>14. Layout(ast, s2, bs, h, 2, home)
  <2>1. home \in [1 .. Len(bs) -> Homes(ast)]
    BY <1>10, <1>home DEF Homes, BuiltinDecls
  <2>2. Edges(bs, home)
    BY <1>10 DEF Edges
  <2>3. Kept(ast, s2, bs, home)
    BY <1>7 DEF Kept
  <2>4. ASSUME NEW b \in 1 .. 2 PROVE PlacedBlock(bs, h.open, 2, home, b)
    <3>1. IsFirst(home, b)
      <4>1. \A c \in 1 .. b - 1 : c = 1 /\ b = 2
        BY <1>11
      <4>2. QED
        BY <1>12, <4>1 DEF IsFirst
    <3>2. Reachable(bs, home, b)
      BY <1>10, <3>1, ReachableFirst
    <3>3. bs[b].function = home[b]
      BY <1>10, <1>11, <1>12
    <3>4. QED
      BY <1>10, <1>13, <3>2, <3>3 DEF PlacedBlock
  <2>5. Placed(ast, s2, bs, h.open, 2, home)
    BY <1>10, <2>4 DEF Placed
  <2>6. Inserting(ast, s2, bs, h, 2, home)
    BY <1>8, <1>10, <1>13 DEF Inserting
  <2>7. \A b \in 1 .. Len(bs) : home[b] \notin Pending(s2, Owes(ast))
    <3>1. -1 \notin DOMAIN ast /\ -2 \notin DOMAIN ast
      <4>1. DOMAIN ast = 1 .. Len(ast) /\ Len(ast) \in Nat
        BY <1>3 DEF IsTree
      <4>2. \A k \in 1 .. Len(ast) : k # -1 /\ k # -2
        BY <4>1
      <4>3. QED
        BY <4>1, <4>2
    <3>2. QED
      BY <1>9, <1>10, <1>11, <1>12, <3>1
  <2>8. QED
    BY <2>1, <2>2, <2>3, <2>5, <2>6, <2>7 DEF Layout
<1>15. DOMAIN ir_value' \subseteq BuiltinDecls \cup DOMAIN ast
  BY <1>1
<1>16. 1 \notin Pending(stack, Owes(ast)) \ {1}
  OBVIOUS
<1>17. Layout(ast, stack', blocks', NextHere(tasks), insertBlock', home)
  BY <1>1, <1>5, <1>14, <1>s2, <1>h
<1>18. GoodBlocks(ast, blocks')
  BY <1>1, <1>10
<1>19. TopStep(tasks, {1})
  BY <1>1, <1>2, <1>4, <1>5, <1>15, <1>16, <1>17, <1>18 DEF TopStep
<1>20. QED
  BY <1>19, TopKeeps

\* What stores the parameters of a function.
LEMMA HalfWay ==
  ASSUME NEW n \in Nat, NEW k \in 1 .. 2 * n
  PROVE  (k + 1) \div 2 \in 1 .. n
OBVIOUS

Storing(params) ==
  [k \in 1 .. 2 * Len(params) |->
     LET p == params[(k + 1) \div 2]
     IN  IF k % 2 = 1
         THEN Alloca(p)
         ELSE Store(p, Value("argument", p, {}), Result(Alloca(p)))]

LEMMA StoringCode ==
  ASSUME NEW t, IsTree(t), NEW params \in Seq(DOMAIN t), NEW code, code = Storing(params)
  PROVE  GoodCode(t, code) /\ Unended(code) /\ TargetsOf(code) = {}
<1>n. PICK n : n = Len(params)
  OBVIOUS
<1>m. PICK m : m = 2 * n
  OBVIOUS
<1>1. n \in Nat /\ m \in Nat /\ DOMAIN params = 1 .. n
  BY <1>n, <1>m
<1>2. ASSUME NEW k \in 1 .. m
      PROVE  \E p \in DOMAIN t : \E op \in {"alloca", "store"} : \E args :
               code[k] = Instruction(op, p, args, << >>)
  <2>p. PICK p : p = params[(k + 1) \div 2]
    OBVIOUS
  <2>1. (k + 1) \div 2 \in 1 .. n
    BY <1>1, <1>m, HalfWay
  <2>2. p \in DOMAIN t
    BY <1>1, <1>n, <2>1, <2>p
  <2>3. code[k] = IF k % 2 = 1 THEN Alloca(p)
                  ELSE Store(p, Value("argument", p, {}), Result(Alloca(p)))
    BY <1>n, <1>m, <2>p, Zenon DEF Storing
  <2>4. CASE k % 2 = 1
    <3>1. code[k] = Instruction("alloca", p, << >>, << >>)
      BY <2>3, <2>4, Zenon DEF Alloca
    <3>2. QED
      BY <2>2, <3>1
  <2>5. CASE k % 2 # 1
    <3>1. code[k] = Instruction("store", p, << Value("argument", p, {}), Result(Alloca(p)) >>, << >>)
      BY <2>3, <2>5, Zenon DEF Store
    <3>2. QED
      BY <2>2, <3>1
  <2>6. QED
    BY <2>4, <2>5
<1>3. code = [k \in 1 .. m |-> code[k]]
  BY <1>n, <1>m DEF Storing
<1>4. IsSequence(code) /\ Len(code) = m
  BY <1>1, <1>3, SequenceMade
<1>5. ASSUME NEW k \in 1 .. m
      PROVE  /\ code[k].at \in DOMAIN t /\ code[k].op \in {"alloca", "store"}
             /\ Range(code[k].targets) = {}
  <2>1. PICK p \in DOMAIN t, op \in {"alloca", "store"} :
          \E args : code[k] = Instruction(op, p, args, << >>)
    BY <1>2
  <2>2. code[k].at = p /\ code[k].op = op /\ code[k].targets = << >>
    BY <2>1 DEF Instruction
  <2>3. Range(code[k].targets) = {}
    BY <2>2 DEF Range
  <2>4. QED
    BY <2>2, <2>3
<1>6. "alloca" \notin Terminators /\ "store" \notin Terminators
  BY DEF Terminators
<1>7. GoodCode(t, code)
  <2>1. \A k \in 1 .. Len(code) :
          /\ code[k].at \in BuiltinDecls \cup DOMAIN t
          /\ code[k].op \notin Terminators /\ code[k].op # "ret"
    BY <1>4, <1>5, <1>6
  <2>2. QED
    BY <1>4, <2>1 DEF GoodCode
<1>8. Unended(code)
  BY <1>4, <1>5, <1>6 DEF Unended
<1>9. TargetsOf(code) = {}
  <2>1. \A k \in 1 .. Len(code) : Range(code[k].targets) = {}
    BY <1>4, <1>5
  <2>2. QED
    BY <2>1 DEF TargetsOf
<1>10. QED
  BY <1>7, <1>8, <1>9

PreambleOf(params, f, b) == Append(Storing(params), Br(f, b))

LEMMA PreambleCode ==
  ASSUME NEW t, IsTree(t), NEW params \in Seq(DOMAIN t), NEW f \in DOMAIN t, NEW b
  PROVE  /\ GoodCode(t, PreambleOf(params, f, b)) /\ Ended(PreambleOf(params, f, b))
         /\ TargetsOf(PreambleOf(params, f, b)) = {b}
<1>code. PICK code : code = PreambleOf(params, f, b)
  OBVIOUS
<1>1. PICK first : first = Storing(params)
  OBVIOUS
<1>2. PICK last : last = << Br(f, b) >>
  OBVIOUS
<1>3. GoodCode(t, first) /\ Unended(first) /\ TargetsOf(first) = {}
  BY <1>1, StoringCode
<1>4. GoodCode(t, last) /\ Ended(last) /\ TargetsOf(last) = {b} /\ last # << >>
  BY <1>2, BrCode
<1>5. code = first \o last
  <2>i. PICK i : i = Br(f, b)
    OBVIOUS
  <2>S. PICK S : S = {first[k] : k \in DOMAIN first}
    OBVIOUS
  <2>1. first \in Seq(S)
    BY <1>3, <2>S DEF GoodCode, IsSequence
  <2>2. first \in Seq(S \cup {i}) /\ i \in S \cup {i}
    BY <2>1
  <2>T. PICK T : T = S \cup {i}
    OBVIOUS
  <2>3. Append(first, i) = first \o << i >>
    BY <2>2, <2>T, AppendIsConcat
  <2>4. QED
    BY <1>1, <1>2, <1>code, <2>i, <2>3 DEF PreambleOf
<1>6. MayFollow(t, first, last)
  BY <1>3, <1>4 DEF MayFollow
<1>7. /\ GoodCode(t, first \o last)
      /\ Unended(first) => (Unended(first \o last) <=> Unended(last))
      /\ TargetsOf(first \o last) = TargetsOf(first) \cup TargetsOf(last)
  BY <1>6, CodeJoined
<1>8. ~ Unended(last)
  BY <1>4, CodeEnds
<1>9. Ended(code)
  <2>1. GoodCode(t, code) /\ ~ Unended(code)
    BY <1>3, <1>5, <1>7, <1>8
  <2>2. QED
    BY <2>1, CodeEnds
<1>10. QED
  BY <1>3, <1>4, <1>5, <1>7, <1>9, <1>code

\* The body, then the end of the function.
LEMMA FunctionTasks ==
  ASSUME IInv, VisitFunction, NEW f, f = Top.node,
         NEW tasks, tasks = << Visit(Body(ast, f)), Finish(f) >>
  PROVE  /\ tasks \in Seq(Work(ast))
         /\ \A i \in 1 .. Len(tasks) :
              Awaits(ast)[tasks[i]] = {} /\ ComesBack(ast)[tasks[i]] = {}
         /\ Replaces(tasks, {f}, Owes(ast), Owes(ast))
         /\ Replaces(tasks, {}, Awaits(ast), Awaits(ast))
         /\ Leads(tasks, Begins(ast), Leaves(ast), NextHere(tasks))
         /\ NextHere(tasks) = Context(TRUE, f) /\ Here = Context(FALSE, nullptr)
         /\ f \in Pending(stack, Owes(ast)) /\ 1 \notin Pending(stack, Owes(ast))
<1>1. /\ stack # << >> /\ Top = Visit(f) /\ IsTopLevel(ast, f) /\ ast[f].kind = "Function"
      /\ f \in FunctionsOf(ast) /\ f # 1 /\ f \in DOMAIN ast
  <2>k. PICK kind : kind = "Function"
    OBVIOUS
  <2>1. Visiting({kind}) /\ kind \in {"Program", "Function"}
    BY <2>k DEF VisitFunction
  <2>2. QED
    BY <2>1, <2>k, TopVisit
<1>2. /\ IsProgram(ast) /\ IsTree(ast) /\ Len(stack) \in Nat \ {0} /\ Top = stack[Len(stack)]
      /\ Here = Begins(ast)[Top]
  BY <1>1, TopParts
<1>v. PICK v : v = Visit(Body(ast, f))
  OBVIOUS
<1>x. PICK x : x = Finish(f)
  OBVIOUS
<1>3. tasks = << v, x >> /\ IsSequence(tasks) /\ Len(tasks) = 2 /\ tasks[1] = v /\ tasks[2] = x
  BY <1>v, <1>x, FewTasks
<1>4. /\ Owes(ast)[Top] = {f} /\ Awaits(ast)[Top] = {}
      /\ Begins(ast)[Top] = Context(FALSE, nullptr) /\ Leaves(ast)[Top] = Context(FALSE, nullptr)
  <2>f. IsProgram(ast) /\ f \in DOMAIN ast /\ IsTopLevel(ast, f)
    BY <1>1, <1>2
  <2>1. /\ Visit(f) \in Work(ast)
        /\ Owes(ast)[Visit(f)] = IF f = 1 THEN {1} \cup FunctionsOf(ast) ELSE {f} \cap FunctionsOf(ast)
        /\ Awaits(ast)[Visit(f)] = {} /\ ComesBack(ast)[Visit(f)] = {}
        /\ Begins(ast)[Visit(f)] = Context(FALSE, nullptr)
        /\ Leaves(ast)[Visit(f)] = Context(FALSE, nullptr)
    <3>1. TopLevelTask(ast, f)
      BY <2>f, TopTask
    <3>2. QED
      BY <3>1 DEF TopLevelTask
  <2>2. {f} \cap FunctionsOf(ast) = {f}
    BY <1>1
  <2>3. Owes(ast)[Visit(f)] = {f}
    BY <1>1, <2>1, <2>2
  <2>4. QED
    BY <1>1, <2>1, <2>3
<1>s. PICK s : s = Body(ast, f)
  OBVIOUS
<1>5. /\ s \in DOMAIN ast /\ ast[s].kind = "Compound" /\ EnclosingFunction(ast, s) = f
      /\ f # nullptr
  BY <1>1, <1>2, <1>s, BodyShape, EnclosingBody, NodeShape DEF nullptr
<1>6. /\ Idle(ast, v) /\ Begins(ast)[v] = Context(TRUE, f)
      /\ Leaves(ast)[v] = Context(Falls(ast, s), f)
  <2>1. /\ Idle(ast, v)
        /\ Begins(ast)[v] = Context(TRUE, EnclosingFunction(ast, s))
        /\ Leaves(ast)[v] = Context(ast[s].kind \in StatementKinds => Falls(ast, s),
                                    EnclosingFunction(ast, s))
    BY <1>2, <1>5, <1>s, <1>v, PlainTask
  <2>2. (ast[s].kind \in StatementKinds => Falls(ast, s)) = Falls(ast, s)
    BY <1>5 DEF Falls, StatementKinds
  <2>3. QED
    BY <1>5, <2>1, <2>2
<1>7. x \in Work(ast) /\ x.op = "finish" /\ x.node = f
  BY <1>1, <1>x DEF Work, PlainTasks, Finish
<1>8. /\ Owes(ast)[x] = {} /\ Awaits(ast)[x] = {} /\ ComesBack(ast)[x] = {}
      /\ Begins(ast)[x] = Context(Falls(ast, s), f)
  BY <1>1, <1>7, <1>s DEF Owes, Awaits, ComesBack, Begins
<1>9. Leaves(ast)[x] = Leaves(ast)[Top]
  <2>1. Top \in Work(ast) /\ Top.node = f
    BY <1>1, TopParts DEF Visit
  <2>2. QED
    BY <1>7, <2>1 DEF Leaves
<1>10. tasks \in Seq(Work(ast))
  <2>1. v \in Work(ast)
    BY <1>6 DEF Idle
  <2>2. QED
    BY <1>3, <1>7, <2>1
<1>11. \A i \in 1 .. Len(tasks) : /\ Owes(ast)[tasks[i]] = {} /\ Awaits(ast)[tasks[i]] = {}
                                  /\ ComesBack(ast)[tasks[i]] = {}
  <2>1. \A i \in 1 .. 2 : i = 1 \/ i = 2
    OBVIOUS
  <2>2. QED
    BY <1>3, <1>6, <1>8, <2>1 DEF Idle
<1>o. PICK o : o = Owes(ast)
  OBVIOUS
<1>12. Replaces(tasks, {f}, o, o)
  <2>1. \A i \in 1 .. Len(tasks) : o[tasks[i]] = {}
    BY <1>11, <1>o
  <2>2. InTurn(tasks, o, o) /\ Pending(tasks, o) = {} /\ o[Top] = {f}
    BY <1>4, <1>o, <2>1 DEF InTurn, Pending
  <2>3. QED
    BY <2>1, <2>2 DEF Replaces
<1>w. PICK w : w = Awaits(ast)
  OBVIOUS
<1>13. Replaces(tasks, {}, w, w)
  <2>1. \A i \in 1 .. Len(tasks) : w[tasks[i]] = {}
    BY <1>11, <1>w
  <2>2. InTurn(tasks, w, w) /\ Pending(tasks, w) = {} /\ w[Top] = {}
    BY <1>4, <1>w, <2>1 DEF InTurn, Pending
  <2>3. QED
    BY <2>1, <2>2 DEF Replaces
<1>14. tasks # << >> /\ NextHere(tasks) = Begins(ast)[v]
  BY <1>3 DEF NextHere
<1>15. Leads(tasks, Begins(ast), Leaves(ast), NextHere(tasks))
  <2>1. \A i \in 1 .. 2 - 1 : i = 1 /\ i + 1 = 2
    OBVIOUS
  <2>2. Leaves(ast)[v] = Begins(ast)[x]
    BY <1>6, <1>8
  <2>3. QED
    BY <1>3, <1>9, <1>14, <2>1, <2>2 DEF Leads
<1>k. PICK k : k = Len(stack)
  OBVIOUS
<1>16. k \in 1 .. k /\ k \in Nat /\ o[stack[k]] = {f}
  BY <1>2, <1>4, <1>k, <1>o
<1>17. f \in Pending(stack, o)
  BY <1>16, <1>k DEF Pending
<1>18. 1 \notin Pending(stack, o)
  <2>1. SUFFICES ASSUME NEW i \in 1 .. k, 1 \in o[stack[i]] PROVE FALSE
    BY <1>k DEF Pending
  <2>2. i # k
    BY <1>1, <1>16, <2>1
  <2>3. i < k
    BY <1>16, <2>2
  <2>4. stack[i] \in Work(ast)
    BY <1>k DEF IInv
  <2>5. o[stack[i]] = {1} \cup FunctionsOf(ast)
    <3>1. 1 \notin FunctionsOf(ast)
      BY <1>2 DEF FunctionsOf, NodesOf, IsProgram
    <3>2. QED
      BY <1>o, <2>1, <2>4, <3>1 DEF Owes
  <2>6. StackInTurn(stack, o, o)
    BY <1>o DEF IInv, InOrder
  <2>7. o[stack[i]] \cap (o[stack[k]] \cup o[stack[k]]) = {}
    BY <1>16, <1>k, <2>3, <2>6 DEF StackInTurn
  <2>8. QED
    BY <1>1, <1>16, <2>5, <2>7
<1>19. QED
  BY <1>2, <1>4, <1>6, <1>10, <1>11, <1>12, <1>13, <1>14, <1>15, <1>17, <1>18, <1>o, <1>w

\* The blocks of a function that is entered.
FunctionCase(t, s, s2, bs, bs2, at, f, code, home) ==
  /\ f \in FunctionsOf(t) /\ f # nullptr /\ f \in Pending(s, Owes(t))
  /\ Pending(s2, Owes(t)) = Pending(s, Owes(t)) \ {f}
  /\ Pending(s2, Awaits(t)) = Pending(s, Awaits(t))
  /\ \A i \in 1 .. Len(s2) :
       \/ Awaits(t)[s2[i]] = {} /\ ComesBack(t)[s2[i]] = {}
       \/ \E j \in 1 .. Len(s) : s2[i] = s[j]
  /\ GoodBlocks(t, bs)
  /\ Layout(t, s, bs, Context(FALSE, nullptr), at, home)
  /\ GoodCode(t, code) /\ Ended(code) /\ TargetsOf(code) = {Len(bs) + 2}
  /\ bs2 = bs \o << Block("preamble", f, code), Block("body", f, << >>) >>

LEMMA FunctionBlocks ==
  ASSUME NEW t, NEW s, NEW s2, NEW bs, NEW bs2, NEW at, NEW f, NEW code, NEW home,
         FunctionCase(t, s, s2, bs, bs2, at, f, code, home)
  PROVE  /\ GoodBlocks(t, bs2) /\ Len(bs) \in Nat /\ Len(bs2) = Len(bs) + 2
         /\ \A b \in 1 .. Len(bs) : bs2[b] = bs[b]
         /\ bs2[Len(bs) + 1].function = f /\ bs2[Len(bs) + 1].code = code
         /\ bs2[Len(bs) + 2].function = f /\ bs2[Len(bs) + 2].code = << >>
<1>l. PICK l : l = Len(bs)
  OBVIOUS
<1>x. PICK x : x = Block("preamble", f, code)
  OBVIOUS
<1>y. PICK y : y = Block("body", f, << >>)
  OBVIOUS
<1>new. PICK new : new = << x, y >>
  OBVIOUS
<1>1. /\ x = Block(x.label, x.function, x.code) /\ x.function = f /\ x.code = code
      /\ y = Block(y.label, y.function, y.code) /\ y.function = f /\ y.code = << >>
  BY <1>x, <1>y DEF Block
<1>2. IsSequence(new) /\ Len(new) = 2 /\ new[1] = x /\ new[2] = y
  BY <1>new, ShortSequences
<1>3. \A b \in 1 .. 2 : b = 1 \/ b = 2
  OBVIOUS
<1>4. BlockSequence(new)
  BY <1>1, <1>2, <1>3 DEF BlockSequence
<1>5. BlockSequence(bs) /\ bs2 = bs \o new
  BY <1>x, <1>y, <1>new DEF FunctionCase, GoodBlocks
<1>6. /\ BlockSequence(bs2)
      /\ Len(bs2) = Len(bs) + Len(new) /\ Len(bs) \in Nat
      /\ \A b \in 1 .. Len(bs) : bs2[b] = bs[b]
      /\ \A b \in 1 .. Len(new) : bs2[Len(bs) + b] = new[b]
  BY <1>4, <1>5, AddedParts
<1>7. bs2[l + 1] = x /\ bs2[l + 2] = y /\ Len(bs2) = l + 2 /\ l \in Nat
  BY <1>l, <1>2, <1>6
<1>8. \A b \in 1 .. l + 2 : b \in 1 .. l \/ b = l + 1 \/ b = l + 2
  BY <1>7
<1>9. GoodCode(t, code) /\ GoodCode(t, << >>) /\ \A b \in 1 .. l : GoodCode(t, bs[b].code)
  BY <1>l, NoInstruction DEF FunctionCase, GoodBlocks
<1>10. \A b \in 1 .. l + 2 : GoodCode(t, bs2[b].code)
  BY <1>1, <1>6, <1>7, <1>8, <1>9, <1>l
<1>11. QED
  BY <1>1, <1>6, <1>7, <1>10, <1>l DEF GoodBlocks

LEMMA FunctionLayout ==
  ASSUME NEW t, NEW s, NEW s2, NEW bs, NEW bs2, NEW at, NEW f, NEW code, NEW home,
         FunctionCase(t, s, s2, bs, bs2, at, f, code, home)
  PROVE  \E home2 : Layout(t, s2, bs2, Context(TRUE, f), Len(bs) + 2, home2)
<1>l. PICK l : l = Len(bs)
  OBVIOUS
<1>1. /\ f \in FunctionsOf(t) /\ f # nullptr /\ f \in Pending(s, Owes(t))
      /\ Pending(s2, Owes(t)) = Pending(s, Owes(t)) \ {f}
      /\ Pending(s2, Awaits(t)) = Pending(s, Awaits(t))
      /\ Ended(code) /\ TargetsOf(code) = {l + 2}
  BY <1>l DEF FunctionCase
<1>2. \A i \in 1 .. Len(s2) : \/ Awaits(t)[s2[i]] = {} /\ ComesBack(t)[s2[i]] = {}
                              \/ \E j \in 1 .. Len(s) : s2[i] = s[j]
  BY DEF FunctionCase
<1>3. /\ GoodBlocks(t, bs2) /\ l \in Nat /\ Len(bs2) = l + 2
      /\ \A b \in 1 .. l : bs2[b] = bs[b]
      /\ bs2[l + 1].function = f /\ bs2[l + 1].code = code
      /\ bs2[l + 2].function = f /\ bs2[l + 2].code = << >>
  BY <1>l, FunctionBlocks
<1>h. PICK h : h = Context(FALSE, nullptr)
  OBVIOUS
<1>4. h.open = FALSE /\ h.in = nullptr
  BY <1>h DEF Context
<1>5. /\ home \in [1 .. l -> Homes(t)]
      /\ Edges(bs, home)
      /\ Kept(t, s, bs, home)
      /\ Placed(t, s, bs, h.open, at, home)
      /\ \A b \in 1 .. l : home[b] \notin Pending(s, Owes(t))
  BY <1>l, <1>h DEF FunctionCase, Layout
<1>g. PICK home2 : home2 = [b \in 1 .. l + 2 |-> IF b \in 1 .. l THEN home[b] ELSE f]
  OBVIOUS
<1>6. /\ \A b \in 1 .. l + 2 : b \in 1 .. l \/ b = l + 1 \/ b = l + 2
      /\ \A b \in 1 .. l : b \in 1 .. l + 2 /\ b # l + 1 /\ b # l + 2
      /\ l + 1 \in 1 .. l + 2 /\ l + 2 \in 1 .. l + 2 /\ l + 1 # l + 2
      /\ l + 1 \notin 1 .. l /\ l + 2 \notin 1 .. l
      /\ \A c \in 1 .. (l + 1) - 1 : c \in 1 .. l
      /\ l + 1 \in 1 .. (l + 2) - 1
      /\ l <= l + 2
  BY <1>3
<1>7. /\ \A b \in 1 .. l : home2[b] = home[b]
      /\ home2[l + 1] = f /\ home2[l + 2] = f
  BY <1>6, <1>g
<1>8. home2 \in [1 .. l + 2 -> Homes(t)]
  BY <1>1, <1>5, <1>g DEF Homes
<1>9. Grows(bs, bs2, home, home2)
  BY <1>3, <1>6, <1>7, <1>l DEF Grows
<1>10. IsFirst(home2, l + 1) /\ IsLater(home2, l + 2)
  BY <1>1, <1>5, <1>6, <1>7 DEF IsFirst, IsLater
<1>11. Edges(bs2, home2)
  <2>1. ASSUME NEW b \in 1 .. l, NEW c \in TargetsOf(bs2[b].code)
        PROVE  c \in 1 .. l + 2 /\ home2[c] = home2[b] /\ IsLater(home2, c)
    <3>1. c \in 1 .. l /\ home[c] = home[b] /\ IsLater(home, c)
      BY <1>3, <1>5, <1>l, <2>1 DEF Edges
    <3>2. IsLater(home2, c)
      BY <1>9, <1>l, <3>1, LaterStays
    <3>3. QED
      BY <1>6, <1>7, <3>1, <3>2
  <2>2. ASSUME NEW c \in TargetsOf(bs2[l + 1].code)
        PROVE  c \in 1 .. l + 2 /\ home2[c] = home2[l + 1] /\ IsLater(home2, c)
    BY <1>1, <1>3, <1>6, <1>7, <1>10, <2>2
  <2>3. TargetsOf(bs2[l + 2].code) = {}
    BY <1>3, NoInstruction
  <2>4. QED
    BY <1>3, <1>6, <2>1, <2>2, <2>3 DEF Edges
<1>12. Kept(t, s2, bs2, home2)
  <2>1. ASSUME NEW i \in 1 .. Len(s2), NEW b \in Awaits(t)[s2[i]] \cup ComesBack(t)[s2[i]]
        PROVE  /\ b \in 1 .. Len(bs2) /\ home2[b] = s2[i].func /\ IsLater(home2, b)
               /\ b \in Awaits(t)[s2[i]] => bs2[b].function = nullptr /\ bs2[b].code = << >>
               /\ b \in Branched(t)[s2[i]] => Reachable(bs2, home2, b)
    <3>1. PICK j \in 1 .. Len(s) : s2[i] = s[j]
      BY <1>2, <2>1
    <3>2. /\ b \in 1 .. l /\ home[b] = s[j].func /\ IsLater(home, b)
          /\ b \in Awaits(t)[s[j]] => bs[b].function = nullptr /\ bs[b].code = << >>
          /\ b \in Branched(t)[s[j]] => Reachable(bs, home, b)
      BY <1>5, <1>l, <2>1, <3>1 DEF Kept
    <3>3. IsLater(home2, b)
      BY <1>9, <1>l, <3>2, LaterStays
    <3>4. Reachable(bs, home, b) => Reachable(bs2, home2, b)
      BY <1>9, ReachableStays
    <3>5. QED
      BY <1>3, <1>6, <1>7, <3>1, <3>2, <3>3, <3>4
  <2>2. QED
    BY <2>1 DEF Kept
<1>k. PICK k : k = Context(TRUE, f)
  OBVIOUS
<1>13. k.open = TRUE /\ k.in = f
  BY <1>k DEF Context
<1>14. ASSUME NEW b \in 1 .. l, b \notin Pending(s, Awaits(t))
       PROVE  PlacedBlock(bs2, k.open, l + 2, home2, b)
  <2>1. bs[b].function = home[b] /\ Reachable(bs, home, b) /\ Ended(bs[b].code)
    BY <1>4, <1>5, <1>14, <1>l DEF Placed, PlacedBlock
  <2>2. Reachable(bs2, home2, b)
    BY <1>9, <2>1, ReachableStays
  <2>3. QED
    BY <1>3, <1>6, <1>7, <2>1, <2>2 DEF PlacedBlock
<1>15. Reachable(bs2, home2, l + 1)
  BY <1>3, <1>6, <1>10, ReachableFirst
<1>16. Reachable(bs2, home2, l + 2)
  <2>1. l + 2 \in TargetsOf(bs2[l + 1].code) /\ l + 1 \in 1 .. Len(bs2)
    BY <1>1, <1>3, <1>6
  <2>2. QED
    BY <1>15, <2>1, ReachableNext
<1>17. PlacedBlock(bs2, k.open, l + 2, home2, l + 1)
  BY <1>1, <1>3, <1>6, <1>7, <1>15 DEF PlacedBlock
<1>18. PlacedBlock(bs2, k.open, l + 2, home2, l + 2)
  <2>1. Unended(bs2[l + 2].code)
    BY <1>3, NoInstruction
  <2>2. QED
    BY <1>3, <1>7, <1>13, <1>16, <2>1 DEF PlacedBlock
<1>19. Placed(t, s2, bs2, k.open, l + 2, home2)
  BY <1>1, <1>3, <1>6, <1>14, <1>17, <1>18 DEF Placed
<1>20. Pending(s, Awaits(t)) \subseteq 1 .. l
  BY <1>5, <1>l DEF Pending, Kept
<1>21. Inserting(t, s2, bs2, k, l + 2, home2)
  <2>1. l + 2 \in 1 .. Len(bs2) /\ l + 2 \notin Pending(s2, Awaits(t))
    BY <1>1, <1>3, <1>6, <1>20
  <2>2. l + 2 # nullptr
    BY <1>3 DEF nullptr
  <2>3. QED
    BY <1>1, <1>7, <1>13, <2>1, <2>2 DEF Inserting
<1>22. \A b \in 1 .. Len(bs2) : home2[b] \notin Pending(s2, Owes(t))
  BY <1>1, <1>3, <1>5, <1>6, <1>7
<1>23. Layout(t, s2, bs2, k, l + 2, home2)
  BY <1>3, <1>8, <1>11, <1>12, <1>19, <1>21, <1>22 DEF Layout
<1>24. QED
  BY <1>23, <1>k, <1>l

FunctionEntered ==
  LET f == Top.node
  IN  \E home : FunctionCase(ast, stack, stack', blocks, blocks', insertBlock, f,
                             PreambleOf(Parameters(ast, f), f, Len(blocks) + 2), home)

LEMMA FunctionVisited ==
  ASSUME IInv, VisitFunction
  PROVE  IInv' /\ FunctionEntered
<1>f. PICK f : f = Top.node
  OBVIOUS
<1>params. PICK params : params = Parameters(ast, f)
  OBVIOUS
<1>l. PICK l : l = Len(blocks)
  OBVIOUS
<1>code. PICK code : code = Append(Storing(params), Br(f, l + 2))
  OBVIOUS
<1>tasks. PICK tasks : tasks = << Visit(Body(ast, f)), Finish(f) >>
  OBVIOUS
<1>1. /\ blocks' = blocks \o << Block("preamble", f, code), Block("body", f, << >>) >>
      /\ insertBlock' = l + 2
      /\ DOMAIN ir_value' = DOMAIN ir_value \cup {f} \cup Range(params)
      /\ Continue(tasks)
      /\ UNCHANGED << ast, fields >>
  <2>1. blocks' = blocks \o << Block("preamble", f, code), Block("body", f, << >>) >>
    BY <1>f, <1>params, <1>l, <1>code, Zenon DEF VisitFunction, Storing
  <2>2. insertBlock' = l + 2
    BY <1>l DEF VisitFunction
  <2>3. DOMAIN ir_value' = DOMAIN ir_value \cup {f} \cup Range(params)
    BY <1>f, <1>params DEF VisitFunction
  <2>4. Continue(tasks) /\ UNCHANGED << ast, fields >>
    BY <1>f, <1>tasks DEF VisitFunction
  <2>5. QED
    BY <2>1, <2>2, <2>3, <2>4
<1>2. /\ stack # << >> /\ f \in FunctionsOf(ast) /\ f \in DOMAIN ast
      /\ ast[f].kind = "Function"
  <2>k. PICK kind : kind = "Function"
    OBVIOUS
  <2>1. Visiting({kind}) /\ kind \in {"Program", "Function"}
    BY <2>k DEF VisitFunction
  <2>2. QED
    BY <1>f, <2>1, <2>k, TopVisit
<1>3. /\ IsProgram(ast) /\ IsTree(ast) /\ Len(stack) \in Nat \ {0}
      /\ stack \in Seq(Work(ast)) /\ InOrder /\ GoodBlocks(ast, blocks)
  BY <1>2, TopParts DEF IInv
<1>4. /\ tasks \in Seq(Work(ast))
      /\ \A i \in 1 .. Len(tasks) : Awaits(ast)[tasks[i]] = {} /\ ComesBack(ast)[tasks[i]] = {}
      /\ Replaces(tasks, {f}, Owes(ast), Owes(ast))
      /\ Replaces(tasks, {}, Awaits(ast), Awaits(ast))
      /\ Leads(tasks, Begins(ast), Leaves(ast), NextHere(tasks))
      /\ NextHere(tasks) = Context(TRUE, f) /\ Here = Context(FALSE, nullptr)
      /\ f \in Pending(stack, Owes(ast)) /\ 1 \notin Pending(stack, Owes(ast))
  BY <1>f, <1>tasks, FunctionTasks
<1>5. params \in Seq(DeclsOf(ast)) /\ params \in Seq(DOMAIN ast) /\ Range(params) \subseteq DOMAIN ast
  <2>1. params \in Seq(DeclsOf(ast))
    BY <1>2, <1>3, <1>params, FunctionParts
  <2>2. \A i \in 1 .. Len(params) : params[i] \in DOMAIN ast
    BY <2>1 DEF DeclsOf
  <2>3. params \in Seq(DOMAIN ast)
    BY <2>1, <2>2, MembersTyped
  <2>4. QED
    BY <2>1, <2>3 DEF Range
<1>s2. PICK s2 : s2 = stack'
  OBVIOUS
<1>bs2. PICK bs2 : bs2 = blocks'
  OBVIOUS
<1>6. Replaced(stack, s2, tasks)
  BY <1>1, <1>2, <1>4, <1>s2, NextIsHere
<1>7. Pending(s2, Owes(ast)) = Pending(stack, Owes(ast)) \ {f}
  <2>o. PICK o : o = Owes(ast)
    OBVIOUS
  <2>d. PICK d : d = {f}
    OBVIOUS
  <2>1. StackInTurn(stack, o, o) /\ Replaces(tasks, d, o, o)
    BY <1>3, <1>4, <2>o, <2>d DEF InOrder
  <2>2. QED
    BY <1>1, <1>2, <1>3, <1>4, <1>s2, <2>o, <2>d, <2>1, WalkStep
<1>8. Pending(s2, Awaits(ast)) = Pending(stack, Awaits(ast))
  <2>o. PICK o : o = Awaits(ast)
    OBVIOUS
  <2>d. PICK d : d = {}
    OBVIOUS
  <2>1. StackInTurn(stack, o, o) /\ Replaces(tasks, d, o, o)
    BY <1>3, <1>4, <2>o, <2>d DEF InOrder
  <2>2. Pending(stack', o) = Pending(stack, o) \ d
    BY <1>1, <1>2, <1>3, <1>4, <2>1, WalkStep
  <2>3. QED
    BY <1>s2, <2>o, <2>d, <2>2
<1>9. ASSUME NEW i \in 1 .. Len(s2)
      PROVE  \/ Awaits(ast)[s2[i]] = {} /\ ComesBack(ast)[s2[i]] = {}
             \/ \E j \in 1 .. Len(stack) : s2[i] = stack[j]
  <2>1. /\ \A j \in 1 .. Len(stack) - 1 : j \in 1 .. Len(stack)
        /\ \A j \in 1 .. Len(tasks) - 1 : j \in 1 .. Len(tasks)
    BY <1>3, <1>4
  <2>2. \/ i \in 1 .. Len(stack) - 1 /\ s2[i] = stack[i]
        \/ i = Len(stack) /\ Len(tasks) \in 1 .. Len(tasks) /\ s2[i] = tasks[Len(tasks)]
        \/ \E j \in 1 .. Len(tasks) - 1 : s2[i] = tasks[j]
    BY <1>6, ReplacedMembers, SMTT(20)
  <2>3. CASE i \in 1 .. Len(stack) - 1 /\ s2[i] = stack[i]
    BY <2>1, <2>3
  <2>4. CASE i = Len(stack) /\ Len(tasks) \in 1 .. Len(tasks) /\ s2[i] = tasks[Len(tasks)]
    BY <1>4, <2>4
  <2>5. CASE \E j \in 1 .. Len(tasks) - 1 : s2[i] = tasks[j]
    BY <1>4, <2>1, <2>5
  <2>6. QED
    BY <2>2, <2>3, <2>4, <2>5
<1>10. GoodCode(ast, code) /\ Ended(code) /\ TargetsOf(code) = {l + 2}
  <2>b. PICK b : b = l + 2
    OBVIOUS
  <2>1. params \in Seq(DOMAIN ast)
    BY <1>5
  <2>2. f \in DOMAIN ast
    BY <1>2
  <2>3. IsTree(ast)
    BY <1>3
  <2>4. code = PreambleOf(params, f, b)
    BY <1>code, <2>b DEF PreambleOf
  <2>5. /\ GoodCode(ast, PreambleOf(params, f, b)) /\ Ended(PreambleOf(params, f, b))
        /\ TargetsOf(PreambleOf(params, f, b)) = {b}
    BY <2>1, <2>2, <2>3, PreambleCode
  <2>6. QED
    BY <2>b, <2>4, <2>5
<1>11. PICK home : Layout(ast, stack, blocks, Here, insertBlock, home)
  BY DEF IInv
<1>12. f # nullptr
  BY <1>2, <1>3, NodeShape DEF nullptr
<1>at. PICK at : at = insertBlock
  OBVIOUS
<1>13. FunctionCase(ast, stack, s2, blocks, bs2, at, f, code, home)
  BY <1>1, <1>2, <1>3, <1>4, <1>7, <1>8, <1>9, <1>10, <1>11, <1>12, <1>l, <1>bs2, <1>at
     DEF FunctionCase
<1>14. GoodBlocks(ast, bs2)
  BY <1>13, FunctionBlocks
<1>15. \E home2 : Layout(ast, s2, bs2, Context(TRUE, f), Len(blocks) + 2, home2)
  BY <1>13, FunctionLayout
<1>16. \E home2 : Layout(ast, stack', blocks', NextHere(tasks), insertBlock', home2)
  BY <1>1, <1>4, <1>15, <1>s2, <1>bs2, <1>l
<1>17. DOMAIN ir_value' \subseteq BuiltinDecls \cup DOMAIN ast
  BY <1>1, <1>2, <1>5 DEF IInv
<1>18. FunctionEntered
  <2>1. code = PreambleOf(params, f, l + 2)
    BY <1>code DEF PreambleOf
  <2>2. QED
    BY <1>13, <1>at, <1>bs2, <1>f, <1>l, <1>params, <1>s2, <2>1 DEF FunctionEntered
<1>19. TopStep(tasks, {f})
  BY <1>1, <1>2, <1>4, <1>14, <1>16, <1>17, <1>bs2 DEF TopStep
<1>20. QED
  BY <1>18, <1>19, TopKeeps

LEMMA InitIInv ==
  ASSUME Init
  PROVE  IInv
<1>1. /\ ast \in Programs /\ stack = << Visit(1) >> /\ blocks = << >>
      /\ insertBlock = nullptr /\ ir_value = << >>
  BY DEF Init
<1>2. IsProgram(ast) /\ IsTree(ast) /\ 1 \in DOMAIN ast /\ IsTopLevel(ast, 1)
  BY <1>1, ProgramsAssumption DEF IsProgram, IsTree, IsTopLevel
<1>3. Passed
  BY DEF Init, Passed, Falls
<1>4. /\ Visit(1) \in Work(ast) /\ 1 \in Owes(ast)[Visit(1)]
      /\ Owes(ast)[Visit(1)] = {1} \cup FunctionsOf(ast)
      /\ Awaits(ast)[Visit(1)] = {} /\ ComesBack(ast)[Visit(1)] = {}
      /\ Begins(ast)[Visit(1)] = End /\ Leaves(ast)[Visit(1)] = End
  <2>1. /\ Visit(1) \in Work(ast)
        /\ Owes(ast)[Visit(1)] = IF 1 = 1 THEN {1} \cup FunctionsOf(ast)
                                 ELSE {1} \cap FunctionsOf(ast)
        /\ Awaits(ast)[Visit(1)] = {} /\ ComesBack(ast)[Visit(1)] = {}
        /\ Begins(ast)[Visit(1)] = Context(FALSE, nullptr)
        /\ Leaves(ast)[Visit(1)] = Context(FALSE, nullptr)
    <3>1. TopLevelTask(ast, 1)
      BY <1>2, TopTask
    <3>2. QED
      BY <3>1 DEF TopLevelTask
  <2>2. QED
    BY <2>1 DEF End
<1>v. PICK v : v = Visit(1)
  OBVIOUS
<1>5. /\ stack \in Seq(Work(ast)) /\ Len(stack) = 1 /\ stack[1] = v /\ stack # << >>
      /\ 1 .. 1 = {1} /\ 2 .. 1 = {} /\ ~ 1 < 1 /\ Last(stack) = v
  BY <1>1, <1>4, <1>v DEF Last
<1>6. DOMAIN ir_value \subseteq BuiltinDecls \cup DOMAIN ast
  BY <1>1
<1>7. Here = End
  BY <1>4, <1>5, <1>v DEF Here, Top
<1>8. InOrder
  <2>1. /\ StackInTurn(stack, Owes(ast), Owes(ast))
        /\ StackInTurn(stack, Awaits(ast), Awaits(ast))
    BY <1>5 DEF StackInTurn
  <2>2. Chained(stack, Begins(ast), Leaves(ast), Here, End)
    BY <1>4, <1>5, <1>7, <1>v DEF Chained
  <2>3. QED
    BY <2>1, <2>2 DEF InOrder
<1>9. Len(blocks) = 0 /\ 1 .. 0 = {} /\ DOMAIN blocks = {}
  BY <1>1
<1>10. GoodBlocks(ast, blocks)
  <2>1. IsSequence(blocks)
    BY <1>1 DEF IsSequence
  <2>2. QED
    BY <1>9, <2>1 DEF GoodBlocks, BlockSequence
<1>h. PICK home : home = [b \in {} |-> 0]
  OBVIOUS
<1>11. Layout(ast, stack, blocks, Here, insertBlock, home)
  <2>1. home \in [1 .. Len(blocks) -> Homes(ast)]
    BY <1>9, <1>h
  <2>2. Edges(blocks, home)
    BY <1>9 DEF Edges
  <2>3. Kept(ast, stack, blocks, home)
    BY <1>4, <1>5, <1>v DEF Kept
  <2>4. Placed(ast, stack, blocks, Here.open, insertBlock, home)
    BY <1>9 DEF Placed
  <2>5. Here.open = FALSE /\ Here.in = nullptr
    BY <1>7 DEF End, Context
  <2>6. Inserting(ast, stack, blocks, Here, insertBlock, home)
    BY <1>1, <2>5 DEF Inserting
  <2>7. QED
    BY <1>9, <2>1, <2>2, <2>3, <2>4, <2>6 DEF Layout
<1>12. QED
  BY <1>1, <1>3, <1>5, <1>6, <1>8, <1>10, <1>11 DEF IInv

LEMMA StepIInv ==
  ASSUME IInv, [Next]_vars
  PROVE  IInv'
<1>1. CASE VisitProgram \/ VisitVariable \/ VisitFunction \/ FinishFunction
  BY <1>1, ProgramVisited, VariableVisited, FunctionVisited, FunctionFinished
<1>2. CASE VisitCompound \/ VisitIf \/ BranchIf \/ EnterElse \/ FinishIf
  BY <1>2, CompoundVisited, IfVisited, IfBranched, ElseEntered, IfFinished
<1>3. CASE VisitWhile \/ EnterLoop \/ FinishWhile
  BY <1>3, WhileVisited, LoopEntered, WhileFinished
<1>4. CASE VisitStatement \/ FinishReturn \/ FinishExpressionStmt
  BY <1>4, StatementVisited, ReturnFinished, ExpressionStmtFinished
<1>5. CASE VisitExpression \/ VisitAssignment \/ FinishAssignment \/ VisitVariableExpr
  BY <1>5, ExpressionVisited, AssignmentVisited, AssignmentFinished, VariableExprVisited
<1>6. CASE FinishSubscript \/ FinishImplicitCast \/ FinishCall \/ FinishOperation
  BY <1>6, SubscriptFinished, ImplicitCastFinished, CallFinished, OperationFinished
<1>7. CASE VisitLiteral
  BY <1>7, LiteralVisited
<1>8. CASE UNCHANGED vars
  <2>1. /\ ast' = ast /\ stack' = stack /\ UNCHANGED fields /\ ir_value' = ir_value
        /\ blocks' = blocks /\ insertBlock' = insertBlock
    BY <1>8 DEF vars, ir
  <2>2. Passed'
    BY <2>1, PassedStays DEF IInv
  <2>3. (Here)' = Here
    BY <2>1 DEF Here, Top, End
  <2>4. QED
    BY <2>1, <2>2, <2>3 DEF IInv, InOrder
<1>9. QED
  BY <1>1, <1>2, <1>3, <1>4, <1>5, <1>6, <1>7, <1>8, Zenon DEF Next

LEMMA Invariance == Spec => []IInv
<1>1. Init => IInv
  BY InitIInv
<1>2. IInv /\ [Next]_vars => IInv'
  BY StepIInv
<1>3. QED
  BY <1>1, <1>2, PTL DEF Spec

(***************************************************************************)
(* What a run comes to.                                                    *)
(***************************************************************************)

(***************************************************************************)
(* What the invariant says of the blocks.                                  *)
(***************************************************************************)
LEMMA BlockFacts ==
  ASSUME IInv
  PROVE  /\ ast \in Programs /\ IsProgram(ast) /\ IsTree(ast)
         /\ Len(blocks) \in Nat /\ DOMAIN blocks = 1 .. Len(blocks)
         /\ \A b \in 1 .. Len(blocks) :
              /\ IsSequence(blocks[b].code) /\ GoodCode(ast, blocks[b].code)
              /\ DOMAIN blocks[b].code = 1 .. Len(blocks[b].code)
              /\ Len(blocks[b].code) \in Nat
<1>1. ast \in Programs /\ IsProgram(ast) /\ IsTree(ast)
  BY ProgramsAssumption DEF IInv, IsProgram
<1>2. IsSequence(blocks) /\ \A b \in 1 .. Len(blocks) : GoodCode(ast, blocks[b].code)
  BY DEF IInv, GoodBlocks, BlockSequence
<1>3. Len(blocks) \in Nat /\ DOMAIN blocks = 1 .. Len(blocks)
  BY <1>2, SequenceParts
<1>4. \A b \in 1 .. Len(blocks) :
        /\ IsSequence(blocks[b].code) /\ DOMAIN blocks[b].code = 1 .. Len(blocks[b].code)
        /\ Len(blocks[b].code) \in Nat
  BY <1>2, SequenceParts DEF GoodCode
<1>5. QED
  BY <1>1, <1>2, <1>3, <1>4

LEMMA SuccessorsAre ==
  ASSUME IInv, NEW b \in 1 .. Len(blocks)
  PROVE  Successors(b) = TargetsOf(blocks[b].code)
<1>c. PICK code : code = blocks[b].code
  OBVIOUS
<1>1. DOMAIN code = 1 .. Len(code)
  BY <1>c, BlockFacts
<1>2. Range(code) = {code[i] : i \in 1 .. Len(code)}
  BY <1>1 DEF Range
<1>3. UNION {Range(i.targets) : i \in {code[j] : j \in 1 .. Len(code)}} =
        UNION {Range(code[i].targets) : i \in 1 .. Len(code)}
  <2> DEFINE R == {code[j] : j \in 1 .. Len(code)}
  <2>1. ASSUME NEW x
        PROVE  x \in UNION {Range(i.targets) : i \in R} <=>
                 x \in UNION {Range(code[i].targets) : i \in 1 .. Len(code)}
    <3>1. x \in UNION {Range(i.targets) : i \in R} <=> \E i \in R : x \in Range(i.targets)
      BY Zenon
    <3>2. x \in UNION {Range(code[i].targets) : i \in 1 .. Len(code)} <=>
            \E i \in 1 .. Len(code) : x \in Range(code[i].targets)
      BY Zenon
    <3>3. (\E i \in R : x \in Range(i.targets)) <=>
            \E i \in 1 .. Len(code) : x \in Range(code[i].targets)
      BY Zenon
    <3>4. QED
      BY <3>1, <3>2, <3>3
  <2>2. QED
    BY <2>1
<1>4. Successors(b) = UNION {Range(i.targets) : i \in Range(code)}
  BY <1>c DEF Successors
<1>5. QED
  BY <1>2, <1>3, <1>4, <1>c DEF TargetsOf

LEMMA IInvTypeOK ==
  ASSUME IInv
  PROVE  TypeOK
<1>1. /\ ast \in Programs /\ IsProgram(ast) /\ IsTree(ast)
      /\ Len(blocks) \in Nat /\ DOMAIN blocks = 1 .. Len(blocks)
      /\ \A b \in 1 .. Len(blocks) :
           /\ IsSequence(blocks[b].code) /\ GoodCode(ast, blocks[b].code)
           /\ DOMAIN blocks[b].code = 1 .. Len(blocks[b].code)
           /\ Len(blocks[b].code) \in Nat
  BY BlockFacts
<1>2. PICK home : Layout(ast, stack, blocks, Here, insertBlock, home)
  BY DEF IInv
<1>3. \A i \in DOMAIN stack : stack[i].node \in DOMAIN ast
  <2>1. stack \in Seq(Work(ast))
    BY DEF IInv
  <2>2. \A k \in Work(ast) : k.node \in DOMAIN ast
    BY DEF Work, PlainTasks, IfFrames, WhileFrames, NodesOf
  <2>3. QED
    BY <2>1, <2>2
<1>4. DOMAIN ir_value \subseteq BuiltinDecls \cup DOMAIN ast
  BY DEF IInv
<1>5. insertBlock \in {nullptr} \cup DOMAIN blocks
  BY <1>1, <1>2 DEF Layout, Inserting
<1>6. ASSUME NEW b \in DOMAIN blocks
      PROVE  blocks[b].function \in {nullptr} \cup BuiltinDecls \cup FunctionsOf(ast)
  <2>1. b \in 1 .. Len(blocks)
    BY <1>1
  <2>2. CASE b \in Pending(stack, Awaits(ast))
    <3>1. PICK i \in 1 .. Len(stack) : b \in Awaits(ast)[stack[i]]
      BY <2>2 DEF Pending
    <3>2. blocks[b].function = nullptr
      BY <1>2, <3>1 DEF Layout, Kept
    <3>3. QED
      BY <3>2
  <2>3. CASE b \notin Pending(stack, Awaits(ast))
    <3>1. blocks[b].function = home[b]
      BY <1>2, <2>1, <2>3 DEF Layout, Placed, PlacedBlock
    <3>2. home[b] \in Homes(ast)
      BY <1>2, <2>1 DEF Layout
    <3>3. QED
      BY <3>1, <3>2 DEF Homes
  <2>4. QED
    BY <2>2, <2>3
<1>7. ASSUME NEW b \in DOMAIN blocks, NEW i \in DOMAIN blocks[b].code
      PROVE  /\ blocks[b].code[i].at \in BuiltinDecls \cup DOMAIN ast
             /\ Range(blocks[b].code[i].targets) \subseteq DOMAIN blocks
  <2>1. b \in 1 .. Len(blocks) /\ i \in 1 .. Len(blocks[b].code)
    BY <1>1
  <2>2. blocks[b].code[i].at \in BuiltinDecls \cup DOMAIN ast
    BY <1>1, <2>1 DEF GoodCode
  <2>3. Range(blocks[b].code[i].targets) \subseteq TargetsOf(blocks[b].code)
    BY <2>1 DEF TargetsOf
  <2>4. TargetsOf(blocks[b].code) \subseteq 1 .. Len(blocks)
    BY <1>2, <2>1 DEF Layout, Edges
  <2>5. QED
    BY <1>1, <2>2, <2>3, <2>4
<1>8. QED
  BY <1>3, <1>4, <1>5, <1>6, <1>7 DEF TypeOK

(***************************************************************************)
(* The blocks of a program that is generated.                              *)
(***************************************************************************)
FinishedBlocks(home) ==
  /\ home \in [1 .. Len(blocks) -> Homes(ast)]
  /\ Edges(blocks, home)
  /\ \A b \in 1 .. Len(blocks) : PlacedBlock(blocks, FALSE, insertBlock, home, b)

LEMMA WhenFinished ==
  ASSUME IInv, Finished
  PROVE  \E home : FinishedBlocks(home)
<1>1. PICK home : Layout(ast, stack, blocks, Here, insertBlock, home)
  BY DEF IInv
<1>2. stack = << >> /\ Here.open = FALSE
  BY DEF Finished, Here, End, Context
<1>3. Pending(stack, Awaits(ast)) = {}
  <2>1. 1 .. Len(stack) = {}
    BY <1>2
  <2>2. QED
    BY <2>1 DEF Pending
<1>4. QED
  BY <1>1, <1>2, <1>3 DEF Layout, Placed, FinishedBlocks

LEMMA HomesAre ==
  ASSUME NEW t, IsTree(t), NEW f \in Homes(t)
  PROVE  f # nullptr
<1>1. DOMAIN t = 1 .. Len(t)
  BY DEF IsTree
<1>2. CASE f \in BuiltinDecls
  BY <1>2 DEF BuiltinDecls, nullptr, g_builtins
<1>3. CASE f \in FunctionsOf(t)
  BY <1>1, <1>3 DEF FunctionsOf, NodesOf, nullptr
<1>4. QED
  BY <1>2, <1>3 DEF Homes

\* The entry of a function is its first block, and no other is.
LEMMA EntryIsFirst ==
  ASSUME IInv, NEW home, FinishedBlocks(home), NEW b \in 1 .. Len(blocks), NEW f, f = home[b]
  PROVE  /\ BlocksOf(f) = {c \in 1 .. Len(blocks) : home[c] = f}
         /\ Entry(f) \in 1 .. Len(blocks) /\ home[Entry(f)] = f /\ IsFirst(home, Entry(f))
         /\ \A c \in 1 .. Len(blocks) : home[c] = f /\ IsFirst(home, c) => c = Entry(f)
<1>1. Len(blocks) \in Nat /\ DOMAIN blocks = 1 .. Len(blocks)
  BY BlockFacts
<1>2. BlocksOf(f) = {c \in 1 .. Len(blocks) : home[c] = f}
  BY <1>1 DEF BlocksOf, FinishedBlocks, PlacedBlock
<1>B. PICK B : B = BlocksOf(f)
  OBVIOUS
<1>3. B \in SUBSET Nat /\ B # {} /\ B = {c \in 1 .. Len(blocks) : home[c] = f}
  BY <1>2, <1>B
<1>4. PICK e \in B : \A c \in B : e <= c
  BY <1>3, Least
<1>5. Min(B) = e
  <2>1. \A x \in B : (\A y \in B : x <= y) => x = e
    BY <1>3, <1>4
  <2>2. QED
    BY <1>4, <2>1 DEF Min
<1>6. Entry(f) = e
  BY <1>5, <1>B DEF Entry
<1>7. IsFirst(home, e)
  <2>1. \A c \in 1 .. e - 1 : c \in 1 .. Len(blocks) /\ ~ e <= c
    BY <1>1, <1>3
  <2>2. QED
    BY <1>3, <1>4, <2>1 DEF IsFirst
<1>8. ASSUME NEW c \in 1 .. Len(blocks), home[c] = f, IsFirst(home, c) PROVE c = e
  <2>1. c \in B /\ e \in 1 .. Len(blocks) /\ home[e] = f /\ e <= c
    BY <1>3, <1>4, <1>8
  <2>2. c # e => e \in 1 .. c - 1
    BY <1>1, <2>1
  <2>3. QED
    BY <1>8, <2>1, <2>2 DEF IsFirst
<1>9. QED
  BY <1>2, <1>3, <1>4, <1>6, <1>7, <1>8

LEMMA ReachedIs ==
  ASSUME IInv, NEW f, NEW next, next = [b \in 1 .. Len(blocks) |-> Successors(b)],
         next \in [1 .. Len(blocks) -> SUBSET (1 .. Len(blocks))],
         Entry(f) \in 1 .. Len(blocks)
  PROVE  \E g : Jumps(Len(blocks), Entry(f), next, g) /\ Reached(f) = g[Len(blocks)]
<1>N. PICK N : N = Len(blocks)
  OBVIOUS
<1>m. PICK m : m = Entry(f)
  OBVIOUS
<1> DEFINE Step(g, jumps) ==
             IF jumps = 0 THEN {m}
             ELSE LET before == g[jumps - 1]
                  IN  before \cup UNION {Successors(b) : b \in before}
           P(g) == g = [jumps \in 0 .. N |-> Step(g, jumps)]
<1>1. N \in Nat /\ m \in 1 .. N /\ next \in [1 .. N -> SUBSET (1 .. N)]
      /\ \A b \in 1 .. N : next[b] = Successors(b)
  BY <1>N, <1>m, BlockFacts
<1>2. PICK h : Jumps(N, m, next, h)
  <2>1. N \in Nat /\ m \in 1 .. N
    BY <1>1
  <2>2. next \in [1 .. N -> SUBSET (1 .. N)]
    BY <1>1
  <2>3. QED
    BY <2>1, <2>2, JumpsDefined
<1>3. ASSUME NEW S \in SUBSET (1 .. N)
      PROVE  UNION {Successors(b) : b \in S} = UNION {next[b] : b \in S}
  <2>1. \A b \in S : next[b] = Successors(b)
    BY <1>1
  <2>2. {Successors(b) : b \in S} = {next[b] : b \in S}
    BY <2>1
  <2>3. QED
    BY <2>2
<1>4. P(h)
  <2>1. h = [jumps \in 0 .. N |-> h[jumps]]
    BY <1>2 DEF Jumps
  <2>2. ASSUME NEW k \in 0 .. N PROVE h[k] = Step(h, k)
    <3>1. CASE k = 0
      BY <1>2, <3>1 DEF Jumps
    <3>2. CASE k # 0
      <4>1. k - 1 \in 0 .. N /\ k = (k - 1) + 1
        BY <1>1, <3>2
      <4>2. h[k] = h[k - 1] \cup UNION {next[b] : b \in h[k - 1]}
        BY <1>2, <4>1 DEF Jumps
      <4>3. h[k - 1] \in SUBSET (1 .. N)
        BY <1>2, <4>1 DEF Jumps
      <4>4. UNION {Successors(b) : b \in h[k - 1]} = UNION {next[b] : b \in h[k - 1]}
        BY <1>3, <4>3
      <4>5. QED
        BY <3>2, <4>2, <4>4
    <3>3. QED
      BY <3>1, <3>2
  <2>3. QED
    BY <2>1, <2>2
<1>5. Reached(f) = (CHOOSE g : P(g))[N]
  BY <1>N, <1>m DEF Reached
<1>6. PICK g : g = CHOOSE w : P(w)
  OBVIOUS
<1>7. P(g)
  BY <1>4, <1>6
<1>8. ASSUME NEW k \in 0 .. N PROVE g[k] = Step(g, k)
  BY <1>7
<1>9. g[0] = {m}
  <2>1. 0 \in 0 .. N
    BY <1>1
  <2>2. g[0] = Step(g, 0)
    BY <1>8, <2>1
  <2>3. QED
    BY <2>2
<1>10. ASSUME NEW p \in 0 .. N, NEW k \in 0 .. N, k = p + 1
       PROVE  g[k] = g[p] \cup UNION {Successors(b) : b \in g[p]}
  <2>1. k # 0 /\ k - 1 = p
    BY <1>1, <1>10
  <2>2. g[k] = Step(g, k)
    BY <1>8
  <2>3. QED
    BY <2>1, <2>2
<1>11. \A k \in 0 .. N : g[k] \in SUBSET (1 .. N)
  <2> DEFINE Bad == {k \in 0 .. N : g[k] \notin SUBSET (1 .. N)}
  <2>1. ASSUME Bad # {} PROVE FALSE
    <3>1. Bad \in SUBSET Nat
      BY <1>1
    <3>2. PICK k \in Bad : \A j \in Bad : k <= j
      <4> HIDE DEF Bad
      <4>1. QED
        BY <2>1, <3>1, Least
    <3>3. k # 0 /\ k \in 0 .. N
      BY <1>1, <1>9, <3>2
    <3>4. PICK j \in 0 .. N : k = j + 1 /\ ~ k <= j
      <4>1. k - 1 \in 0 .. N /\ k = (k - 1) + 1 /\ ~ k <= k - 1
        BY <1>1, <3>3
      <4>2. QED
        BY <4>1
    <3>5. g[j] \in SUBSET (1 .. N)
      BY <3>2, <3>4
    <3>6. g[k] = g[j] \cup UNION {next[b] : b \in g[j]}
      BY <1>3, <1>10, <3>3, <3>4, <3>5
    <3>7. \A b \in g[j] : next[b] \in SUBSET (1 .. N)
      BY <1>1, <3>5
    <3>8. g[k] \in SUBSET (1 .. N)
      BY <3>5, <3>6, <3>7
    <3>9. QED
      BY <3>2, <3>8
  <2>2. QED
    BY <2>1
<1>12. g \in [0 .. N -> SUBSET (1 .. N)]
  <2>1. g = [jumps \in 0 .. N |-> g[jumps]]
    BY <1>7
  <2>2. QED
    BY <1>11, <2>1
<1>13. \A p, k \in 0 .. N : k = p + 1 => g[k] = g[p] \cup UNION {next[b] : b \in g[p]}
  BY <1>3, <1>10, <1>11
<1>14. Jumps(N, m, next, g)
  BY <1>1, <1>9, <1>12, <1>13 DEF Jumps
<1>15. QED
  BY <1>5, <1>6, <1>14, <1>N, <1>m

LEMMA AllReached ==
  ASSUME IInv, NEW home, FinishedBlocks(home), NEW b \in 1 .. Len(blocks), NEW f, f = home[b]
  PROVE  b \in Reached(f)
<1>N. PICK N : N = Len(blocks)
  OBVIOUS
<1>e. PICK e : e = Entry(f)
  OBVIOUS
<1>next. PICK next : next = [c \in 1 .. N |-> Successors(c)]
  OBVIOUS
<1>1. /\ e \in 1 .. N /\ home[e] = f
      /\ \A c \in 1 .. N : home[c] = f /\ IsFirst(home, c) => c = e
  BY <1>N, <1>e, EntryIsFirst
<1>2. \A c \in 1 .. N : next[c] = TargetsOf(blocks[c].code)
  BY <1>N, <1>next, SuccessorsAre
<1>3. \A c \in 1 .. N : \A d \in next[c] : d \in 1 .. N /\ home[d] = home[c]
  BY <1>2, <1>N DEF FinishedBlocks, Edges
<1>4. next \in [1 .. N -> SUBSET (1 .. N)]
  BY <1>3, <1>next
<1>5. PICK g : Jumps(N, e, next, g) /\ Reached(f) = g[N]
  <2>1. next = [c \in 1 .. Len(blocks) |-> Successors(c)]
    BY <1>N, <1>next
  <2>2. next \in [1 .. Len(blocks) -> SUBSET (1 .. Len(blocks))]
    BY <1>4, <1>N
  <2>3. Entry(f) \in 1 .. Len(blocks)
    BY <1>1, <1>N, <1>e
  <2>4. \E g : Jumps(Len(blocks), Entry(f), next, g) /\ Reached(f) = g[Len(blocks)]
    BY <2>1, <2>2, <2>3, ReachedIs
  <2>5. QED
    BY <2>4, <1>N, <1>e
<1>6. PICK S \in SUBSET g[N] : e \in S /\ \A c \in S : next[c] \subseteq S
  BY <1>5, FewJumpsEnough
<1>7. S \subseteq 1 .. N
  BY <1>5, <1>6 DEF Jumps
<1>T. PICK T : T = S \cup {c \in 1 .. N : home[c] # f}
  OBVIOUS
<1>8. T \in SUBSET Nat
  <2>1. N \in Nat
    BY <1>N, BlockFacts
  <2>2. 1 .. N \subseteq Nat
    BY <2>1
  <2>3. QED
    BY <1>7, <1>T, <2>2
<1>9. \A c \in 1 .. N : IsFirst(home, c) => c \in T
  BY <1>1, <1>6, <1>T
<1>10. Closed(blocks, T)
  <2>1. ASSUME NEW c \in 1 .. N, c \in T, NEW d \in next[c] PROVE d \in T
    BY <1>3, <1>6, <1>T, <2>1
  <2>2. \A c \in 1 .. Len(blocks) : c \in T => TargetsOf(blocks[c].code) \subseteq T
    BY <1>2, <1>N, <2>1
  <2>3. QED
    BY <2>2 DEF Closed
<1>11. Reachable(blocks, home, b)
  BY DEF FinishedBlocks, PlacedBlock
<1>12. b \in T
  BY <1>8, <1>9, <1>10, <1>11, <1>N DEF Reachable
<1>13. QED
  BY <1>5, <1>6, <1>12, <1>T

LEMMA IInvComplete ==
  ASSUME IInv
  PROVE  BlocksComplete
<1> SUFFICES ASSUME Finished, NEW b \in DOMAIN blocks
             PROVE  /\ blocks[b].function # nullptr
                    /\ b \in Reached(blocks[b].function)
                    /\ blocks[b].code # << >>
                    /\ Last(blocks[b].code).op \in Terminators
                    /\ Successors(b) \subseteq
                         BlocksOf(blocks[b].function) \ {Entry(blocks[b].function)}
  BY DEF BlocksComplete
<1>1. PICK home : FinishedBlocks(home)
  BY WhenFinished
<1>2. b \in 1 .. Len(blocks) /\ IsTree(ast)
  BY BlockFacts
<1>f. PICK f : f = home[b]
  OBVIOUS
<1>3. blocks[b].function = f /\ Ended(blocks[b].code)
  BY <1>1, <1>2, <1>f DEF FinishedBlocks, PlacedBlock
<1>4. f # nullptr
  BY <1>1, <1>2, <1>f, HomesAre DEF FinishedBlocks
<1>5. b \in Reached(f)
  BY <1>1, <1>2, <1>f, AllReached
<1>6. blocks[b].code # << >> /\ Last(blocks[b].code).op \in Terminators
  BY <1>3 DEF Ended, Last
<1>7. ASSUME NEW c \in Successors(b) PROVE c \in BlocksOf(f) \ {Entry(f)}
  <2>1. /\ BlocksOf(f) = {d \in 1 .. Len(blocks) : home[d] = f}
        /\ Entry(f) \in 1 .. Len(blocks) /\ home[Entry(f)] = f /\ IsFirst(home, Entry(f))
        /\ \A d \in 1 .. Len(blocks) : home[d] = f /\ IsFirst(home, d) => d = Entry(f)
    BY <1>1, <1>2, <1>f, EntryIsFirst
  <2>2. c \in TargetsOf(blocks[b].code)
    BY <1>2, <1>7, SuccessorsAre
  <2>3. c \in 1 .. Len(blocks) /\ home[c] = f /\ IsLater(home, c)
    BY <1>1, <1>2, <1>f, <2>2 DEF FinishedBlocks, Edges
  <2>4. ~ IsFirst(home, c)
    BY <2>3 DEF IsFirst, IsLater
  <2>5. c # Entry(f)
    BY <2>1, <2>4
  <2>6. QED
    BY <2>1, <2>3, <2>5
<1>8. QED
  BY <1>3, <1>4, <1>5, <1>6, <1>7

(***************************************************************************)
(* The results.                                                            *)
(***************************************************************************)

\* What is generated is for nodes of the tree, and every branch leads to a
\* block that was created (CodegenVisitor.cpp).
THEOREM TypeCorrectness == Spec => []TypeOK
<1>1. IInv => TypeOK
  BY IInvTypeOK
<1>2. QED
  BY <1>1, Invariance, PTL

\* Whatever a statement that always returns is followed by, nothing is written
\* behind the terminator of a block (CodegenVisitor.cpp:205-211, 238-267,
\* 291-302).
THEOREM NothingIsDead == Spec => []NothingAfterTerminator
<1>1. ASSUME IInv PROVE NothingAfterTerminator
  BY <1>1, BlockFacts DEF NothingAfterTerminator, GoodCode
<1>2. QED
  BY <1>1, Invariance, PTL

\* A return that the program does not contain is added to void functions only
\* (CodegenVisitor.cpp:184-186).
THEOREM OnlyVoidReturnsImplicitly == Spec => []ImplicitReturnsAreVoid
<1>1. ASSUME IInv PROVE ImplicitReturnsAreVoid
  <2>1. ASSUME NEW b \in DOMAIN blocks, NEW i \in Range(blocks[b].code),
               i.op = "ret", i.at \in FunctionsOf(ast)
        PROVE  ast[i.at].type = Void
    <3>1. b \in 1 .. Len(blocks) /\ GoodCode(ast, blocks[b].code)
          /\ DOMAIN blocks[b].code = 1 .. Len(blocks[b].code)
      BY <1>1, BlockFacts
    <3>2. PICK k \in 1 .. Len(blocks[b].code) : i = blocks[b].code[k]
      BY <3>1 DEF Range
    <3>3. QED
      BY <2>1, <3>1, <3>2 DEF GoodCode
  <2>2. QED
    BY <2>1 DEF ImplicitReturnsAreVoid
<1>2. QED
  BY <1>1, Invariance, PTL

\* When the pass ends every block that was created is placed in a function,
\* reached from its entry and ended, and no branch leads to an entry or out of
\* the function (CodegenVisitor.cpp, the visits of functions, ifs and whiles).
THEOREM BlocksAreComplete == Spec => []BlocksComplete
<1>1. IInv => BlocksComplete
  BY IInvComplete
<1>2. QED
  BY <1>1, Invariance, PTL

(***************************************************************************)
(* No instruction that the code generator writes uses a value that is not  *)
(* there: on every tree that the semantic pass accepts, a run of the       *)
(* blocks has allocated the place and computed the operands by the time it *)
(* comes to an instruction that uses them.                                 *)
(*                                                                         *)
(* Every block can rely on the places of the declarations that are in      *)
(* scope at the statement it was created for.  The work that is pending    *)
(* relies on the declarations in scope at its node, and on the values of   *)
(* the operands that were visited before.                                  *)
(***************************************************************************)

(***************************************************************************)
(* What is there at a node: the declarations that are visible.  One that   *)
(* is not global needs its allocation.                                     *)
(***************************************************************************)
Need(t, d) == IF d \in BuiltinDecls \/ Depth(t, d) = 0 THEN {} ELSE {Effect("alloca", d)}

Needs(t, D) == UNION {Need(t, d) : d \in D}

Allocas(t) == {Effect("alloca", d) : d \in DeclsOf(t)}

(***************************************************************************)
(* What needs an allocation.                                               *)
(***************************************************************************)
LEMMA NeedsAllocas ==
  ASSUME NEW t, NEW D, D \subseteq DeclsOf(t) \cup BuiltinDecls
  PROVE  Needs(t, D) \subseteq Allocas(t)
BY DEF Needs, Need, Allocas

LEMMA NeedsMore ==
  ASSUME NEW t, NEW D, NEW E
  PROVE  /\ D \subseteq E => Needs(t, D) \subseteq Needs(t, E)
         /\ Needs(t, D \cup E) = Needs(t, D) \cup Needs(t, E)
         /\ \A d \in D : Need(t, d) \subseteq Needs(t, D)
BY DEF Needs

\* Nothing outside of functions does.
LEMMA TopNeedsNothing ==
  ASSUME NEW t, IsProgram(t), NEW n \in DOMAIN t, IsTopLevel(t, n)
  PROVE  /\ Needs(t, Visible(t, n)) = {}
         /\ Need(t, n) = {} \/ n = 1
         /\ \A d \in Visible(t, n) : d \in BuiltinDecls \/ \E i \in 1 .. Len(t[1].kids) : d = Kid(t, 1, i)
<1>1. IsTree(t) /\ t[1].kind = "Program" /\ 1 \in DOMAIN t
  BY NodeShape DEF IsProgram, IsTree
<1>2. CASE n = 1
  BY <1>2 DEF Visible, Needs
<1>3. ASSUME NEW i \in 1 .. Len(t[1].kids), n = Kid(t, 1, i)
      PROVE  /\ Needs(t, Visible(t, n)) = {} /\ Need(t, n) = {}
             /\ \A d \in Visible(t, n) : d \in BuiltinDecls \/ \E j \in 1 .. Len(t[1].kids) : d = Kid(t, 1, j)
  <2>1. Need(t, n) = {}
    BY <1>3, TopLevelDepth DEF Need
  <2>2. ASSUME NEW d \in Visible(t, n), d \notin BuiltinDecls
        PROVE  \E l \in 1 .. Len(t[1].kids) : d = Kid(t, 1, l)
    <3>1. d \in DeclsOf(t)
      BY <2>2, VisibleTyped
    <3>2. d <= 1 \/ \E l \in 1 .. i - 1 : d = Kid(t, 1, l)
      BY <1>1, <1>3, <3>1, VisibleAtKid
    <3>3. d \in Nat \ {0} /\ d # 1
      BY <1>1, <3>1, NodeShape DEF DeclsOf, DeclKinds, IsTree
    <3>4. Len(t[1].kids) \in Nat
      BY <1>1, NodeShape
    <3>5. \A l \in 1 .. i - 1 : l \in 1 .. Len(t[1].kids)
      BY <3>4
    <3>6. QED
      BY <3>2, <3>3, <3>5
  <2>3. ASSUME NEW d \in Visible(t, n) PROVE Need(t, d) = {}
    <3>1. CASE d \in BuiltinDecls
      BY <3>1 DEF Need
    <3>2. CASE d \notin BuiltinDecls
      BY <2>2, <3>2, TopLevelDepth DEF Need
    <3>3. QED
      BY <3>1, <3>2
  <2>4. QED
    BY <2>1, <2>2, <2>3 DEF Needs
<1>4. QED
  BY <1>2, <1>3 DEF IsTopLevel

\* The functions, and what is visible at one.
LEMMA FunctionNeedsNothing ==
  ASSUME NEW t, IsProgram(t), NEW f \in FunctionsOf(t)
  PROVE  IsTopLevel(t, f) /\ f # 1 /\ f \in DeclsOf(t) /\ f \in DOMAIN t /\ Need(t, f) = {}
<1>1. f \in DOMAIN t /\ t[f].kind = "Function" /\ t[1].kind = "Program"
  BY DEF FunctionsOf, NodesOf, IsProgram
<1>2. f # 1 /\ f \in DeclsOf(t)
  BY <1>1 DEF DeclsOf, DeclKinds
<1>3. IsTopLevel(t, f)
  BY <1>1, KidsOfRoot DEF IsTopLevel
<1>4. QED
  BY <1>1, <1>2, <1>3, TopNeedsNothing

\* In the body of a function its parameters are visible, too.
LEMMA VisibleInBody ==
  ASSUME NEW t, IsProgram(t), NEW f \in FunctionsOf(t)
  PROVE  /\ Visible(t, f) \subseteq Visible(t, Body(t, f))
         /\ f \in Visible(t, Body(t, f))
         /\ Visible(t, Body(t, f)) \subseteq Visible(t, f) \cup {f} \cup Range(Parameters(t, f))
         /\ Range(Parameters(t, f)) \subseteq DeclsOf(t)
<1>1. /\ IsTree(t) /\ f \in DOMAIN t /\ t[f].kind = "Function" /\ f # 1 /\ f \in DeclsOf(t)
      /\ Need(t, f) = {} /\ IsTopLevel(t, f)
  BY FunctionNeedsNothing DEF IsProgram, FunctionsOf, NodesOf
<1> PICK k : k = Len(t[f].kids)
  OBVIOUS
<1> PICK b : b = Body(t, f)
  OBVIOUS
<1>2. k \in Nat \ {0} /\ k \in 1 .. k /\ b = Kid(t, f, k) /\ b \in DOMAIN t
  BY <1>1, FunctionParts
<1>3. /\ Parameters(t, f) \in Seq(DeclsOf(t)) /\ Len(Parameters(t, f)) = k - 1
      /\ \A i \in 1 .. k - 1 : Parameters(t, f)[i] = Kid(t, f, i)
  BY <1>1, FunctionParts
<1>4. Range(Parameters(t, f)) \subseteq DeclsOf(t)
      /\ \A i \in 1 .. k - 1 : Kid(t, f, i) \in Range(Parameters(t, f))
  BY <1>2, <1>3 DEF Range
<1>5. /\ Visible(t, f) \subseteq Visible(t, b)
      /\ Visible(t, b) \subseteq
           BuiltinDecls \cup Visible(t, f) \cup ({f} \cap DeclsOf(t)) \cup
           ({Kid(t, f, l) : l \in 1 .. k - 1} \cap DeclsOf(t))
  BY <1>1, <1>2, VisibleInTurn
<1>6. BuiltinDecls \subseteq Visible(t, f)
  BY <1>1 DEF Visible
<1>7. f \in Visible(t, b)
  <2>1. Owner(t, f) \in DOMAIN t /\ Within(t, f, Owner(t, f))
    <3>1. Owner(t, f) \in ScopesAround(t, f) /\ Owner(t, f) \in 1 .. Len(t)
      BY <1>1, OwnerAround
    <3>2. QED
      BY <1>1, <3>1 DEF ScopesAround, IsTree
  <2>2. Within(t, b, Owner(t, f))
    BY <1>1, <1>2, <2>1, AroundKid
  <2>3. f < b /\ b # 1
    <3>1. f < b
      BY <1>1, <1>2, KidsInside
    <3>2. f \in Nat \ {0}
      BY <1>1, NodeShape
    <3>3. QED
      BY <3>1, <3>2
  <2>4. QED
    BY <1>1, <2>2, <2>3 DEF Visible
<1>8. QED
  BY <1>4, <1>5, <1>6, <1>7

(***************************************************************************)
(* The pending work.                                                       *)
(***************************************************************************)
\* The declarations that a task finds, and those that it leaves.
Sees(t, k) ==
  Visible(t, k.node) \cup IF k.op = "finish" THEN {k.node} \cap DeclsOf(t) ELSE {}

Declares(t, k) ==
  IF k.op # "visit" THEN {} ELSE IF k.node = 1 THEN Homes(t) ELSE {k.node} \cap DeclsOf(t)

\* The operands whose values a task reads, and the value that it leaves.
Uses(t, k) ==
  IF k.op = "finish" /\ t[k.node].kind # "Function"
  THEN {Kid(t, k.node, i) : i \in 1 .. Len(t[k.node].kids)}
  ELSE IF k.op \in {"branch", "loop"} THEN {Kid(t, k.node, 1)} ELSE {}

Evaluates(t, k) == k.op \in {"visit", "finish"} /\ t[k.node].kind \in ExpressionKinds

Gives(t, k) == IF Evaluates(t, k) THEN {k.node} ELSE {}

\* What the task on top finds, or the end of the pass.
Demand(t, s) == IF Len(s) = 0 THEN Homes(t) ELSE Sees(t, s[Len(s)])

SeesInTurn(t, s) ==
  \A i \in 1 .. Len(s) :
    (IF i = 1 THEN Homes(t) ELSE Sees(t, s[i - 1])) \subseteq Sees(t, s[i]) \cup Declares(t, s[i])

\* An operand that is not in F yet is what a task above is to leave; above a
\* task with operands there are expressions only.
UsesInTurn(t, s, F) ==
  \A i \in 1 .. Len(s) :
    /\ \A x \in Uses(t, s[i]) : x \in F \/ \E j \in i + 1 .. Len(s) : x \in Gives(t, s[j])
    /\ Uses(t, s[i]) # {} => \A j \in i + 1 .. Len(s) : Evaluates(t, s[j])

\* The tasks that replace the one on top find no more than D, and leave what
\* it was to leave.
SeesFit(t, top, tasks, D) ==
  /\ \A a \in 1 .. Len(tasks) - 1 :
       Sees(t, tasks[a + 1]) \subseteq Sees(t, tasks[a]) \cup Declares(t, tasks[a])
  /\ IF Len(tasks) = 0
     THEN Sees(t, top) \cup Declares(t, top) \subseteq D
     ELSE /\ Sees(t, tasks[1]) \subseteq D
          /\ Sees(t, top) \cup Declares(t, top) \subseteq
               Sees(t, tasks[Len(tasks)]) \cup Declares(t, tasks[Len(tasks)])

UsesFit(t, top, tasks, F, G) ==
  /\ \A a \in 1 .. Len(tasks) :
       /\ \A x \in Uses(t, tasks[a]) : \E b \in 1 .. a - 1 : x \in Gives(t, tasks[b])
       /\ Uses(t, tasks[a]) # {} => \A b \in 1 .. a - 1 : Evaluates(t, tasks[b])
  /\ Evaluates(t, top) =>
       /\ F \subseteq G
       /\ \A a \in 1 .. Len(tasks) : Evaluates(t, tasks[a])
       /\ IF Len(tasks) = 0 THEN top.node \in G ELSE tasks[Len(tasks)].node = top.node

\* Where the tasks are on the stack.
Places(s, s2, tasks, k, l) ==
  /\ k \in Nat \ {0} /\ l \in Nat /\ Len(s2) = k - 1 + l
  /\ \A i \in 1 .. k - 1 : i \in 1 .. Len(s2) /\ s2[i] = s[i]
  /\ \A a \in 1 .. l : k + l - a \in 1 .. Len(s2) /\ s2[k + l - a] = tasks[a]
  /\ \A i \in 1 .. Len(s2) : i \in 1 .. k - 1 \/ \E a \in 1 .. l : i = k + l - a

LEMMA ReplacedPlaces ==
  ASSUME NEW s, NEW s2, NEW tasks, Replaced(s, s2, tasks)
  PROVE  Places(s, s2, tasks, Len(s), Len(tasks))
<1> PICK k : k = Len(s)
  OBVIOUS
<1> PICK l : l = Len(tasks)
  OBVIOUS
<1>1. /\ k \in Nat \ {0} /\ l \in Nat /\ Len(s2) = k - 1 + l
      /\ \A i \in 1 .. k - 1 : s2[i] = s[i]
      /\ \A i \in 1 .. l : s2[k - 1 + i] = tasks[l - i + 1]
  BY DEF Replaced
<1>2. ASSUME NEW a \in 1 .. l PROVE k + l - a \in 1 .. Len(s2) /\ s2[k + l - a] = tasks[a]
  <2>1. PICK i : i = l - a + 1
    OBVIOUS
  <2>2. i \in 1 .. l /\ k - 1 + i = k + l - a /\ l - i + 1 = a
    BY <1>1, <2>1
  <2>3. s2[k - 1 + i] = tasks[l - i + 1]
    BY <1>1, <2>2
  <2>4. k + l - a \in 1 .. Len(s2)
    BY <1>1
  <2>5. QED
    BY <2>2, <2>3, <2>4
<1>3. ASSUME NEW i \in 1 .. Len(s2), i \notin 1 .. k - 1
      PROVE  \E a \in 1 .. l : i = k + l - a
  <2>1. k + l - i \in 1 .. l /\ i = k + l - (k + l - i)
    BY <1>1, <1>3
  <2>2. QED
    BY <2>1
<1>4. \A i \in 1 .. k - 1 : i \in 1 .. Len(s2)
  BY <1>1
<1>5. QED
  BY <1>1, <1>2, <1>3, <1>4 DEF Places

LEMMA SeesStep ==
  ASSUME NEW t, NEW s, NEW s2, NEW tasks, Replaced(s, s2, tasks), SeesInTurn(t, s),
         NEW D, SeesFit(t, s[Len(s)], tasks, D)
  PROVE  SeesInTurn(t, s2) /\ Demand(t, s2) \subseteq D
<1> PICK k : k = Len(s)
  OBVIOUS
<1> PICK l : l = Len(tasks)
  OBVIOUS
<1> DEFINE Below(i) == IF i = 1 THEN Homes(t) ELSE Sees(t, s[i - 1])
           Below2(i) == IF i = 1 THEN Homes(t) ELSE Sees(t, s2[i - 1])
<1>1. /\ k \in Nat \ {0} /\ l \in Nat /\ Len(s2) = k - 1 + l
      /\ \A i \in 1 .. k - 1 : i \in 1 .. Len(s2) /\ s2[i] = s[i]
      /\ \A a \in 1 .. l : k + l - a \in 1 .. Len(s2) /\ s2[k + l - a] = tasks[a]
      /\ \A i \in 1 .. Len(s2) : i \in 1 .. k - 1 \/ \E a \in 1 .. l : i = k + l - a
  <2>1. Places(s, s2, tasks, k, l)
    BY ReplacedPlaces, Zenon
  <2>2. QED
    BY <2>1, Zenon DEF Places
<1>2. \A i \in 1 .. k : Below(i) \subseteq Sees(t, s[i]) \cup Declares(t, s[i])
  BY DEF SeesInTurn
<1>3. \A i \in 1 .. k : Below2(i) = Below(i)
  <2>1. ASSUME NEW i \in 1 .. k, i # 1 PROVE s2[i - 1] = s[i - 1]
    <3>1. i - 1 \in 1 .. k - 1
      BY <1>1, <2>1
    <3>2. QED
      BY <1>1, <3>1
  <2>2. QED
    BY <2>1
<1>4. k \in 1 .. k
  BY <1>1
<1>5. ASSUME NEW i \in 1 .. Len(s2) PROVE Below2(i) \subseteq Sees(t, s2[i]) \cup Declares(t, s2[i])
  <2>1. CASE i \in 1 .. k - 1
    <3>1. i \in 1 .. k /\ s2[i] = s[i]
      BY <1>1, <2>1
    <3>2. QED
      BY <1>2, <1>3, <3>1
  <2>2. ASSUME NEW a \in 1 .. l, i = k + l - a
        PROVE  Below2(i) \subseteq Sees(t, s2[i]) \cup Declares(t, s2[i])
    <3>1. s2[i] = tasks[a]
      BY <1>1, <2>2
    <3>2. CASE a = l
      <4>1. i = k /\ l # 0
        BY <1>1, <2>2, <3>2
      <4>2. Below2(i) \subseteq Sees(t, s[k]) \cup Declares(t, s[k])
        BY <1>2, <1>3, <1>4, <4>1
      <4>3. Sees(t, s[k]) \cup Declares(t, s[k]) \subseteq Sees(t, tasks[l]) \cup Declares(t, tasks[l])
        BY <4>1 DEF SeesFit
      <4>4. QED
        BY <3>1, <3>2, <4>2, <4>3
    <3>3. CASE a # l
      <4>1. a + 1 \in 1 .. l /\ a \in 1 .. l - 1 /\ i # 1 /\ i - 1 = k + l - (a + 1)
        BY <1>1, <2>2, <3>3
      <4>2. s2[i - 1] = tasks[a + 1]
        BY <1>1, <4>1
      <4>3. Sees(t, tasks[a + 1]) \subseteq Sees(t, tasks[a]) \cup Declares(t, tasks[a])
        BY <4>1 DEF SeesFit
      <4>4. QED
        BY <3>1, <4>1, <4>2, <4>3
    <3>4. QED
      BY <3>2, <3>3
  <2>3. QED
    BY <1>1, <2>1, <2>2
<1>6. Demand(t, s2) \subseteq D
  <2>1. CASE l = 0
    <3>1. Len(s2) = k - 1 /\ Demand(t, s2) = Below2(k)
      <4>1. Len(s2) = k - 1 /\ (Len(s2) = 0 <=> k = 1)
        BY <1>1, <2>1
      <4>2. QED
        BY <4>1 DEF Demand
    <3>2. Sees(t, s[k]) \cup Declares(t, s[k]) \subseteq D
      BY <2>1 DEF SeesFit
    <3>3. QED
      BY <1>2, <1>3, <1>4, <3>1, <3>2
  <2>2. CASE l # 0
    <3>1. 1 \in 1 .. l /\ k + l - 1 = Len(s2) /\ Len(s2) # 0
      BY <1>1, <2>2
    <3>2. s2[Len(s2)] = tasks[1]
      BY <1>1, <3>1
    <3>3. QED
      BY <2>2, <3>1, <3>2 DEF Demand, SeesFit
  <2>3. QED
    BY <2>1, <2>2
<1>7. QED
  BY <1>5, <1>6 DEF SeesInTurn

LEMMA UsesStep ==
  ASSUME NEW t, NEW s, NEW s2, NEW tasks, Replaced(s, s2, tasks), NEW F, NEW G,
         UsesInTurn(t, s, F), UsesFit(t, s[Len(s)], tasks, F, G)
  PROVE  UsesInTurn(t, s2, G)
<1> PICK k : k = Len(s)
  OBVIOUS
<1> PICK l : l = Len(tasks)
  OBVIOUS
<1>1. /\ k \in Nat \ {0} /\ l \in Nat /\ Len(s2) = k - 1 + l
      /\ \A i \in 1 .. k - 1 : i \in 1 .. Len(s2) /\ s2[i] = s[i]
      /\ \A a \in 1 .. l : k + l - a \in 1 .. Len(s2) /\ s2[k + l - a] = tasks[a]
      /\ \A i \in 1 .. Len(s2) : i \in 1 .. k - 1 \/ \E a \in 1 .. l : i = k + l - a
  <2>1. Places(s, s2, tasks, k, l)
    BY ReplacedPlaces, Zenon
  <2>2. QED
    BY <2>1, Zenon DEF Places
<1>2. \A a \in 1 .. l :
        /\ \A x \in Uses(t, tasks[a]) : \E b \in 1 .. a - 1 : x \in Gives(t, tasks[b])
        /\ Uses(t, tasks[a]) # {} => \A b \in 1 .. a - 1 : Evaluates(t, tasks[b])
  BY DEF UsesFit
<1>3. Evaluates(t, s[k]) =>
        /\ F \subseteq G
        /\ \A a \in 1 .. l : Evaluates(t, tasks[a])
        /\ IF l = 0 THEN s[k].node \in G ELSE tasks[l].node = s[k].node
  BY DEF UsesFit
<1>4. ASSUME NEW i \in 1 .. k - 1
      PROVE  /\ Uses(t, s2[i]) = Uses(t, s[i]) /\ i \in 1 .. k
             /\ k \in i + 1 .. k
             /\ \A j \in i + 1 .. Len(s2) :
                  \/ j \in i + 1 .. k - 1 /\ j \in 1 .. k - 1 /\ j \in i + 1 .. k
                  \/ \E a \in 1 .. l : j = k + l - a
             /\ \A j \in i + 1 .. k : j = k \/ (j \in 1 .. k - 1 /\ j \in i + 1 .. Len(s2))
             /\ \A a \in 1 .. l : k + l - a \in i + 1 .. Len(s2)
  <2>1. Uses(t, s2[i]) = Uses(t, s[i]) /\ i \in 1 .. k /\ k \in i + 1 .. k
    BY <1>1
  <2>2. ASSUME NEW j \in i + 1 .. Len(s2), j \notin 1 .. k - 1 PROVE \E a \in 1 .. l : j = k + l - a
    <3>1. j \in 1 .. Len(s2)
      BY <1>1
    <3>2. QED
      BY <1>1, <2>2, <3>1
  <2>3. \A j \in i + 1 .. Len(s2) : j \in 1 .. k - 1 => j \in i + 1 .. k - 1 /\ j \in i + 1 .. k
    BY <1>1
  <2>4. \A j \in i + 1 .. k : j = k \/ (j \in 1 .. k - 1 /\ j \in i + 1 .. Len(s2))
    BY <1>1
  <2>5. \A a \in 1 .. l : k + l - a \in i + 1 .. Len(s2)
    BY <1>1
  <2>6. QED
    BY <2>1, <2>2, <2>3, <2>4, <2>5
<1>5. ASSUME NEW i \in 1 .. k - 1, Uses(t, s[i]) # {}
      PROVE  /\ \A j \in i + 1 .. Len(s2) : Evaluates(t, s2[j])
             /\ \A x \in Uses(t, s[i]) : x \in G \/ \E j \in i + 1 .. Len(s2) : x \in Gives(t, s2[j])
  <2>1. /\ \A x \in Uses(t, s[i]) : x \in F \/ \E j \in i + 1 .. k : x \in Gives(t, s[j])
        /\ \A j \in i + 1 .. k : Evaluates(t, s[j])
    BY <1>4, <1>5 DEF UsesInTurn
  <2>2. Evaluates(t, s[k])
    BY <1>4, <2>1
  <2>3. ASSUME NEW j \in i + 1 .. Len(s2) PROVE Evaluates(t, s2[j])
    <3>1. CASE j \in i + 1 .. k - 1 /\ j \in 1 .. k - 1 /\ j \in i + 1 .. k
      BY <1>1, <2>1, <3>1
    <3>2. ASSUME NEW a \in 1 .. l, j = k + l - a PROVE Evaluates(t, s2[j])
      BY <1>1, <1>3, <2>2, <3>2
    <3>3. QED
      BY <1>4, <3>1, <3>2
  <2>4. ASSUME NEW x \in Uses(t, s[i]), x \notin G
        PROVE  \E j \in i + 1 .. Len(s2) : x \in Gives(t, s2[j])
    <3>1. PICK j \in i + 1 .. k : x \in Gives(t, s[j])
      BY <1>3, <2>1, <2>2, <2>4
    <3>2. CASE j # k
      <4>1. j \in 1 .. k - 1 /\ j \in i + 1 .. Len(s2)
        BY <1>4, <3>2
      <4>2. s2[j] = s[j]
        BY <1>1, <4>1
      <4>3. QED
        BY <3>1, <4>1, <4>2
    <3>3. CASE j = k
      <4>1. x = s[k].node /\ l # 0
        BY <1>3, <2>2, <2>4, <3>1, <3>3 DEF Gives
      <4>2. l \in 1 .. l
        BY <1>1, <4>1
      <4>3. x \in Gives(t, tasks[l])
        BY <1>3, <2>2, <4>1, <4>2 DEF Gives
      <4>4. s2[k + l - l] = tasks[l] /\ k + l - l \in i + 1 .. Len(s2)
        BY <1>1, <1>4, <4>2
      <4>5. QED
        BY <4>3, <4>4
    <3>4. QED
      BY <3>2, <3>3
  <2>5. QED
    BY <2>3, <2>4
<1>6. ASSUME NEW a \in 1 .. l, NEW i, i = k + l - a
      PROVE  /\ \A x \in Uses(t, s2[i]) : \E j \in i + 1 .. Len(s2) : x \in Gives(t, s2[j])
             /\ Uses(t, s2[i]) # {} => \A j \in i + 1 .. Len(s2) : Evaluates(t, s2[j])
  <2>1. s2[i] = tasks[a]
    BY <1>1, <1>6
  <2>2. ASSUME NEW j \in i + 1 .. Len(s2) PROVE \E b \in 1 .. a - 1 : b \in 1 .. l /\ j = k + l - b
    <3>1. k + l - j \in 1 .. a - 1 /\ k + l - j \in 1 .. l /\ j = k + l - (k + l - j)
      BY <1>1, <1>6
    <3>2. QED
      BY <3>1
  <2>3. \A b \in 1 .. a - 1 : b \in 1 .. l /\ k + l - b \in i + 1 .. Len(s2)
    BY <1>1, <1>6
  <2>4. ASSUME NEW x \in Uses(t, tasks[a]) PROVE \E j \in i + 1 .. Len(s2) : x \in Gives(t, s2[j])
    <3>1. PICK b \in 1 .. a - 1 : x \in Gives(t, tasks[b])
      BY <1>2
    <3>2. k + l - b \in i + 1 .. Len(s2) /\ s2[k + l - b] = tasks[b]
      BY <1>1, <2>3
    <3>3. QED
      BY <3>1, <3>2
  <2>5. ASSUME Uses(t, tasks[a]) # {}, NEW j \in i + 1 .. Len(s2) PROVE Evaluates(t, s2[j])
    <3>1. PICK b \in 1 .. a - 1 : b \in 1 .. l /\ j = k + l - b
      BY <2>2
    <3>2. s2[j] = tasks[b]
      BY <1>1, <3>1
    <3>3. QED
      BY <1>2, <2>5, <3>2
  <2>6. QED
    BY <2>1, <2>4, <2>5
<1>7. ASSUME NEW i \in 1 .. Len(s2)
      PROVE  /\ \A x \in Uses(t, s2[i]) : x \in G \/ \E j \in i + 1 .. Len(s2) : x \in Gives(t, s2[j])
             /\ Uses(t, s2[i]) # {} => \A j \in i + 1 .. Len(s2) : Evaluates(t, s2[j])
  <2>1. CASE i \in 1 .. k - 1
    BY <1>4, <1>5, <2>1
  <2>2. ASSUME NEW a \in 1 .. l, i = k + l - a
        PROVE  /\ \A x \in Uses(t, s2[i]) : x \in G \/ \E j \in i + 1 .. Len(s2) : x \in Gives(t, s2[j])
               /\ Uses(t, s2[i]) # {} => \A j \in i + 1 .. Len(s2) : Evaluates(t, s2[j])
    BY <1>6, <2>2
  <2>3. QED
    BY <1>1, <2>1, <2>2
<1>8. QED
  BY <1>7 DEF UsesInTurn

(***************************************************************************)
(* Blocks: what each of them can rely on.                                  *)
(***************************************************************************)
\* The effects of the first n instructions.
Past(code, n) == {Effect(code[j].op, code[j].at) : j \in 1 .. n}

\* What there is at the end of block at.
Supply(bs, avail, at) ==
  IF at \in 1 .. Len(bs) THEN avail[at] \cup Past(bs[at].code, Len(bs[at].code)) ELSE {}

\* Code that finds its operands when it begins with A.
Fits(code, A) ==
  \A i \in 1 .. Len(code) :
    /\ \A x \in Range(code[i].args) : x.needs \subseteq A \cup Past(code, i - 1)
    /\ code[i].op = "br" => code[i].targets[1] \in Range(code[i].targets)
    /\ code[i].op = "condbr" =>
         code[i].targets[1] \in Range(code[i].targets) /\ code[i].targets[2] \in Range(code[i].targets)

BlockFits(bs, avail, b) ==
  /\ Fits(bs[b].code, avail[b])
  /\ \A c \in TargetsOf(bs[b].code) : avail[c] \subseteq Supply(bs, avail, b)
  /\ bs[b].function # nullptr /\ avail[b] # {} =>
       \E c \in 1 .. b - 1 : bs[c].function = bs[b].function

BlocksFit(t, bs, avail) ==
  /\ avail \in [1 .. Len(bs) -> SUBSET Allocas(t)]
  /\ \A b \in 1 .. Len(bs) : BlockFits(bs, avail, b)

FramesFit(t, s, avail) ==
  \A i \in 1 .. Len(s) : \A b \in Awaits(t)[s[i]] \cup ComesBack(t)[s[i]] :
    avail[b] = Needs(t, Visible(t, s[i].node))

LEMMA PastJoined ==
  ASSUME NEW a, IsSequence(a), NEW b, IsSequence(b)
  PROVE  /\ \A n \in 0 .. Len(a) : Past(a \o b, n) = Past(a, n)
         /\ \A n \in 0 .. Len(b) : Past(a \o b, Len(a) + n) = Past(a, Len(a)) \cup Past(b, n)
<1> PICK c : c = a \o b
  OBVIOUS
<1> PICK k : k = Len(a)
  OBVIOUS
<1>1. /\ k \in Nat /\ Len(b) \in Nat
      /\ \A i \in 1 .. k : c[i] = a[i]
      /\ \A i \in 1 .. Len(b) : c[k + i] = b[i]
  <2>1. \A i \in 1 .. Len(b) : (a \o b)[Len(a) + i] = b[i]
    BY Joined
  <2>2. \A i \in 1 .. Len(a) : (a \o b)[i] = a[i]
    BY Joined
  <2>3. Len(a) \in Nat /\ Len(b) \in Nat
    BY SequenceParts
  <2>4. QED
    BY <2>1, <2>2, <2>3
<1>2. ASSUME NEW n \in 0 .. k PROVE Past(c, n) = Past(a, n)
  <2>1. \A i \in 1 .. n : c[i] = a[i]
    BY <1>1
  <2>2. QED
    BY <2>1 DEF Past
<1>3. ASSUME NEW n \in 0 .. Len(b) PROVE Past(c, k + n) = Past(a, k) \cup Past(b, n)
  <2>1. \A i \in 1 .. k : i \in 1 .. k + n /\ c[i] = a[i]
    BY <1>1
  <2>2. \A i \in 1 .. n : k + i \in 1 .. k + n /\ c[k + i] = b[i]
    BY <1>1
  <2>3. \A i \in 1 .. k + n : i \in 1 .. k \/ \E j \in 1 .. n : i = k + j
    <3>1. ASSUME NEW i \in 1 .. k + n, i \notin 1 .. k PROVE i - k \in 1 .. n /\ i = k + (i - k)
      BY <1>1, <3>1
    <3>2. QED
      BY <3>1
  <2>4. Past(a, k) \subseteq Past(c, k + n) /\ Past(b, n) \subseteq Past(c, k + n)
    BY <2>1, <2>2 DEF Past
  <2>5. ASSUME NEW i \in 1 .. k + n PROVE Effect(c[i].op, c[i].at) \in Past(a, k) \cup Past(b, n)
    <3>1. CASE i \in 1 .. k
      BY <2>1, <3>1 DEF Past
    <3>2. ASSUME NEW j \in 1 .. n, i = k + j PROVE Effect(c[i].op, c[i].at) \in Past(b, n)
      BY <2>2, <3>2 DEF Past
    <3>3. QED
      BY <2>3, <3>1, <3>2
  <2>6. Past(c, k + n) \subseteq Past(a, k) \cup Past(b, n)
    BY <2>5 DEF Past
  <2>7. QED
    BY <2>4, <2>6
<1>4. QED
  BY <1>2, <1>3

LEMMA FitsJoined ==
  ASSUME NEW a, IsSequence(a), NEW b, IsSequence(b), NEW A, Fits(a, A), Fits(b, A \cup Past(a, Len(a)))
  PROVE  /\ Fits(a \o b, A)
         /\ Past(a \o b, Len(a \o b)) = Past(a, Len(a)) \cup Past(b, Len(b))
<1> PICK c : c = a \o b
  OBVIOUS
<1> PICK k : k = Len(a)
  OBVIOUS
<1>1. /\ k \in Nat /\ Len(b) \in Nat /\ Len(c) = k + Len(b)
      /\ \A i \in 1 .. Len(c) : \/ i \in 1 .. k /\ c[i] = a[i]
                                \/ i - k \in 1 .. Len(b) /\ c[i] = b[i - k]
  BY Joined, SequenceParts, ZenonT(40)
<1>2. /\ \A n \in 0 .. k : Past(c, n) = Past(a, n)
      /\ \A n \in 0 .. Len(b) : Past(c, k + n) = Past(a, k) \cup Past(b, n)
  BY PastJoined
<1> DEFINE Right(code, i, P) ==
      /\ \A x \in Range(code[i].args) : x.needs \subseteq P
      /\ code[i].op = "br" => code[i].targets[1] \in Range(code[i].targets)
      /\ code[i].op = "condbr" =>
           code[i].targets[1] \in Range(code[i].targets) /\ code[i].targets[2] \in Range(code[i].targets)
<1>3. \A i \in 1 .. k : Right(a, i, A \cup Past(a, i - 1))
  BY DEF Fits
<1>4. \A i \in 1 .. Len(b) : Right(b, i, A \cup Past(a, k) \cup Past(b, i - 1))
  BY DEF Fits
<1>5. ASSUME NEW i \in 1 .. Len(c) PROVE Right(c, i, A \cup Past(c, i - 1))
  <2>1. CASE i \in 1 .. k /\ c[i] = a[i]
    <3>1. i - 1 \in 0 .. k
      BY <1>1, <2>1
    <3>2. Past(c, i - 1) = Past(a, i - 1)
      BY <1>2, <3>1
    <3>3. QED
      BY <1>3, <2>1, <3>2
  <2>2. CASE i - k \in 1 .. Len(b) /\ c[i] = b[i - k]
    <3>1. PICK j : j = i - k
      OBVIOUS
    <3>2. j \in 1 .. Len(b) /\ c[i] = b[j] /\ j - 1 \in 0 .. Len(b) /\ i - 1 = k + (j - 1)
      BY <1>1, <2>2, <3>1
    <3>3. Past(c, i - 1) = Past(a, k) \cup Past(b, j - 1)
      BY <1>2, <3>2
    <3>4. Right(b, j, A \cup Past(a, k) \cup Past(b, j - 1))
      BY <1>4, <3>2
    <3>5. QED
      BY <3>2, <3>3, <3>4
  <2>3. QED
    BY <1>1, <2>1, <2>2
<1>6. Past(c, Len(c)) = Past(a, k) \cup Past(b, Len(b))
  BY <1>1, <1>2
<1>7. QED
  BY <1>5, <1>6 DEF Fits

\* A step writes is at the end of block at, and adds blocks that rely on V.
Relying(t, bs, bs2, avail, avail2, at, is, placed, f, fresh, V) ==
  LET S == Supply(bs, avail, at)
  IN  /\ BlocksFit(t, bs, avail)
      /\ BlockSequence(bs)
      /\ fresh \in Nat /\ IsSequence(is)
      /\ \A b \in 1 .. Len(bs) : IsSequence(bs[b].code) /\ TargetsOf(bs[b].code) \subseteq 1 .. Len(bs)
      /\ Shape(bs, bs2, at, is, placed, f, fresh)
      /\ V \subseteq Allocas(t)
      /\ avail2 = [b \in 1 .. Len(bs2) |-> IF b \in 1 .. Len(bs) THEN avail[b] ELSE V]
      /\ at \in 1 .. Len(bs) \/ is = << >>
      /\ Fits(is, S)
      /\ TargetsOf(is) \subseteq 1 .. Len(bs2) /\ \A c \in TargetsOf(is) : avail2[c] \subseteq S
      /\ \A b \in placed : b \in 1 .. Len(bs) => bs[b].function = nullptr
      /\ \A b \in placed : b \in 1 .. Len(bs2) =>
           \E c \in 1 .. b - 1 : c \in 1 .. Len(bs) /\ c \notin placed /\ bs[c].function = f

LEMMA TargetsJoined ==
  ASSUME NEW a, IsSequence(a), NEW b, IsSequence(b)
  PROVE  TargetsOf(a \o b) \subseteq TargetsOf(a) \cup TargetsOf(b)
<1>1. \A i \in 1 .. Len(a \o b) : \/ i \in 1 .. Len(a) /\ (a \o b)[i] = a[i]
                                  \/ i - Len(a) \in 1 .. Len(b) /\ (a \o b)[i] = b[i - Len(a)]
  BY Joined
<1>2. ASSUME NEW i \in 1 .. Len(a \o b), NEW c \in Range((a \o b)[i].targets)
      PROVE  c \in TargetsOf(a) \cup TargetsOf(b)
  BY <1>1 DEF TargetsOf
<1>3. QED
  BY <1>2 DEF TargetsOf

LEMMA BlocksStep ==
  ASSUME NEW t, NEW bs, NEW bs2, NEW avail, NEW avail2, NEW at, NEW is, NEW placed, NEW f,
         NEW fresh, NEW V, Relying(t, bs, bs2, avail, avail2, at, is, placed, f, fresh, V)
  PROVE  /\ BlocksFit(t, bs2, avail2)
         /\ Supply(bs, avail, at) \cup Past(is, Len(is)) \subseteq Supply(bs2, avail2, at)
         /\ \A b \in 1 .. Len(bs2) : avail2[b] \subseteq Supply(bs2, avail2, b)
<1> PICK S : S = Supply(bs, avail, at)
  OBVIOUS
<1> PICK l : l = Len(bs)
  OBVIOUS
<1> PICK l2 : l2 = Len(bs2)
  OBVIOUS
<1>1. /\ avail \in [1 .. l -> SUBSET Allocas(t)]
      /\ \A b \in 1 .. l : BlockFits(bs, avail, b)
      /\ fresh \in Nat /\ IsSequence(is) /\ V \subseteq Allocas(t)
      /\ \A b \in 1 .. l : IsSequence(bs[b].code) /\ TargetsOf(bs[b].code) \subseteq 1 .. l
      /\ avail2 = [b \in 1 .. l2 |-> IF b \in 1 .. l THEN avail[b] ELSE V]
      /\ at \in 1 .. l \/ is = << >>
      /\ Fits(is, S)
      /\ TargetsOf(is) \subseteq 1 .. l2 /\ \A c \in TargetsOf(is) : avail2[c] \subseteq S
      /\ \A b \in placed : b \in 1 .. l => bs[b].function = nullptr
      /\ \A b \in placed : b \in 1 .. l2 =>
           \E c \in 1 .. b - 1 : c \in 1 .. l /\ c \notin placed /\ bs[c].function = f
  BY Zenon DEF Relying, BlocksFit
<1>2. /\ l2 = l + fresh
      /\ \A b \in 1 .. l : /\ bs2[b].function = IF b \in placed THEN f ELSE bs[b].function
                           /\ bs2[b].code = IF b = at THEN bs[b].code \o is ELSE bs[b].code
      /\ \A b \in l + 1 .. l2 : /\ bs2[b].function = IF b \in placed THEN f ELSE nullptr
                                /\ bs2[b].code = << >>
  BY DEF Relying, Shape
<1>3. l \in Nat /\ l2 \in Nat
  BY <1>1, <1>2, SequenceParts DEF Relying, BlockSequence
<1>4. \A b \in 1 .. l2 : b \in 1 .. l \/ b \in l + 1 .. l2
  BY <1>3
<1>5. \A b \in 1 .. l : b \in 1 .. l2 /\ avail2[b] = avail[b]
  BY <1>1, <1>2, <1>3
<1>6. avail2 \in [1 .. l2 -> SUBSET Allocas(t)]
  BY <1>1
<1>7. \A b \in 1 .. l2 : avail2[b] \subseteq Supply(bs2, avail2, b)
  BY DEF Supply
<1>8. Past(<< >>, Len(<< >>)) = {} /\ TargetsOf(<< >>) = {}
  BY DEF Past, TargetsOf
<1>9. ASSUME at \in 1 .. l
      PROVE  /\ Fits(bs2[at].code, avail2[at])
             /\ Supply(bs2, avail2, at) = S \cup Past(is, Len(is))
             /\ TargetsOf(bs2[at].code) \subseteq TargetsOf(bs[at].code) \cup TargetsOf(is)
  <2> PICK code : code = bs[at].code
    OBVIOUS
  <2>1. bs2[at].code = code \o is /\ avail2[at] = avail[at] /\ at \in 1 .. l2
    BY <1>2, <1>5, <1>9
  <2>2. S = avail[at] \cup Past(code, Len(code))
    BY <1>9 DEF Supply
  <2>3. Fits(code, avail[at]) /\ IsSequence(code)
    BY <1>1, <1>9 DEF BlockFits
  <2>4. Fits(code \o is, avail[at]) /\ Past(code \o is, Len(code \o is)) = Past(code, Len(code)) \cup Past(is, Len(is))
    BY <1>1, <2>2, <2>3, FitsJoined
  <2>5. TargetsOf(code \o is) \subseteq TargetsOf(code) \cup TargetsOf(is)
    BY <1>1, <2>3, TargetsJoined
  <2>6. QED
    BY <2>1, <2>2, <2>4, <2>5 DEF Supply
<1>10. ASSUME NEW b \in 1 .. l, b # at
       PROVE  bs2[b].code = bs[b].code /\ Supply(bs2, avail2, b) = Supply(bs, avail, b)
  BY <1>2, <1>5, <1>10 DEF Supply
<1>11. S \cup Past(is, Len(is)) \subseteq Supply(bs2, avail2, at)
  <2>1. CASE at \in 1 .. l
    BY <1>9, <2>1
  <2>2. CASE at \notin 1 .. l
    BY <1>1, <1>8, <2>2 DEF Supply
  <2>3. QED
    BY <2>1, <2>2
<1>12. ASSUME NEW b \in 1 .. l2
       PROVE  /\ Fits(bs2[b].code, avail2[b])
              /\ \A c \in TargetsOf(bs2[b].code) : avail2[c] \subseteq Supply(bs2, avail2, b)
  <2>1. CASE b \in 1 .. l /\ b = at
    <3>1. ASSUME NEW c \in TargetsOf(bs[at].code) PROVE avail2[c] \subseteq S
      <4>1. c \in 1 .. l /\ avail[c] \subseteq S
        BY <1>1, <2>1 DEF BlockFits
      <4>2. QED
        BY <1>5, <4>1
    <3>2. QED
      BY <1>1, <1>9, <2>1, <3>1
  <2>2. CASE b \in 1 .. l /\ b # at
    <3>1. ASSUME NEW c \in TargetsOf(bs[b].code) PROVE avail2[c] \subseteq Supply(bs, avail, b)
      <4>1. c \in 1 .. l /\ avail[c] \subseteq Supply(bs, avail, b)
        BY <1>1, <2>2 DEF BlockFits
      <4>2. QED
        BY <1>5, <4>1
    <3>2. Fits(bs[b].code, avail[b])
      BY <1>1, <2>2 DEF BlockFits
    <3>3. QED
      BY <1>5, <1>10, <2>2, <3>1, <3>2
  <2>3. CASE b \in l + 1 .. l2
    <3>1. bs2[b].code = << >>
      BY <1>2, <2>3
    <3>2. Fits(<< >>, avail2[b])
      BY DEF Fits
    <3>3. QED
      BY <1>8, <3>1, <3>2
  <2>4. QED
    BY <1>4, <2>1, <2>2, <2>3
<1>13. ASSUME NEW b \in 1 .. l2, bs2[b].function # nullptr, avail2[b] # {}
       PROVE  \E c \in 1 .. b - 1 : bs2[c].function = bs2[b].function
  <2>1. CASE b \in placed
    <3>1. bs2[b].function = f
      BY <1>2, <1>4, <2>1
    <3>2. PICK c \in 1 .. b - 1 : c \in 1 .. l /\ c \notin placed /\ bs[c].function = f
      BY <1>1, <2>1
    <3>3. bs2[c].function = f
      BY <1>2, <3>2
    <3>4. QED
      BY <3>1, <3>3
  <2>2. CASE b \notin placed
    <3>1. b \in 1 .. l /\ bs2[b].function = bs[b].function
      BY <1>2, <1>4, <1>13, <2>2
    <3>2. PICK c \in 1 .. b - 1 : bs[c].function = bs[b].function
      BY <1>1, <1>5, <1>13, <3>1 DEF BlockFits
    <3>3. c \in 1 .. l /\ c \notin placed
      BY <1>1, <1>3, <1>13, <3>1, <3>2
    <3>4. QED
      BY <1>2, <3>1, <3>2, <3>3
  <2>3. QED
    BY <2>1, <2>2
<1>14. QED
  BY <1>6, <1>7, <1>11, <1>12, <1>13 DEF BlocksFit, BlockFits

\* The frames keep their blocks.
FramesKept(t, s, tasks, avail, avail2) ==
  /\ \A i \in 1 .. Len(s) : \A b \in Awaits(t)[s[i]] \cup ComesBack(t)[s[i]] : avail2[b] = avail[b]
  /\ \A a \in 1 .. Len(tasks) : \A b \in Awaits(t)[tasks[a]] \cup ComesBack(t)[tasks[a]] :
       avail2[b] = Needs(t, Visible(t, tasks[a].node))

LEMMA FramesStep ==
  ASSUME NEW t, NEW s, NEW s2, NEW tasks, Replaced(s, s2, tasks), NEW avail, NEW avail2,
         FramesFit(t, s, avail), FramesKept(t, s, tasks, avail, avail2)
  PROVE  FramesFit(t, s2, avail2)
<1>1. Places(s, s2, tasks, Len(s), Len(tasks))
  BY ReplacedPlaces
<1>2. ASSUME NEW i \in 1 .. Len(s2), NEW b \in Awaits(t)[s2[i]] \cup ComesBack(t)[s2[i]]
      PROVE  avail2[b] = Needs(t, Visible(t, s2[i].node))
  <2>1. CASE i \in 1 .. Len(s) - 1
    <3>1. i \in 1 .. Len(s) /\ s2[i] = s[i]
      BY <1>1, <2>1 DEF Places
    <3>2. QED
      BY <1>2, <3>1 DEF FramesFit, FramesKept
  <2>2. ASSUME NEW a \in 1 .. Len(tasks), i = Len(s) + Len(tasks) - a
        PROVE  avail2[b] = Needs(t, Visible(t, s2[i].node))
    <3>1. s2[i] = tasks[a]
      BY <1>1, <2>2 DEF Places
    <3>2. QED
      BY <1>2, <3>1 DEF FramesKept
  <2>3. QED
    BY <1>1, <2>1, <2>2 DEF Places
<1>3. QED
  BY <1>2 DEF FramesFit

(***************************************************************************)
(* The inductive invariant: blocks that begin with avail are what the      *)
(* pending work relies on.                                                 *)
(***************************************************************************)
\* The nodes whose values are there.
Fine(values, S) == {x \in DOMAIN values : values[x].needs \subseteq S}

ValuesFit(t, bs, values) ==
  /\ \A d \in DOMAIN values : d \in DeclsOf(t) \cup BuiltinDecls => values[d].needs \subseteq Need(t, d)
  /\ \A g \in DOMAIN values : g \in Homes(t) => \E b \in 1 .. Len(bs) : bs[b].function = g

Computing(t, s, bs, values, avail, at) ==
  /\ BlocksFit(t, bs, avail)
  /\ FramesFit(t, s, avail)
  /\ SeesInTurn(t, s)
  /\ Demand(t, s) \subseteq DOMAIN values
  /\ Needs(t, Demand(t, s)) \subseteq Supply(bs, avail, at)
  /\ UsesInTurn(t, s, Fine(values, Supply(bs, avail, at)))
  /\ ValuesFit(t, bs, values)

Computes(avail) == Computing(ast, stack, blocks, ir_value, avail, insertBlock)

OInv == \E avail : Computes(avail)

LEMMA NextReplaced ==
  ASSUME IInv, stack # << >>, NEW tasks, IsSequence(tasks), Continue(tasks)
  PROVE  Replaced(stack, stack', tasks)
<1> DEFINE S == Work(ast) \cup {tasks[i] : i \in DOMAIN tasks}
<1>1. stack \in Seq(Work(ast))
  BY DEF IInv
<1>2. stack \in Seq(S)
  BY <1>1
<1>3. tasks \in Seq(S)
  BY DEF IsSequence
<1> HIDE DEF S
<1>4. /\ Len(stack') = Len(stack) - 1 + Len(tasks)
      /\ \A i \in 1 .. Len(stack) - 1 : stack'[i] = stack[i]
      /\ \A i \in 1 .. Len(tasks) : stack'[Len(stack) - 1 + i] = tasks[Len(tasks) - i + 1]
  BY <1>2, <1>3, ContinueStack
<1>5. Len(stack) \in Nat \ {0} /\ Len(tasks) \in Nat
  BY TopParts, SequenceParts
<1>6. QED
  BY <1>4, <1>5 DEF Replaced

\* What is known of the blocks.
LEMMA BlocksKnown ==
  ASSUME IInv
  PROVE  /\ BlockSequence(blocks) /\ Len(blocks) \in Nat
         /\ \A b \in 1 .. Len(blocks) :
              IsSequence(blocks[b].code) /\ TargetsOf(blocks[b].code) \subseteq 1 .. Len(blocks)
<1>1. PICK home : Layout(ast, stack, blocks, Here, insertBlock, home)
  BY DEF IInv
<1>2. \A b \in 1 .. Len(blocks) : \A c \in TargetsOf(blocks[b].code) : c \in 1 .. Len(blocks)
  BY <1>1 DEF Layout, Edges
<1>3. QED
  BY <1>2, BlockFacts DEF IInv, GoodBlocks

\* A block that a task keeps comes behind one of its function.
LEMMA AwaitedIsLater ==
  ASSUME IInv, NEW i \in 1 .. Len(stack), NEW b \in Awaits(ast)[stack[i]] \cup ComesBack(ast)[stack[i]]
  PROVE  /\ b \in 1 .. Len(blocks)
         /\ b \in Awaits(ast)[stack[i]] => blocks[b].function = nullptr /\ blocks[b].code = << >>
         /\ \E c \in 1 .. b - 1 : /\ c \in 1 .. Len(blocks) /\ c \notin Pending(stack, Awaits(ast))
                                  /\ blocks[c].function = stack[i].func
<1>1. PICK home : Layout(ast, stack, blocks, Here, insertBlock, home)
  BY DEF IInv
<1>2. Kept(ast, stack, blocks, home) /\ Placed(ast, stack, blocks, Here.open, insertBlock, home)
  BY <1>1 DEF Layout
<1>3. /\ b \in 1 .. Len(blocks) /\ home[b] = stack[i].func /\ IsLater(home, b)
      /\ b \in Awaits(ast)[stack[i]] => blocks[b].function = nullptr /\ blocks[b].code = << >>
  BY <1>2 DEF Kept
<1>4. Len(blocks) \in Nat
  BY BlocksKnown
<1> DEFINE T == {c \in 1 .. b - 1 : home[c] = home[b]}
<1>5. T \in SUBSET Nat /\ T # {}
  BY <1>3, <1>4 DEF IsLater
<1>6. PICK c \in T : \A e \in T : c <= e
  <2> HIDE DEF T
  <2> QED
    BY <1>5, Least
<1>7. c \in 1 .. b - 1 /\ home[c] = home[b] /\ c \in 1 .. Len(blocks)
  BY <1>3, <1>4, <1>6
<1>8. ~ IsLater(home, c)
  <2>1. SUFFICES ASSUME NEW e \in 1 .. c - 1, home[e] = home[c] PROVE FALSE
    BY DEF IsLater
  <2>2. e \in T
    BY <1>3, <1>4, <1>7, <2>1
  <2>3. c <= e
    BY <1>6, <2>2
  <2>4. QED
    BY <1>3, <1>4, <1>7, <2>1, <2>3
<1>9. c \notin Pending(stack, Awaits(ast))
  BY <1>2, <1>8 DEF Kept, Pending
<1>10. blocks[c].function = home[c]
  BY <1>2, <1>7, <1>9 DEF Placed, PlacedBlock
<1>11. QED
  BY <1>3, <1>7, <1>9, <1>10

\* A step that writes is, places blocks of function f and adds fresh ones.
StepFits(avail, tasks, is, placed, f, fresh, D) ==
  LET new  == Len(blocks) + 1 .. Len(blocks) + fresh
      held == Awaits(ast)[Top] \cup new
      S    == Supply(blocks, avail, insertBlock)
      S2   == S \cup Past(is, Len(is))
  IN  /\ stack # << >> /\ IsSequence(tasks) /\ Continue(tasks) /\ ast' = ast
      /\ fresh \in Nat /\ IsSequence(is)
      /\ Shape(blocks, blocks', insertBlock, is, placed, f, fresh)
      /\ insertBlock \in 1 .. Len(blocks) \/ is = << >>
      /\ Fits(is, S)
      /\ TargetsOf(is) \subseteq held \cup ComesBack(ast)[Top]
      /\ placed \subseteq held
      /\ placed # {} => /\ insertBlock \in 1 .. Len(blocks)
                        /\ insertBlock \notin Pending(stack, Awaits(ast))
                        /\ blocks[insertBlock].function = f
      /\ placed \cap Awaits(ast)[Top] # {} => f = Top.func
      /\ \A a \in 1 .. Len(tasks) : \A b \in Awaits(ast)[tasks[a]] \cup ComesBack(ast)[tasks[a]] :
           b \in held \cup ComesBack(ast)[Top] /\ tasks[a].node = Top.node
      /\ SeesFit(ast, Top, tasks, D) /\ D \subseteq DOMAIN ir_value'
      /\ UsesFit(ast, Top, tasks, Fine(ir_value, S), Fine(ir_value', S2))
      /\ \/ insertBlock' = insertBlock /\ Needs(ast, D) \subseteq S2
         \/ insertBlock' \in held /\ D = Visible(ast, Top.node) /\ ~ Evaluates(ast, Top)
      /\ \A d \in DOMAIN ir_value' :
           \/ d \in DOMAIN ir_value /\ ir_value'[d] = ir_value[d]
           \/ d \notin Homes(ast) /\ (d \in DeclsOf(ast) => ir_value'[d].needs \subseteq Need(ast, d))

\* The uses of a task that is no expression are not those of its steps.
LEMMA UsesFitAnyway ==
  ASSUME NEW t, NEW top, NEW tasks, NEW F, NEW G, NEW H, UsesFit(t, top, tasks, F, G),
         ~ Evaluates(t, top) \/ G \subseteq H
  PROVE  UsesFit(t, top, tasks, F, H)
BY DEF UsesFit

LEMMA ComputingStep ==
  ASSUME NEW t, NEW s, NEW bs, NEW v, NEW avail, NEW at,
         NEW s2, NEW bs2, NEW v2, NEW avail2, NEW at2, NEW tasks, NEW D,
         Computing(t, s, bs, v, avail, at),
         Replaced(s, s2, tasks), BlocksFit(t, bs2, avail2), FramesFit(t, s2, avail2),
         SeesFit(t, s[Len(s)], tasks, D), D \subseteq DOMAIN v2,
         Needs(t, D) \subseteq Supply(bs2, avail2, at2),
         UsesFit(t, s[Len(s)], tasks, Fine(v, Supply(bs, avail, at)), Fine(v2, Supply(bs2, avail2, at2))),
         ValuesFit(t, bs2, v2)
  PROVE  Computing(t, s2, bs2, v2, avail2, at2)
<1>1. SeesInTurn(t, s2) /\ Demand(t, s2) \subseteq D
  BY SeesStep DEF Computing
<1>2. UsesInTurn(t, s2, Fine(v2, Supply(bs2, avail2, at2)))
  BY UsesStep DEF Computing
<1>3. Needs(t, Demand(t, s2)) \subseteq Needs(t, D)
  BY <1>1, NeedsMore
<1>4. QED
  BY <1>1, <1>2, <1>3 DEF Computing

LEMMA StepComputes ==
  ASSUME IInv, NEW avail, Computes(avail),
         NEW tasks, NEW is, NEW placed, NEW f, NEW fresh, NEW D,
         StepFits(avail, tasks, is, placed, f, fresh, D)
  PROVE  OInv'
<1> PICK n : n = Top.node
  OBVIOUS
<1> PICK l : l = Len(blocks)
  OBVIOUS
<1> PICK new : new = Len(blocks) + 1 .. Len(blocks) + fresh
  OBVIOUS
<1> PICK held : held = Awaits(ast)[Top] \cup new
  OBVIOUS
<1> PICK S : S = Supply(blocks, avail, insertBlock)
  OBVIOUS
<1> PICK S2 : S2 = S \cup Past(is, Len(is))
  OBVIOUS
<1> PICK bs2 : bs2 = blocks'
  OBVIOUS
<1> PICK s2 : s2 = stack'
  OBVIOUS
<1> PICK v2 : v2 = ir_value'
  OBVIOUS
<1> PICK at2 : at2 = insertBlock'
  OBVIOUS
<1> PICK V : V = Needs(ast, Visible(ast, n))
  OBVIOUS
<1> PICK avail2 : avail2 = [b \in 1 .. Len(bs2) |-> IF b \in 1 .. l THEN avail[b] ELSE V]
  OBVIOUS
<1>1. /\ stack # << >> /\ IsSequence(tasks) /\ Continue(tasks) /\ ast' = ast
      /\ fresh \in Nat /\ IsSequence(is)
      /\ Shape(blocks, bs2, insertBlock, is, placed, f, fresh)
      /\ insertBlock \in 1 .. l \/ is = << >>
      /\ Fits(is, S)
      /\ TargetsOf(is) \subseteq held \cup ComesBack(ast)[Top]
      /\ placed \subseteq held
      /\ placed # {} => /\ insertBlock \in 1 .. l
                        /\ insertBlock \notin Pending(stack, Awaits(ast))
                        /\ blocks[insertBlock].function = f
      /\ placed \cap Awaits(ast)[Top] # {} => f = Top.func
      /\ \A a \in 1 .. Len(tasks) : \A b \in Awaits(ast)[tasks[a]] \cup ComesBack(ast)[tasks[a]] :
           b \in held \cup ComesBack(ast)[Top] /\ tasks[a].node = n
  BY DEF StepFits
<1>2. /\ SeesFit(ast, Top, tasks, D) /\ D \subseteq DOMAIN v2
      /\ UsesFit(ast, Top, tasks, Fine(ir_value, S), Fine(v2, S2))
      /\ \/ at2 = insertBlock /\ Needs(ast, D) \subseteq S2
         \/ at2 \in held /\ D = Visible(ast, n) /\ ~ Evaluates(ast, Top)
      /\ \A d \in DOMAIN v2 :
           \/ d \in DOMAIN ir_value /\ v2[d] = ir_value[d]
           \/ d \notin Homes(ast) /\ (d \in DeclsOf(ast) => v2[d].needs \subseteq Need(ast, d))
  BY DEF StepFits
<1>3. /\ Computing(ast, stack, blocks, ir_value, avail, insertBlock)
      /\ BlocksFit(ast, blocks, avail) /\ FramesFit(ast, stack, avail)
      /\ Demand(ast, stack) \subseteq DOMAIN ir_value
      /\ Needs(ast, Demand(ast, stack)) \subseteq S
      /\ ValuesFit(ast, blocks, ir_value)
  BY DEF Computes, Computing
<1>4. Replaced(stack, s2, tasks)
  BY <1>1, NextReplaced
<1>5. /\ IsProgram(ast) /\ Top = stack[Len(stack)] /\ Len(stack) \in Nat \ {0} /\ n \in DOMAIN ast
      /\ Len(stack) \in 1 .. Len(stack)
  BY <1>1, TopParts
<1>6. l \in Nat /\ BlockSequence(blocks) /\ \A b \in 1 .. l :
        IsSequence(blocks[b].code) /\ TargetsOf(blocks[b].code) \subseteq 1 .. l
  BY BlocksKnown
<1>7. Len(bs2) = l + fresh /\ new = l + 1 .. l + fresh
  BY <1>1 DEF Shape
<1>8. V \subseteq S /\ V \subseteq Allocas(ast)
  <2>1. Visible(ast, n) \subseteq Demand(ast, stack)
    <3>1. Len(stack) # 0
      BY <1>5
    <3>2. QED
      BY <1>5, <3>1 DEF Demand, Sees
  <2>2. V \subseteq Needs(ast, Demand(ast, stack))
    BY <2>1, NeedsMore
  <2>3. QED
    BY <1>3, <2>2, VisibleTyped, NeedsAllocas
<1>9. ASSUME NEW b \in held \cup ComesBack(ast)[Top]
      PROVE  b \in 1 .. Len(bs2) /\ avail2[b] = V
  <2>1. CASE b \in new
    <3>1. b \in 1 .. Len(bs2) /\ b \notin 1 .. l
      BY <1>1, <1>6, <1>7, <2>1
    <3>2. QED
      BY <3>1
  <2>2. CASE b \in Awaits(ast)[Top] \cup ComesBack(ast)[Top]
    <3>1. b \in 1 .. l
      BY <1>5, <2>2, AwaitedIsLater
    <3>2. avail[b] = V
      BY <1>3, <1>5, <2>2 DEF FramesFit
    <3>3. b \in 1 .. Len(bs2)
      BY <1>1, <1>6, <1>7, <3>1
    <3>4. QED
      BY <3>1, <3>2, <3>3
  <2>3. QED
    BY <2>1, <2>2
<1>10. ASSUME NEW b \in placed
       PROVE  /\ b \in 1 .. l => blocks[b].function = nullptr
              /\ \E c \in 1 .. b - 1 : c \in 1 .. l /\ c \notin placed /\ blocks[c].function = f
  <2>1. \A c \in 1 .. l : c \notin Pending(stack, Awaits(ast)) => c \notin placed
    <3>1. Awaits(ast)[Top] \subseteq Pending(stack, Awaits(ast))
      BY <1>5 DEF Pending
    <3>2. \A c \in 1 .. l : c \notin new
      BY <1>6, <1>7
    <3>3. QED
      BY <1>1, <3>1, <3>2
  <2>2. CASE b \in new
    <3>1. b \notin 1 .. l /\ insertBlock \in 1 .. b - 1
      BY <1>1, <1>6, <1>7, <2>2
    <3>2. QED
      BY <1>1, <2>1, <3>1
  <2>3. CASE b \in Awaits(ast)[Top]
    <3>1. /\ blocks[b].function = nullptr
          /\ \E c \in 1 .. b - 1 : /\ c \in 1 .. l /\ c \notin Pending(stack, Awaits(ast))
                                   /\ blocks[c].function = Top.func
      BY <1>5, <2>3, AwaitedIsLater
    <3>2. f = Top.func
      BY <1>1, <2>3
    <3>3. QED
      BY <2>1, <3>1, <3>2
  <2>4. QED
    BY <1>1, <2>2, <2>3
<1>11. Relying(ast, blocks, bs2, avail, avail2, insertBlock, is, placed, f, fresh, V)
  <2>1. TargetsOf(is) \subseteq 1 .. Len(bs2) /\ \A c \in TargetsOf(is) : avail2[c] \subseteq S
    BY <1>1, <1>8, <1>9
  <2>2. QED
    BY <1>1, <1>3, <1>6, <1>8, <1>10, <2>1 DEF Relying
<1>12. /\ BlocksFit(ast, bs2, avail2)
       /\ S2 \subseteq Supply(bs2, avail2, insertBlock)
       /\ \A b \in 1 .. Len(bs2) : avail2[b] \subseteq Supply(bs2, avail2, b)
  BY <1>11, BlocksStep
<1>13. FramesFit(ast, s2, avail2)
  <2>1. ASSUME NEW i \in 1 .. Len(stack), NEW b \in Awaits(ast)[stack[i]] \cup ComesBack(ast)[stack[i]]
        PROVE  avail2[b] = avail[b]
    <3>1. b \in 1 .. l
      BY AwaitedIsLater
    <3>2. b \in 1 .. Len(bs2)
      BY <1>1, <1>6, <1>7, <3>1
    <3>3. QED
      BY <3>1, <3>2
  <2>2. ASSUME NEW a \in 1 .. Len(tasks), NEW b \in Awaits(ast)[tasks[a]] \cup ComesBack(ast)[tasks[a]]
        PROVE  avail2[b] = Needs(ast, Visible(ast, tasks[a].node))
    BY <1>1, <1>9, <2>2
  <2>3. FramesKept(ast, stack, tasks, avail, avail2)
    BY <2>1, <2>2 DEF FramesKept
  <2>4. QED
    BY <1>3, <1>4, <2>3, FramesStep
<1>14. /\ Needs(ast, D) \subseteq Supply(bs2, avail2, at2)
       /\ UsesFit(ast, Top, tasks, Fine(ir_value, S), Fine(v2, Supply(bs2, avail2, at2)))
  <2>1. CASE at2 = insertBlock /\ Needs(ast, D) \subseteq S2
    <3>1. Fine(v2, S2) \subseteq Fine(v2, Supply(bs2, avail2, at2))
      BY <1>12, <2>1 DEF Fine
    <3>2. QED
      BY <1>2, <1>12, <2>1, <3>1, UsesFitAnyway
  <2>2. CASE at2 \in held /\ D = Visible(ast, n) /\ ~ Evaluates(ast, Top)
    <3>1. at2 \in 1 .. Len(bs2) /\ avail2[at2] = V
      BY <1>9, <2>2
    <3>2. V \subseteq Supply(bs2, avail2, at2)
      BY <1>12, <3>1
    <3>3. QED
      BY <1>2, <2>2, <3>2, UsesFitAnyway
  <2>3. QED
    BY <1>2, <2>1, <2>2
<1>15. ValuesFit(ast, bs2, v2)
  <2>1. \A d \in DOMAIN v2 : d \in DeclsOf(ast) \cup BuiltinDecls => v2[d].needs \subseteq Need(ast, d)
    BY <1>2, <1>3 DEF ValuesFit, Homes
  <2>2. ASSUME NEW g \in DOMAIN v2, g \in Homes(ast)
        PROVE  \E b \in 1 .. Len(bs2) : bs2[b].function = g
    <3>1. PICK b \in 1 .. l : blocks[b].function = g
      BY <1>2, <1>3, <2>2 DEF ValuesFit
    <3>2. g # nullptr
      BY <1>5, <2>2, HomesAre DEF IsProgram
    <3>3. b \notin placed
      BY <1>10, <3>1, <3>2
    <3>4. b \in 1 .. Len(bs2) /\ bs2[b].function = g
      BY <1>1, <1>6, <1>7, <3>1, <3>3 DEF Shape
    <3>5. QED
      BY <3>4
  <2>3. QED
    BY <2>1, <2>2 DEF ValuesFit
<1>16. Computing(ast, s2, bs2, v2, avail2, at2)
  BY <1>2, <1>3, <1>4, <1>5, <1>12, <1>13, <1>14, <1>15, ComputingStep
<1>17. QED
  BY <1>1, <1>16 DEF OInv, Computes

(***************************************************************************)
(* Statements other than blocks, and expressions, declare nothing: what is *)
(* visible at them is visible at their children.                           *)
(***************************************************************************)
LevelKinds == {"If", "While", "Return", "ExpressionStmt"} \cup ExpressionKinds

Level(t, n, k) == Sees(t, k) = Visible(t, n) /\ Declares(t, k) = {}

LEMMA LevelNode ==
  ASSUME NEW t, IsProgram(t), NEW n \in DOMAIN t, t[n].kind \in LevelKinds
  PROVE  n # 1 /\ n \notin DeclsOf(t) /\ n \notin Homes(t) /\ n \notin BuiltinDecls
<1>1. t[1].kind = "Program" /\ n \in Nat \ {0}
  BY NodeShape DEF IsProgram
<1>2. n # 1 /\ n \notin DeclsOf(t) /\ n \notin FunctionsOf(t)
  BY <1>1 DEF LevelKinds, ExpressionKinds, LiteralKinds, DeclsOf, DeclKinds, FunctionsOf, NodesOf
<1>3. n \notin BuiltinDecls
  BY <1>1 DEF BuiltinDecls
<1>4. QED
  BY <1>2, <1>3 DEF Homes

LEMMA LevelTask ==
  ASSUME NEW t, IsProgram(t), NEW n \in DOMAIN t, t[n].kind \in LevelKinds, NEW k, k.node = n
  PROVE  Level(t, n, k)
BY LevelNode DEF Level, Sees, Declares

LEMMA LevelKid ==
  ASSUME NEW t, IsProgram(t), NEW n \in DOMAIN t, t[n].kind \in LevelKinds,
         NEW i \in 1 .. Len(t[n].kids)
  PROVE  /\ Level(t, n, Visit(Kid(t, n, i)))
         /\ Uses(t, Visit(Kid(t, n, i))) = {}
         /\ Kid(t, n, i) \in DOMAIN t
         /\ t[Kid(t, n, i)].kind \in ExpressionKinds \cup StatementKinds
         /\ t[Kid(t, n, i)].kind \in ExpressionKinds <=> Evaluates(t, Visit(Kid(t, n, i)))
<1>1. /\ IsTree(t) /\ n # 1 /\ n \notin DeclsOf(t) /\ KidsFit(t, n) /\ Len(t[n].kids) \in Nat
      /\ \A j \in 1 .. Len(t[n].kids) : Kid(t, n, j) \in DOMAIN t
  BY LevelNode, NodeShape DEF IsProgram
<1>2. ASSUME NEW j \in 1 .. Len(t[n].kids)
      PROVE  t[Kid(t, n, j)].kind \in ExpressionKinds \cup StatementKinds
  <2>1. CASE t[n].kind \in {"If", "While"}
    <3>1. j \in 1 .. 1 \/ j \in 2 .. Len(t[n].kids)
      BY <1>1
    <3>2. QED
      BY <1>1, <2>1, <3>1 DEF KidsFit
  <2>2. CASE t[n].kind \in {"Return", "ExpressionStmt"} \cup ExpressionKinds
    BY <1>1, <2>2 DEF KidsFit
  <2>3. QED
    BY <2>1, <2>2 DEF LevelKinds
<1>3. \A j \in 1 .. Len(t[n].kids) : Kid(t, n, j) \notin DeclsOf(t)
  BY <1>2 DEF DeclsOf, DeclKinds, ExpressionKinds, LiteralKinds, StatementKinds
<1> PICK k : k = Kid(t, n, i)
  OBVIOUS
<1>4. Visible(t, k) = Visible(t, n)
  <2>1. /\ Visible(t, n) \subseteq Visible(t, k)
        /\ Visible(t, k) \subseteq
             BuiltinDecls \cup Visible(t, n) \cup ({n} \cap DeclsOf(t)) \cup
             ({Kid(t, n, l) : l \in 1 .. i - 1} \cap DeclsOf(t))
    BY VisibleInTurn
  <2>2. {Kid(t, n, l) : l \in 1 .. i - 1} \cap DeclsOf(t) = {}
    <3>1. \A l \in 1 .. i - 1 : l \in 1 .. Len(t[n].kids)
      BY <1>1
    <3>2. QED
      BY <1>3, <3>1
  <2>3. BuiltinDecls \subseteq Visible(t, n)
    BY <1>1 DEF Visible
  <2>4. QED
    BY <1>1, <2>1, <2>2, <2>3
<1>5. k # 1
  <2>1. n < k /\ n \in Nat \ {0} /\ k \in Nat
    BY <1>1, KidsInside, NodeShape
  <2>2. QED
    BY <2>1
<1> PICK task : task = Visit(k)
  OBVIOUS
<1>6. task.op = "visit" /\ task.node = k
  BY DEF Visit
<1>7. Level(t, n, task) /\ Uses(t, task) = {}
  BY <1>3, <1>4, <1>5, <1>6 DEF Level, Sees, Declares, Uses
<1>8. t[k].kind \in ExpressionKinds <=> Evaluates(t, task)
  BY <1>6 DEF Evaluates
<1>9. QED
  BY <1>1, <1>2, <1>7, <1>8

LEMMA LevelFits ==
  ASSUME NEW t, NEW n, NEW top, Level(t, n, top), NEW tasks, IsSequence(tasks),
         \A a \in 1 .. Len(tasks) : Level(t, n, tasks[a])
  PROVE  SeesFit(t, top, tasks, Visible(t, n)) /\ Sees(t, top) = Visible(t, n)
<1> PICK l : l = Len(tasks)
  OBVIOUS
<1>1. l \in Nat /\ \A a \in 1 .. l : Sees(t, tasks[a]) = Visible(t, n)
  BY SequenceParts DEF Level
<1>2. \A a \in 1 .. l - 1 : a \in 1 .. l /\ a + 1 \in 1 .. l
  BY <1>1
<1>3. l # 0 => 1 \in 1 .. l /\ l \in 1 .. l
  BY <1>1
<1>4. QED
  BY <1>1, <1>2, <1>3 DEF SeesFit, Level

(***************************************************************************)
(* What a step finds.                                                      *)
(***************************************************************************)
LEMMA DeclaredThere ==
  ASSUME IInv, stack # << >>, NEW avail, Computes(avail)
  PROVE  /\ Sees(ast, Top) \subseteq DOMAIN ir_value
         /\ Needs(ast, Sees(ast, Top)) \subseteq Supply(blocks, avail, insertBlock)
         /\ \A d \in Sees(ast, Top) :
              ValueOf(d).needs \subseteq Supply(blocks, avail, insertBlock)
<1>1. Len(stack) # 0 /\ Top = stack[Len(stack)]
  BY TopParts
<1>2. /\ Sees(ast, Top) \subseteq DOMAIN ir_value
      /\ Needs(ast, Sees(ast, Top)) \subseteq Supply(blocks, avail, insertBlock)
  BY <1>1 DEF Computes, Computing, Demand
<1>3. ASSUME NEW d \in Sees(ast, Top) PROVE ValueOf(d).needs \subseteq Needs(ast, Sees(ast, Top))
  <2>1. d \in DeclsOf(ast) \cup BuiltinDecls
    BY VisibleTyped DEF Sees
  <2>2. ValueOf(d).needs \subseteq Need(ast, d)
    BY <1>2, <2>1 DEF Computes, Computing, ValuesFit, ValueOf
  <2>3. QED
    BY <2>2 DEF Needs
<1>4. QED
  BY <1>2, <1>3

LEMMA OperandThere ==
  ASSUME IInv, stack # << >>, NEW avail, Computes(avail), NEW x \in Uses(ast, Top)
  PROVE  x \in DOMAIN ir_value /\ ValueOf(x).needs \subseteq Supply(blocks, avail, insertBlock)
<1>1. Len(stack) \in 1 .. Len(stack) /\ Top = stack[Len(stack)] /\ Len(stack) \in Nat
  BY TopParts
<1>2. Len(stack) + 1 .. Len(stack) = {}
  BY <1>1
<1>3. x \in Fine(ir_value, Supply(blocks, avail, insertBlock))
  BY <1>1, <1>2 DEF Computes, Computing, UsesInTurn
<1>4. QED
  BY <1>3 DEF Fine, ValueOf

LEMMA PlaceThere ==
  ASSUME IInv, stack # << >>, NEW avail, Computes(avail), Top.node \in UsesOf(ast)
  PROVE  ValueOf(referent[Top.node]).needs \subseteq Supply(blocks, avail, insertBlock)
<1>1. referent[Top.node] \in Visible(ast, Top.node)
  BY TopParts, ReferentVisible DEF IInv, Passed
<1>2. QED
  BY <1>1, DeclaredThere DEF Sees

(***************************************************************************)
(* Steps that go on.                                                       *)
(***************************************************************************)
Keepless(tasks) ==
  \A a \in 1 .. Len(tasks) : Awaits(ast)[tasks[a]] \cup ComesBack(ast)[tasks[a]] = {}

LEMMA FitsNothing ==
  ASSUME NEW A
  PROVE  Fits(<< >>, A) /\ Past(<< >>, Len(<< >>)) = {} /\ TargetsOf(<< >>) = {} /\ IsSequence(<< >>)
BY ShortSequences DEF Fits, Past, TargetsOf

LEMMA OnwardComputes ==
  ASSUME IInv, NEW avail, Computes(avail), stack # << >>, NEW tasks, IsSequence(tasks),
         Continue(tasks), UNCHANGED << ast, ir >>, Keepless(tasks),
         SeesFit(ast, Top, tasks, Sees(ast, Top)), \A F : UsesFit(ast, Top, tasks, F, F)
  PROVE  OInv'
<1>is. PICK is : is = << >>
  OBVIOUS
<1>placed. PICK placed : placed = {}
  OBVIOUS
<1>fresh. PICK fresh : fresh = 0
  OBVIOUS
<1>f. PICK f : f = nullptr
  OBVIOUS
<1>S. PICK S : S = Supply(blocks, avail, insertBlock)
  OBVIOUS
<1>D. PICK D : D = Sees(ast, Top)
  OBVIOUS
<1>1. ast' = ast /\ ir_value' = ir_value /\ blocks' = blocks /\ insertBlock' = insertBlock
  BY DEF ir
<1>2. Shape(blocks, blocks', insertBlock, is, placed, f, fresh)
  BY <1>1, <1>is, <1>placed, <1>fresh, NothingWritten DEF IInv
<1>3. /\ Fits(is, S) /\ TargetsOf(is) = {} /\ IsSequence(is)
      /\ S \cup Past(is, Len(is)) = S
  BY <1>is, FitsNothing
<1>4. D \subseteq DOMAIN ir_value /\ Needs(ast, D) \subseteq S
  BY <1>D, <1>S, DeclaredThere
<1>5. StepFits(avail, tasks, is, placed, f, fresh, D)
  BY <1>1, <1>2, <1>3, <1>4, <1>is, <1>placed, <1>fresh, <1>S, <1>D DEF StepFits, Keepless
<1>6. QED
  BY <1>5, StepComputes

\* The operands of a node, in any order, then what is done with them.
LEMMA LevelOnward ==
  ASSUME IInv, OInv, stack # << >>, ast[Top.node].kind \in LevelKinds, NEW tasks, IsSequence(tasks),
         Continue(tasks), UNCHANGED << ast, ir >>, Keepless(tasks),
         \A a \in 1 .. Len(tasks) : Level(ast, Top.node, tasks[a]),
         \A F : UsesFit(ast, Top, tasks, F, F)
  PROVE  OInv'
<1>1. PICK avail : Computes(avail)
  BY DEF OInv
<1>2. IsProgram(ast) /\ Top.node \in DOMAIN ast
  BY TopParts
<1> PICK n : n = Top.node
  OBVIOUS
<1>3. Level(ast, n, Top)
  BY <1>2, LevelTask
<1>4. SeesFit(ast, Top, tasks, Sees(ast, Top))
  BY <1>3, LevelFits
<1>5. QED
  BY <1>1, <1>4, OnwardComputes

\* The operands of a node in some order, and then the node again.
OperandsFirst(t, n, tasks) ==
  LET l == Len(tasks)
  IN  /\ IsSequence(tasks) /\ l \in Nat \ {0}
      /\ \A a \in 1 .. l - 1 : \E i \in 1 .. Len(t[n].kids) :
           tasks[a] = Visit(Kid(t, n, i)) /\ t[Kid(t, n, i)].kind \in ExpressionKinds
      /\ \/ tasks[l] = Finish(n)
         \/ tasks[l] = [op |-> "branch", node |-> n] /\ t[n].kind = "If"
      /\ \A x \in Uses(t, tasks[l]) : \E a \in 1 .. l - 1 : tasks[a] = Visit(x)

LEMMA OperandsFirstFit ==
  ASSUME NEW t, IsProgram(t), NEW n \in DOMAIN t, t[n].kind \in LevelKinds, NEW tasks,
         OperandsFirst(t, n, tasks), NEW top, top = Visit(n), NEW F
  PROVE  /\ \A a \in 1 .. Len(tasks) : Level(t, n, tasks[a])
         /\ UsesFit(t, top, tasks, F, F)
<1> PICK l : l = Len(tasks)
  OBVIOUS
<1> PICK last : last = tasks[l]
  OBVIOUS
<1>1. /\ l \in Nat \ {0}
      /\ \A a \in 1 .. l - 1 : \E i \in 1 .. Len(t[n].kids) :
           tasks[a] = Visit(Kid(t, n, i)) /\ t[Kid(t, n, i)].kind \in ExpressionKinds
      /\ last.op \in {"finish", "branch"} /\ last.node = n
      /\ t[n].kind \in ExpressionKinds => last.op = "finish"
      /\ \A x \in Uses(t, last) : \E a \in 1 .. l - 1 : tasks[a] = Visit(x)
  BY DEF OperandsFirst, Finish, ExpressionKinds, LiteralKinds
<1>2. \A a \in 1 .. l : a \in 1 .. l - 1 \/ a = l
  BY <1>1
<1>3. ASSUME NEW a \in 1 .. l - 1
      PROVE  Level(t, n, tasks[a]) /\ Uses(t, tasks[a]) = {} /\ Evaluates(t, tasks[a])
  <2>1. PICK i \in 1 .. Len(t[n].kids) :
          tasks[a] = Visit(Kid(t, n, i)) /\ t[Kid(t, n, i)].kind \in ExpressionKinds
    BY <1>1
  <2>2. /\ Level(t, n, Visit(Kid(t, n, i))) /\ Uses(t, Visit(Kid(t, n, i))) = {}
        /\ t[Kid(t, n, i)].kind \in ExpressionKinds <=> Evaluates(t, Visit(Kid(t, n, i)))
    BY LevelKid
  <2>3. QED
    BY <2>1, <2>2
<1>4. Level(t, n, last)
  BY <1>1, LevelTask
<1>5. ASSUME NEW a \in 1 .. l, NEW x \in Uses(t, tasks[a])
      PROVE  \E b \in 1 .. a - 1 : x \in Gives(t, tasks[b])
  <2>1. a = l
    BY <1>2, <1>3, <1>5
  <2>2. PICK b \in 1 .. l - 1 : tasks[b] = Visit(x)
    BY <1>1, <1>5, <2>1
  <2>3. x \in Gives(t, tasks[b])
    BY <1>3, <2>2 DEF Gives, Visit
  <2>4. QED
    BY <2>1, <2>3
<1>6. ASSUME NEW a \in 1 .. l, NEW b \in 1 .. a - 1 PROVE Evaluates(t, tasks[b])
  BY <1>1, <1>3
<1>7. Evaluates(t, top) => Evaluates(t, last)
  BY <1>1 DEF Evaluates, Visit
<1>8. \A a \in 1 .. l : Evaluates(t, top) => Evaluates(t, tasks[a])
  BY <1>2, <1>3, <1>7
<1>9. last.node = top.node
  BY <1>1 DEF Visit
<1>10. UsesFit(t, top, tasks, F, F)
  BY <1>1, <1>5, <1>6, <1>8, <1>9 DEF UsesFit
<1>11. QED
  BY <1>2, <1>3, <1>4, <1>10

LEMMA StraightKeepless ==
  ASSUME IsProgram(ast), NEW f, f # nullptr, NEW tasks,
         \A a \in 1 .. Len(tasks) : Straight(ast, f, tasks[a])
  PROVE  Keepless(tasks)
<1>1. ASSUME NEW k, Straight(ast, f, k) PROVE Awaits(ast)[k] \cup ComesBack(ast)[k] = {}
  <2>1. Idle(ast, k)
    BY <1>1, PlainTask DEF Straight
  <2>2. QED
    BY <2>1 DEF Idle
<1>2. QED
  BY <1>1 DEF Keepless

LEMMA OperandsFirstComputes ==
  ASSUME IInv, OInv, NEW kinds, Visiting(kinds), kinds \subseteq LevelKinds, NEW tasks,
         OperandsFirst(ast, Top.node, tasks), Continue(tasks), UNCHANGED << ast, ir >>
  PROVE  OInv'
<1> PICK n : n = Top.node
  OBVIOUS
<1> PICK l : l = Len(tasks)
  OBVIOUS
<1> PICK op : op = "visit"
  OBVIOUS
<1>1. stack # << >> /\ ast[n].kind \in LevelKinds /\ Doing(op, kinds) /\ op \in {"visit", "finish", "branch"}
  BY DEF Visiting, Doing
<1>2. IsProgram(ast) /\ IsTree(ast) /\ n \in DOMAIN ast
  BY <1>1, TopParts
<1>3. kinds \cap {"Program", "Function", "Variable", "Array"} = {}
  BY DEF LevelKinds, ExpressionKinds, LiteralKinds
<1>4. EnclosingFunction(ast, n) # nullptr /\ Top = Visit(n)
  BY <1>1, <1>3, TopInside DEF Visit
<1>5. ASSUME NEW a \in 1 .. l PROVE Straight(ast, EnclosingFunction(ast, n), tasks[a])
  <2>1. CASE a \in 1 .. l - 1
    <3>1. PICK i \in 1 .. Len(ast[n].kids) : tasks[a] = Visit(Kid(ast, n, i))
      BY <2>1 DEF OperandsFirst
    <3>2. QED
      BY <1>2, <1>4, <3>1, StraightKid
  <2>2. CASE a = l
    BY <1>2, <2>2, StraightFinish DEF OperandsFirst, Straight
  <2>3. a \in 1 .. l - 1 \/ a = l
    BY DEF OperandsFirst
  <2>4. QED
    BY <2>1, <2>2, <2>3
<1>6. Keepless(tasks)
  BY <1>2, <1>4, <1>5, StraightKeepless
<1>7. /\ \A a \in 1 .. l : Level(ast, n, tasks[a])
      /\ \A F : UsesFit(ast, Top, tasks, F, F)
  BY <1>1, <1>2, <1>4, OperandsFirstFit
<1>8. IsSequence(tasks)
  BY DEF OperandsFirst
<1>9. QED
  BY <1>1, <1>6, <1>7, <1>8, LevelOnward

LEMMA OperandsComputes ==
  ASSUME IInv, OInv, NEW kinds, Visiting(kinds), UNCHANGED << ast, ir >>,
         kinds \subseteq {"Return", "ExpressionStmt"} \cup ExpressionKinds,
         Continue(VisitAll(Kids(ast, Top.node)) \o << Finish(Top.node) >>)
  PROVE  OInv'
<1> PICK n : n = Top.node
  OBVIOUS
<1> PICK visits : visits = VisitAll(Kids(ast, n))
  OBVIOUS
<1> PICK x : x = Finish(n)
  OBVIOUS
<1> PICK tasks : tasks = visits \o << x >>
  OBVIOUS
<1> PICK l : l = Len(ast[n].kids)
  OBVIOUS
<1>1. /\ stack # << >> /\ ast[n].kind \in {"Return", "ExpressionStmt"} \cup ExpressionKinds
      /\ IsTree(ast) /\ n \in DOMAIN ast
  <2>1. stack # << >> /\ ast[n].kind \in kinds
    BY DEF Visiting, Doing
  <2>2. QED
    BY <2>1, TopParts
<1>2. /\ l \in Nat /\ IsSequence(Kids(ast, n)) /\ Len(Kids(ast, n)) = l
      /\ \A i \in 1 .. l : Kids(ast, n)[i] = Kid(ast, n, i)
  BY <1>1, KidsSequence, SequenceOf
<1>3. IsSequence(visits) /\ Len(visits) = l /\ \A i \in 1 .. l : visits[i] = Visit(Kid(ast, n, i))
  BY <1>2, VisitAllParts
<1>4. Extends(tasks, visits, x)
  BY <1>3, LastAdded
<1>5. /\ IsSequence(tasks) /\ Len(tasks) = l + 1 /\ tasks[l + 1] = Finish(n)
      /\ \A i \in 1 .. l : tasks[i] = Visit(Kid(ast, n, i))
  BY <1>3, <1>4 DEF Extends
<1>6. \A i \in 1 .. l : ast[Kid(ast, n, i)].kind \in ExpressionKinds
  BY <1>1, Operands DEF NodesOf
<1>7. Uses(ast, Finish(n)) \subseteq {Kid(ast, n, i) : i \in 1 .. l}
  BY DEF Uses, Finish
<1>8. (l + 1) - 1 = l /\ l + 1 \in Nat \ {0}
  BY <1>2
<1>9. OperandsFirst(ast, n, tasks)
  BY <1>5, <1>6, <1>7, <1>8 DEF OperandsFirst
<1>10. kinds \subseteq LevelKinds
  BY DEF LevelKinds
<1>11. QED
  BY <1>9, <1>10, OperandsFirstComputes

LEMMA StatementComputes ==
  ASSUME IInv, OInv, VisitStatement
  PROVE  OInv'
<1> PICK kinds : kinds = {"Return", "ExpressionStmt"}
  OBVIOUS
<1>1. /\ Visiting(kinds) /\ UNCHANGED << ast, ir >>
      /\ kinds \subseteq {"Return", "ExpressionStmt"} \cup ExpressionKinds
      /\ Continue(VisitAll(Kids(ast, Top.node)) \o << Finish(Top.node) >>)
  BY DEF VisitStatement
<1>2. QED
  BY <1>1, OperandsComputes

LEMMA ExpressionComputes ==
  ASSUME IInv, OInv, VisitExpression
  PROVE  OInv'
<1> PICK kinds : kinds = {"Subscript", "ImplicitCast", "Call", "Additive", "Multiplicative",
                          "Relational"}
  OBVIOUS
<1>1. /\ Visiting(kinds) /\ UNCHANGED << ast, ir >>
      /\ kinds \subseteq {"Return", "ExpressionStmt"} \cup ExpressionKinds
      /\ Continue(VisitAll(Kids(ast, Top.node)) \o << Finish(Top.node) >>)
  BY DEF VisitExpression, VisitOperands, ExpressionKinds
<1>2. QED
  BY <1>1, OperandsComputes

LEMMA AssignmentVisitComputes ==
  ASSUME IInv, OInv, VisitAssignment
  PROVE  OInv'
<1> PICK n : n = Top.node
  OBVIOUS
<1> PICK x : x = Kid(ast, n, 2)
  OBVIOUS
<1> PICK y : y = Kid(ast, n, 1)
  OBVIOUS
<1> PICK tasks : tasks = << Visit(x), Visit(y), Finish(n) >>
  OBVIOUS
<1> PICK kinds : kinds = {"Assignment"}
  OBVIOUS
<1>1. Visiting(kinds) /\ Continue(tasks) /\ UNCHANGED << ast, ir >>
  BY DEF VisitAssignment
<1>2. kinds \subseteq LevelKinds
  BY DEF LevelKinds, ExpressionKinds
<1>3. IsTree(ast) /\ n \in DOMAIN ast /\ ast[n].kind = "Assignment"
  <2>1. stack # << >> /\ ast[n].kind = "Assignment"
    BY <1>1 DEF Visiting, Doing
  <2>2. QED
    BY <2>1, TopParts
<1>4. Len(ast[n].kids) = 2 /\ 1 \in 1 .. 2 /\ 2 \in 1 .. 2 /\ \A i \in 1 .. 2 : i \in {1, 2}
  BY <1>3, KidCounts
<1>5. ast[x].kind \in ExpressionKinds /\ ast[y].kind \in ExpressionKinds
  BY <1>3, <1>4, Operands DEF ExpressionKinds, NodesOf
<1>6. /\ IsSequence(tasks) /\ Len(tasks) = 3
      /\ tasks[1] = Visit(x) /\ tasks[2] = Visit(y) /\ tasks[3] = Finish(n)
  BY FewTasks
<1>7. Uses(ast, Finish(n)) \subseteq {x, y}
  BY <1>4 DEF Uses, Finish
<1>8. \A a : a \in 1 .. 3 - 1 <=> a \in {1, 2}
  OBVIOUS
<1>9. OperandsFirst(ast, n, tasks)
  BY <1>4, <1>5, <1>6, <1>7, <1>8 DEF OperandsFirst
<1>10. QED
  BY <1>1, <1>2, <1>9, OperandsFirstComputes

LEMMA IfComputes ==
  ASSUME IInv, OInv, VisitIf
  PROVE  OInv'
<1> PICK n : n = Top.node
  OBVIOUS
<1> PICK x : x = Kid(ast, n, 1)
  OBVIOUS
<1> PICK branch : branch = [op |-> "branch", node |-> n]
  OBVIOUS
<1> PICK tasks : tasks = << Visit(x), branch >>
  OBVIOUS
<1> PICK kinds : kinds = {"If"}
  OBVIOUS
<1>1. Visiting(kinds) /\ Continue(tasks) /\ UNCHANGED << ast, ir >>
  BY DEF VisitIf
<1>2. kinds \subseteq LevelKinds
  BY DEF LevelKinds
<1>3. IsTree(ast) /\ n \in DOMAIN ast /\ ast[n].kind = "If"
  <2>1. stack # << >> /\ ast[n].kind = "If"
    BY <1>1 DEF Visiting, Doing
  <2>2. QED
    BY <2>1, TopParts
<1>4. 1 \in 1 .. Len(ast[n].kids)
  BY <1>3, KidCounts, SMTT(30)
<1>5. ast[x].kind \in ExpressionKinds
  <2>1. x \in NodesOf(ast, ExpressionKinds)
    BY <1>3, <1>4, Operands
  <2>2. QED
    BY ONLY <2>1 DEF NodesOf
<1>6. IsSequence(tasks) /\ Len(tasks) = 2 /\ tasks[1] = Visit(x) /\ tasks[2] = branch
  BY FewTasks
<1>7. Uses(ast, branch) = {x}
  BY DEF Uses
<1>8. \A a : a \in 1 .. 2 - 1 <=> a = 1
  OBVIOUS
<1>9. OperandsFirst(ast, n, tasks)
  BY <1>3, <1>4, <1>5, <1>6, <1>7, <1>8 DEF OperandsFirst
<1>10. QED
  BY <1>1, <1>2, <1>9, OperandsFirstComputes

LEMMA ExpressionStmtComputes ==
  ASSUME IInv, OInv, FinishExpressionStmt
  PROVE  OInv'
<1> PICK tasks : tasks = << >>
  OBVIOUS
<1>1. /\ stack # << >> /\ ast[Top.node].kind = "ExpressionStmt" /\ Continue(tasks)
      /\ UNCHANGED << ast, ir >>
  BY DEF FinishExpressionStmt, Doing
<1>2. IsSequence(tasks) /\ Len(tasks) = 0 /\ \A a : a \notin 1 .. 0
  BY ShortSequences
<1>3. ~ Evaluates(ast, Top)
  BY <1>1 DEF Evaluates, ExpressionKinds, LiteralKinds
<1>4. Keepless(tasks) /\ \A F : UsesFit(ast, Top, tasks, F, F)
  BY <1>2, <1>3 DEF Keepless, UsesFit
<1>5. ast[Top.node].kind \in LevelKinds
  BY <1>1 DEF LevelKinds
<1>6. QED
  BY <1>1, <1>2, <1>4, <1>5, LevelOnward

\* The parts of a block, in turn.
LEMMA BlockInTurn ==
  ASSUME NEW t, IsProgram(t), NEW n \in DOMAIN t, t[n].kind = "Compound", NEW tasks, NEW m \in Nat,
         m <= Len(t[n].kids), Len(tasks) = m, \A a \in 1 .. m : tasks[a] = Visit(Kid(t, n, a)),
         NEW top, top = Visit(n), NEW F
  PROVE  SeesFit(t, top, tasks, Sees(t, top)) /\ UsesFit(t, top, tasks, F, F)
<1>1. /\ IsTree(t) /\ t[1].kind = "Program" /\ n \in Nat \ {0} /\ n # 1 /\ n \notin DeclsOf(t)
      /\ Len(t[n].kids) \in Nat
  BY NodeShape DEF IsProgram, DeclsOf, DeclKinds
<1>2. \A a \in 1 .. m : a \in 1 .. Len(t[n].kids)
  BY <1>1
<1>3. Sees(t, top) = Visible(t, n) /\ Declares(t, top) = {} /\ ~ Evaluates(t, top)
  BY <1>1 DEF Sees, Declares, Evaluates, Visit, ExpressionKinds, LiteralKinds
<1>4. ASSUME NEW a \in 1 .. m
      PROVE  /\ Sees(t, tasks[a]) = Visible(t, Kid(t, n, a))
             /\ Declares(t, tasks[a]) = {Kid(t, n, a)} \cap DeclsOf(t)
             /\ Uses(t, tasks[a]) = {}
  <2>1. Kid(t, n, a) # 1
    <3>1. n < Kid(t, n, a) /\ Kid(t, n, a) \in Nat
      BY <1>1, <1>2, NodeShape, KidsInside
    <3>2. QED
      BY <1>1, <3>1
  <2>2. tasks[a].op = "visit" /\ tasks[a].node = Kid(t, n, a)
    BY DEF Visit
  <2>3. QED
    BY <2>1, <2>2 DEF Sees, Declares, Uses
<1>5. ASSUME NEW a \in 1 .. m - 1
      PROVE  Sees(t, tasks[a + 1]) \subseteq Sees(t, tasks[a]) \cup Declares(t, tasks[a])
  <2>1. a \in 1 .. m /\ a + 1 \in 1 .. m /\ a + 1 # 1 /\ (a + 1) - 1 = a
    OBVIOUS
  <2> PICK i \in 1 .. Len(t[n].kids) : i = a + 1
    BY <1>2, <2>1
  <2>2. Visible(t, Kid(t, n, i)) \subseteq
          Visible(t, Kid(t, n, i - 1)) \cup ({Kid(t, n, i - 1)} \cap DeclsOf(t))
    BY <2>1, VisibleInTurn
  <2>3. QED
    BY <1>4, <2>1, <2>2
<1>6. ASSUME m # 0
      PROVE  /\ Sees(t, tasks[1]) \subseteq Visible(t, n)
             /\ Visible(t, n) \subseteq Sees(t, tasks[m])
  <2>1. 1 \in 1 .. m /\ m \in 1 .. m
    BY <1>6
  <2>2. Visible(t, n) \subseteq Visible(t, Kid(t, n, m))
    BY <1>2, <2>1, VisibleInTurn
  <2> PICK i \in 1 .. Len(t[n].kids) : i = 1
    BY <1>2, <2>1
  <2>3. Visible(t, Kid(t, n, i)) \subseteq
          BuiltinDecls \cup Visible(t, n) \cup ({n} \cap DeclsOf(t)) \cup
          ({Kid(t, n, l) : l \in 1 .. i - 1} \cap DeclsOf(t))
    BY VisibleInTurn
  <2>4. BuiltinDecls \subseteq Visible(t, n) /\ 1 .. i - 1 = {}
    BY <1>1 DEF Visible
  <2>5. QED
    BY <1>1, <1>4, <2>1, <2>2, <2>3, <2>4
<1>7. SeesFit(t, top, tasks, Sees(t, top))
  BY <1>3, <1>5, <1>6 DEF SeesFit
<1>8. UsesFit(t, top, tasks, F, F)
  BY <1>3, <1>4 DEF UsesFit
<1>9. QED
  BY <1>7, <1>8

LEMMA CompoundComputes ==
  ASSUME IInv, OInv, VisitCompound
  PROVE  OInv'
<1>n. PICK n : n = Top.node
  OBVIOUS
<1>decls. PICK decls : decls = LocalDecls(ast, n)
  OBVIOUS
<1>stmts. PICK stmts : stmts = Statements(ast, n)
  OBVIOUS
<1>gen. PICK gen : gen = Generated(stmts)
  OBVIOUS
<1>ns. PICK ns : ns = decls \o gen
  OBVIOUS
<1>tasks. PICK tasks : tasks = VisitAll(ns)
  OBVIOUS
<1>kinds. PICK kinds : kinds = {"Compound"}
  OBVIOUS
<1>op. PICK op : op = "visit"
  OBVIOUS
<1>d. PICK d : d = ast[n].locals
  OBVIOUS
<1>l. PICK l : l = Len(gen)
  OBVIOUS
<1>k. PICK k : k = Len(ast[n].kids)
  OBVIOUS
<1>1. Doing(op, kinds) /\ Continue(tasks) /\ UNCHANGED << ast, ir >>
  BY <1>n, <1>decls, <1>stmts, <1>gen, <1>ns, <1>tasks, <1>kinds, <1>op
     DEF VisitCompound, Visiting
<1>2. kinds \cap {"Program", "Function", "Variable", "Array"} = {} /\ op \in {"visit", "finish", "branch"}
  BY <1>kinds, <1>op
<1>3. /\ IsProgram(ast) /\ IsTree(ast) /\ n \in DOMAIN ast /\ ast[n].kind = "Compound"
      /\ stack # << >>
  <2>1. stack # << >> /\ ast[n].kind = "Compound"
    BY <1>1, <1>n, <1>kinds DEF Doing
  <2>2. QED
    BY <2>1, <1>n, TopParts
<1>4. EnclosingFunction(ast, n) # nullptr /\ Top = Visit(n)
  BY <1>1, <1>2, <1>n, <1>op, TopInside DEF Visit
<1>5. /\ d \in 0 .. k /\ k \in Nat /\ decls \in Seq(DOMAIN ast) /\ Len(decls) = d
      /\ \A i \in 1 .. d : decls[i] = Kid(ast, n, i)
      /\ Len(stmts) = k - d /\ \A i \in 1 .. k - d : stmts[i] = Kid(ast, n, d + i)
  <2>1. /\ ast[n].locals \in 0 .. Len(ast[n].kids) /\ Len(ast[n].kids) \in Nat
        /\ LocalDecls(ast, n) \in Seq(DOMAIN ast) /\ Len(LocalDecls(ast, n)) = ast[n].locals
        /\ \A i \in 1 .. ast[n].locals : LocalDecls(ast, n)[i] = Kid(ast, n, i)
        /\ Len(Statements(ast, n)) = Len(ast[n].kids) - ast[n].locals
        /\ \A i \in 1 .. Len(ast[n].kids) - ast[n].locals :
             Statements(ast, n)[i] = Kid(ast, n, ast[n].locals + i)
    BY <1>3, BlockParts
  <2>2. QED
    BY <1>d, <1>decls, <1>stmts, <1>k, <2>1
<1>6. /\ IsSequence(gen) /\ l \in 0 .. Len(stmts) /\ \A i \in 1 .. l : gen[i] = stmts[i]
  <2>1. GeneratedWell(n, stmts)
    BY <1>3, <1>stmts, GeneratedParts
  <2>2. QED
    BY <2>1, <1>gen, <1>l DEF GeneratedWell
<1>7. d \in Nat /\ l \in Nat /\ d + l \in Nat /\ d + l <= k /\ \A i \in 1 .. l : i \in 1 .. k - d
  BY <1>5, <1>6
<1>8. /\ IsSequence(ns) /\ Len(ns) = d + l
      /\ \A i \in 1 .. d : ns[i] = decls[i]
      /\ \A i \in 1 .. l : ns[d + i] = gen[i]
  <2>1. IsSequence(decls)
    BY <1>5, SequenceOf
  <2>2. /\ IsSequence(ns) /\ Len(ns) = Len(decls) + Len(gen)
        /\ \A i \in 1 .. Len(decls) : ns[i] = decls[i]
        /\ \A i \in 1 .. Len(gen) : ns[Len(decls) + i] = gen[i]
    BY <1>6, <1>ns, <2>1, Joined
  <2>3. QED
    BY <1>5, <1>l, <2>2
<1>9. \A a \in 1 .. d + l : ns[a] = Kid(ast, n, a)
  <2> TAKE a \in 1 .. d + l
  <2>1. CASE a \in 1 .. d
    BY <1>5, <1>8, <2>1
  <2>2. CASE a \notin 1 .. d
    <3>1. PICK j \in 1 .. l : d + j = a
      BY <1>7, <2>2, PlacesSplit
    <3>2. QED
      BY <1>5, <1>6, <1>7, <1>8, <3>1
  <2>3. QED
    BY <2>1, <2>2
<1>10. IsSequence(tasks) /\ Len(tasks) = d + l /\ \A a \in 1 .. d + l : tasks[a] = Visit(Kid(ast, n, a))
  BY <1>8, <1>9, <1>tasks, VisitAllParts
<1>11. /\ SeesFit(ast, Top, tasks, Sees(ast, Top))
       /\ \A F : UsesFit(ast, Top, tasks, F, F)
  <2> PICK m \in Nat : m = d + l
    BY <1>7
  <2>1. m <= Len(ast[n].kids) /\ Len(tasks) = m /\ \A a \in 1 .. m : tasks[a] = Visit(Kid(ast, n, a))
    BY <1>7, <1>10, <1>k
  <2>2. QED
    BY <1>3, <1>4, <2>1, BlockInTurn
<1>12. Keepless(tasks)
  <2>1. \A a \in 1 .. Len(tasks) : Straight(ast, EnclosingFunction(ast, n), tasks[a])
    <3>1. \A a \in 1 .. d + l : a \in 1 .. Len(ast[n].kids)
      BY <1>5, <1>7, <1>k
    <3>2. QED
      BY <1>3, <1>4, <1>10, <3>1, StraightKid
  <2>2. QED
    BY <1>3, <1>4, <2>1, StraightKeepless
<1>13. PICK avail : Computes(avail)
  BY DEF OInv
<1>14. QED
  BY <1>1, <1>3, <1>10, <1>11, <1>12, <1>13, OnwardComputes

(***************************************************************************)
(* Steps that write at the end of the block.                               *)
(***************************************************************************)
LEMMA BlockHere ==
  ASSUME IInv, Here.in # nullptr
  PROVE  /\ insertBlock \in 1 .. Len(blocks) /\ insertBlock \notin Pending(stack, Awaits(ast))
         /\ blocks[insertBlock].function = Here.in
<1>1. PICK home : Layout(ast, stack, blocks, Here, insertBlock, home)
  BY DEF IInv
<1>2. insertBlock \in 1 .. Len(blocks) /\ insertBlock \notin Pending(stack, Awaits(ast))
  BY <1>1 DEF Layout, Inserting
<1>3. QED
  BY <1>2, FunctionHere

\* The visit of the task on top ends, after the instructions is.
EndFits(avail, is) ==
  LET D  == Sees(ast, Top) \cup Declares(ast, Top)
      S  == Supply(blocks, avail, insertBlock)
      S2 == S \cup Past(is, Len(is))
  IN  /\ stack # << >> /\ Continue(<< >>) /\ UNCHANGED << ast, insertBlock >>
      /\ IsSequence(is) /\ Emit(is) /\ Fits(is, S) /\ TargetsOf(is) = {}
      /\ insertBlock \in 1 .. Len(blocks) \/ is = << >>
      /\ D \subseteq DOMAIN ir_value' /\ Needs(ast, Declares(ast, Top)) \subseteq S2
      /\ Evaluates(ast, Top) =>
           Fine(ir_value, S) \cup {Top.node} \subseteq Fine(ir_value', S2)
      /\ \A d \in DOMAIN ir_value' :
           \/ d \in DOMAIN ir_value /\ ir_value'[d] = ir_value[d]
           \/ d \notin Homes(ast) /\ (d \in DeclsOf(ast) => ir_value'[d].needs \subseteq Need(ast, d))

LEMMA EndComputes ==
  ASSUME IInv, NEW avail, Computes(avail), NEW is, EndFits(avail, is)
  PROVE  OInv'
<1>tasks. PICK tasks : tasks = << >>
  OBVIOUS
<1>placed. PICK placed : placed = {}
  OBVIOUS
<1>fresh. PICK fresh : fresh = 0
  OBVIOUS
<1>f. PICK f : f = nullptr
  OBVIOUS
<1>S. PICK S : S = Supply(blocks, avail, insertBlock)
  OBVIOUS
<1>S2. PICK S2 : S2 = S \cup Past(is, Len(is))
  OBVIOUS
<1>D. PICK D : D = Sees(ast, Top) \cup Declares(ast, Top)
  OBVIOUS
<1>1. /\ stack # << >> /\ Continue(tasks) /\ UNCHANGED << ast, insertBlock >>
      /\ IsSequence(is) /\ Emit(is) /\ Fits(is, S) /\ TargetsOf(is) = {}
      /\ insertBlock \in 1 .. Len(blocks) \/ is = << >>
      /\ D \subseteq DOMAIN ir_value' /\ Needs(ast, Declares(ast, Top)) \subseteq S2
      /\ Evaluates(ast, Top) =>
           Fine(ir_value, S) \cup {Top.node} \subseteq Fine(ir_value', S2)
      /\ \A d \in DOMAIN ir_value' :
           \/ d \in DOMAIN ir_value /\ ir_value'[d] = ir_value[d]
           \/ d \notin Homes(ast) /\ (d \in DeclsOf(ast) => ir_value'[d].needs \subseteq Need(ast, d))
  BY <1>tasks, <1>S, <1>S2, <1>D DEF EndFits
<1>2. IsSequence(tasks) /\ Len(tasks) = 0 /\ (\A a : a \notin 1 .. 0) /\ 1 .. 0 - 1 = {}
  BY <1>tasks, ShortSequences
<1>3. Shape(blocks, blocks', insertBlock, is, placed, f, fresh)
  BY <1>1, <1>placed, <1>fresh, WriteShape, BlocksKnown DEF Emit
<1>4. Needs(ast, D) \subseteq S2
  <2>1. Needs(ast, Sees(ast, Top)) \subseteq S
    BY <1>1, <1>S, DeclaredThere
  <2>2. QED
    BY <1>1, <1>D, <1>S2, <2>1, NeedsMore
<1>5. SeesFit(ast, Top, tasks, D) /\ UsesFit(ast, Top, tasks, Fine(ir_value, S), Fine(ir_value', S2))
  BY <1>1, <1>2, <1>D DEF SeesFit, UsesFit
<1>6. StepFits(avail, tasks, is, placed, f, fresh, D)
  BY <1>1, <1>2, <1>3, <1>4, <1>5, <1>placed, <1>fresh, <1>S, <1>S2 DEF StepFits
<1>7. QED
  BY <1>6, StepComputes

\* One instruction at the most.
Single(is, i) == is = << >> \/ is = << i >>

LEMMA SingleFits ==
  ASSUME NEW i, i.targets = << >>, i.op \notin {"br", "condbr"}, NEW is, Single(is, i),
         NEW S, \A x \in Range(i.args) : x.needs \subseteq S
  PROVE  /\ IsSequence(is) /\ Fits(is, S) /\ TargetsOf(is) = {}
         /\ is = << i >> => Past(is, Len(is)) = {Effect(i.op, i.at)}
<1>1. CASE is = << >>
  <2>1. << i >> # << >>
    BY EmptySeq, ShortSequences
  <2>2. QED
    BY <1>1, <2>1, FitsNothing
<1>2. CASE is = << i >>
  <2>1. IsSequence(is) /\ Len(is) = 1 /\ is[1] = i
    BY <1>2, ShortSequences
  <2>2. \A j : j \in 1 .. 1 <=> j = 1
    OBVIOUS
  <2>3. Range(i.targets) = {}
    BY DEF Range
  <2>4. Fits(is, S)
    BY <2>1, <2>2 DEF Fits
  <2>5. TargetsOf(is) = {}
    BY <2>1, <2>2, <2>3 DEF TargetsOf
  <2>6. Past(is, Len(is)) = {Effect(i.op, i.at)}
    BY <2>1, <2>2 DEF Past
  <2>7. QED
    BY <2>1, <2>4, <2>5, <2>6
<1>3. QED
  BY <1>1, <1>2 DEF Single

\* The visit of an expression ends with a value that is there.
LEMMA ValueComputes ==
  ASSUME IInv, NEW avail, Computes(avail), NEW op, NEW kinds, Doing(op, kinds),
         op \in {"visit", "finish"}, kinds \subseteq ExpressionKinds,
         NEW i, i.targets = << >>, i.op \notin {"br", "condbr"}, NEW is, Single(is, i),
         \A x \in Range(i.args) : x.needs \subseteq Supply(blocks, avail, insertBlock),
         NEW value, Generates(Top.node, is, value),
         value.needs \subseteq Supply(blocks, avail, insertBlock) \/
         (is = << i >> /\ value.needs \subseteq
                            Supply(blocks, avail, insertBlock) \cup {Effect(i.op, i.at)})
  PROVE  OInv'
<1> PICK n : n = Top.node
  OBVIOUS
<1> PICK S : S = Supply(blocks, avail, insertBlock)
  OBVIOUS
<1> PICK S2 : S2 = S \cup Past(is, Len(is))
  OBVIOUS
<1> PICK v2 : v2 = Assigned(ir_value, n, value)
  OBVIOUS
<1>1. /\ stack # << >> /\ Top.op = op /\ ast[n].kind \in ExpressionKinds
      /\ IsProgram(ast) /\ n \in DOMAIN ast
  <2>1. stack # << >> /\ Top.op = op /\ ast[n].kind \in ExpressionKinds
    BY DEF Doing
  <2>2. QED
    BY <2>1, TopParts
<1>2. kinds \cap {"Program", "Function", "Variable", "Array"} = {} /\ op \in {"visit", "finish", "branch"}
  BY DEF ExpressionKinds, LiteralKinds
<1>3. insertBlock \in 1 .. Len(blocks)
  <2>1. EnclosingFunction(ast, n) # nullptr /\ Here = Context(TRUE, EnclosingFunction(ast, n))
    BY <1>2, TopInside
  <2>2. Here.in # nullptr
    BY <2>1 DEF Context
  <2>3. QED
    BY <2>2, BlockHere
<1>4. /\ Emit(is) /\ ir_value' = v2 /\ Continue(<< >>) /\ UNCHANGED << ast, insertBlock >>
  BY DEF Generates, SetValue
<1>5. /\ IsSequence(is) /\ Fits(is, S) /\ TargetsOf(is) = {}
      /\ is = << i >> => Past(is, Len(is)) = {Effect(i.op, i.at)}
  BY SingleFits
<1>6. value.needs \subseteq S2
  BY <1>5
<1>7. /\ DOMAIN v2 = {n} \cup DOMAIN ir_value /\ v2[n] = value
      /\ \A m \in DOMAIN ir_value : m # n => v2[m] = ir_value[m]
  BY DEF Assigned
<1>8. Fine(ir_value, S) \cup {n} \subseteq Fine(v2, S2)
  BY <1>6, <1>7 DEF Fine
<1>9. ast[n].kind \in LevelKinds
  BY <1>1 DEF LevelKinds
<1>10. Level(ast, n, Top) /\ n \notin DeclsOf(ast) /\ n \notin Homes(ast)
  BY <1>1, <1>9, LevelTask, LevelNode
<1>11. Sees(ast, Top) \subseteq DOMAIN v2
  BY <1>1, <1>7, DeclaredThere
<1>12. Declares(ast, Top) = {} /\ Needs(ast, {}) = {}
  BY <1>10 DEF Level, Needs
<1>13. \A d \in DOMAIN v2 :
         \/ d \in DOMAIN ir_value /\ v2[d] = ir_value[d]
         \/ d \notin Homes(ast) /\ (d \in DeclsOf(ast) => v2[d].needs \subseteq Need(ast, d))
  BY <1>7, <1>10
<1>14. EndFits(avail, is)
  BY <1>1, <1>3, <1>4, <1>5, <1>8, <1>11, <1>12, <1>13 DEF EndFits
<1>15. QED
  BY <1>14, EndComputes

\* What is known of a step at an expression.
LEMMA ExpressionHere ==
  ASSUME IInv, NEW op, NEW kinds, Doing(op, kinds), kinds \subseteq ExpressionKinds,
         NEW avail, Computes(avail), NEW S, S = Supply(blocks, avail, insertBlock)
  PROVE  /\ IsProgram(ast) /\ IsTree(ast) /\ Top.node \in DOMAIN ast /\ ast[Top.node].kind \in kinds
         /\ ast[Top.node].kind \in {"VariableExpr", "Subscript", "Call"} =>
              ValueOf(referent[Top.node]).needs \subseteq S
         /\ op = "finish" =>
              \A i \in 1 .. Len(ast[Top.node].kids) : ValueOf(Kid(ast, Top.node, i)).needs \subseteq S
<1> PICK n : n = Top.node
  OBVIOUS
<1>1. stack # << >> /\ Top.op = op /\ ast[n].kind \in kinds
  BY DEF Doing
<1>2. IsProgram(ast) /\ IsTree(ast) /\ n \in DOMAIN ast
  BY <1>1, TopParts
<1>3. ast[n].kind \in {"VariableExpr", "Subscript", "Call"} => n \in UsesOf(ast)
  BY <1>2 DEF UsesOf, UseKinds
<1>4. n \in UsesOf(ast) => ValueOf(referent[n]).needs \subseteq S
  BY <1>1, PlaceThere
<1>5. ASSUME op = "finish", NEW i \in 1 .. Len(ast[n].kids)
      PROVE  ValueOf(Kid(ast, n, i)).needs \subseteq S
  <2>1. ast[n].kind # "Function"
    BY <1>1 DEF ExpressionKinds, LiteralKinds
  <2>2. Kid(ast, n, i) \in Uses(ast, Top)
    BY <1>1, <1>5, <2>1 DEF Uses
  <2>3. QED
    BY <1>1, <2>2, OperandThere
<1>6. QED
  BY <1>1, <1>2, <1>3, <1>4, <1>5

LEMMA ValueParts ==
  ASSUME NEW op, NEW n, NEW needs
  PROVE  Value(op, n, needs).needs = needs
BY DEF Value

LEMMA InstructionParts ==
  ASSUME NEW op, NEW n, NEW args, NEW targets, NEW i, i = Instruction(op, n, args, targets)
  PROVE  /\ i.op = op /\ i.at = n /\ i.args = args /\ i.targets = targets
         /\ Result(i).needs = {Effect(op, n)}
BY DEF Instruction, Result, Value

LEMMA FewArguments ==
  /\ Range(<< >>) = {}
  /\ \A x : Range(<< x >>) = {x}
  /\ \A x, y : Range(<< x, y >>) = {x, y}
<1>1. ASSUME NEW x, NEW y PROVE Range(<< x, y >>) = {x, y}
  <2>1. DOMAIN << x, y >> = {1, 2}
    OBVIOUS
  <2>2. QED
    BY <2>1 DEF Range
<1>2. ASSUME NEW x PROVE Range(<< x >>) = {x}
  <2>1. DOMAIN << x >> = {1}
    OBVIOUS
  <2>2. QED
    BY <2>1 DEF Range
<1>3. QED
  BY <1>1, <1>2 DEF Range

\* An instruction and a value over the supply: an alternative of a step.
Reads(i, op, S) ==
  /\ i.op = op /\ i.op \notin {"br", "condbr"} /\ i.at = Top.node /\ i.targets = << >>
  /\ \A x \in Range(i.args) : x.needs \subseteq S

LEMMA LoadReads ==
  ASSUME NEW place, NEW S, place.needs \subseteq S
  PROVE  Reads(Load(Top.node, place), "load", S)
<1> PICK i : i = Load(Top.node, place)
  OBVIOUS
<1>1. i.op = "load" /\ i.at = Top.node /\ i.args = << place >> /\ i.targets = << >>
  BY InstructionParts DEF Load
<1>2. Range(i.args) = {place}
  BY <1>1, FewArguments
<1>3. QED
  BY <1>1, <1>2 DEF Reads

LEMMA ResultComputes ==
  ASSUME IInv, NEW avail, Computes(avail), NEW op, NEW kinds, Doing(op, kinds),
         op \in {"visit", "finish"}, kinds \subseteq ExpressionKinds,
         NEW i, NEW opcode, Reads(i, opcode, Supply(blocks, avail, insertBlock)),
         NEW value, Generates(Top.node, << i >>, value),
         value.needs \subseteq Supply(blocks, avail, insertBlock) \cup {Effect(opcode, Top.node)}
  PROVE  OInv'
<1> PICK is : is = << i >>
  OBVIOUS
<1>1. Single(is, i)
  BY DEF Single
<1>2. /\ i.op = opcode /\ i.at = Top.node /\ i.targets = << >> /\ i.op \notin {"br", "condbr"}
      /\ \A x \in Range(i.args) : x.needs \subseteq Supply(blocks, avail, insertBlock)
  BY DEF Reads
<1>3. Generates(Top.node, is, value)
  OBVIOUS
<1>4. value.needs \subseteq Supply(blocks, avail, insertBlock) \cup {Effect(i.op, i.at)}
  BY <1>2
<1>5. QED
  BY <1>1, <1>2, <1>3, <1>4, ValueComputes

LEMMA TermComputes ==
  ASSUME IInv, NEW avail, Computes(avail), NEW op, NEW kinds, Doing(op, kinds),
         op \in {"visit", "finish"}, kinds \subseteq ExpressionKinds,
         NEW value, Generates(Top.node, << >>, value),
         value.needs \subseteq Supply(blocks, avail, insertBlock)
  PROVE  OInv'
<1> PICK is : is = << >>
  OBVIOUS
<1> PICK i : i = Instruction("load", Top.node, << >>, << >>)
  OBVIOUS
<1>1. Single(is, i)
  BY DEF Single
<1>2. i.op = "load" /\ i.args = << >> /\ i.targets = << >>
  BY InstructionParts
<1>3. i.op \notin {"br", "condbr"} /\ \A x \in Range(i.args) : FALSE
  BY <1>2, FewArguments
<1>4. Generates(Top.node, is, value)
  OBVIOUS
<1>5. QED
  BY <1>1, <1>2, <1>3, <1>4, ValueComputes

LEMMA LiteralComputes ==
  ASSUME IInv, OInv, VisitLiteral
  PROVE  OInv'
<1> PICK op : op = "visit"
  OBVIOUS
<1> PICK kinds : kinds = {"IntLiteral", "FloatLiteral", "BoolLiteral"}
  OBVIOUS
<1> PICK value : value = Value("constant", Top.node, {})
  OBVIOUS
<1>1. PICK avail : Computes(avail)
  BY DEF OInv
<1>2. Doing(op, kinds) /\ Generates(Top.node, << >>, value)
  BY DEF VisitLiteral, Visiting
<1>3. kinds \subseteq ExpressionKinds
  BY DEF ExpressionKinds, LiteralKinds
<1>4. value.needs = {}
  BY ValueParts
<1>5. QED
  BY <1>1, <1>2, <1>3, <1>4, TermComputes

LEMMA AssignmentComputes ==
  ASSUME IInv, OInv, FinishAssignment
  PROVE  OInv'
<1> PICK n : n = Top.node
  OBVIOUS
<1> PICK op : op = "finish"
  OBVIOUS
<1> PICK kinds : kinds = {"Assignment"}
  OBVIOUS
<1> PICK x : x = ValueOf(Kid(ast, n, 2))
  OBVIOUS
<1> PICK y : y = ValueOf(Kid(ast, n, 1))
  OBVIOUS
<1> PICK i : i = Store(n, x, y)
  OBVIOUS
<1>1. PICK avail : Computes(avail)
  BY DEF OInv
<1> PICK S : S = Supply(blocks, avail, insertBlock)
  OBVIOUS
<1>2. Doing(op, kinds) /\ Generates(Top.node, << i >>, Result(i)) /\ kinds \subseteq ExpressionKinds
  BY Zenon DEF FinishAssignment, ExpressionKinds
<1>3. /\ IsTree(ast) /\ n \in DOMAIN ast /\ ast[n].kind = "Assignment"
      /\ \A j \in 1 .. Len(ast[n].kids) : ValueOf(Kid(ast, n, j)).needs \subseteq S
  BY <1>1, <1>2, ExpressionHere
<1>4. Len(ast[n].kids) = 2
  BY <1>3, KidCounts
<1>5. x.needs \subseteq S /\ y.needs \subseteq S
  BY <1>3, <1>4
<1>6. /\ i.op = "store" /\ i.at = n /\ i.targets = << >> /\ Result(i).needs = {Effect("store", n)}
      /\ i.args = << x, y >>
  BY InstructionParts DEF Store
<1>7. Range(i.args) = {x, y}
  <2>1. Range(<< x, y >>) = {x, y}
    BY FewArguments, Zenon
  <2>2. QED
    BY <1>6, <2>1, Zenon
<1>8. Reads(i, "store", S)
  BY <1>5, <1>6, <1>7 DEF Reads
<1>9. Result(i).needs \subseteq S \cup {Effect("store", Top.node)}
  BY <1>6
<1>10. QED
  BY <1>1, <1>2, <1>8, <1>9, ResultComputes

LEMMA VariableExprComputes ==
  ASSUME IInv, OInv, VisitVariableExpr
  PROVE  OInv'
<1> PICK n : n = Top.node
  OBVIOUS
<1> PICK op : op = "visit"
  OBVIOUS
<1> PICK kinds : kinds = {"VariableExpr"}
  OBVIOUS
<1> PICK place : place = ValueOf(referent[n])
  OBVIOUS
<1> PICK i : i = Load(n, place)
  OBVIOUS
<1>1. PICK avail : Computes(avail)
  BY DEF OInv
<1> PICK S : S = Supply(blocks, avail, insertBlock)
  OBVIOUS
<1>2. /\ Doing(op, kinds) /\ kinds \subseteq ExpressionKinds
      /\ Generates(Top.node, << i >>, Result(i)) \/ Generates(Top.node, << >>, place)
  BY Zenon DEF VisitVariableExpr, Visiting, ExpressionKinds
<1>3. place.needs \subseteq S
  BY <1>1, <1>2, ExpressionHere
<1>4. Reads(i, "load", S)
  BY <1>3, LoadReads
<1>5. Result(i).needs \subseteq S \cup {Effect("load", Top.node)}
  BY InstructionParts DEF Load
<1>6. CASE Generates(Top.node, << i >>, Result(i))
  BY <1>1, <1>2, <1>4, <1>5, <1>6, ResultComputes
<1>7. CASE Generates(Top.node, << >>, place)
  BY <1>1, <1>2, <1>3, <1>7, TermComputes
<1>8. QED
  BY <1>2, <1>6, <1>7

LEMMA SubscriptComputes ==
  ASSUME IInv, OInv, FinishSubscript
  PROVE  OInv'
<1> PICK n : n = Top.node
  OBVIOUS
<1> PICK op : op = "finish"
  OBVIOUS
<1> PICK kinds : kinds = {"Subscript"}
  OBVIOUS
<1> PICK place : place = ValueOf(referent[n])
  OBVIOUS
<1> PICK index : index = ValueOf(Kid(ast, n, 1))
  OBVIOUS
<1> PICK i : i = Load(n, place)
  OBVIOUS
<1> PICK loaded : loaded = Computed("gep", n, << Result(i), index >>)
  OBVIOUS
<1> PICK direct : direct = Computed("gep", n, << place, index >>)
  OBVIOUS
<1>1. PICK avail : Computes(avail)
  BY DEF OInv
<1> PICK S : S = Supply(blocks, avail, insertBlock)
  OBVIOUS
<1>2. /\ Doing(op, kinds) /\ kinds \subseteq ExpressionKinds
      /\ Generates(Top.node, << i >>, loaded) \/ Generates(Top.node, << >>, direct)
  BY Zenon DEF FinishSubscript, ExpressionKinds
<1>3. /\ IsTree(ast) /\ n \in DOMAIN ast /\ ast[n].kind = "Subscript" /\ place.needs \subseteq S
      /\ \A j \in 1 .. Len(ast[n].kids) : ValueOf(Kid(ast, n, j)).needs \subseteq S
  BY <1>1, <1>2, ExpressionHere
<1>4. index.needs \subseteq S
  <2>1. Len(ast[n].kids) = 1
    BY <1>3, KidCounts
  <2>2. QED
    BY <1>3, <2>1
<1>5. Reads(i, "load", S)
  BY <1>3, LoadReads
<1>6. Result(i).needs = {Effect("load", n)}
  BY InstructionParts DEF Load
<1>7. loaded.needs = Result(i).needs \cup index.needs /\ direct.needs = place.needs \cup index.needs
  <2>1. ASSUME NEW x, NEW y PROVE Computed("gep", n, << x, y >>).needs = x.needs \cup y.needs
    <3>1. Computed("gep", n, << x, y >>).needs = UNION {z.needs : z \in Range(<< x, y >>)}
      BY ValueParts DEF Computed
    <3>2. Range(<< x, y >>) = {x, y}
      BY FewArguments
    <3>3. QED
      BY <3>1, <3>2
  <2>2. QED
    BY <2>1
<1>8. CASE Generates(Top.node, << i >>, loaded)
  <2>1. loaded.needs \subseteq S \cup {Effect("load", Top.node)}
    BY <1>4, <1>6, <1>7
  <2>2. QED
    BY <1>1, <1>2, <1>5, <1>8, <2>1, ResultComputes
<1>9. CASE Generates(Top.node, << >>, direct)
  <2>1. direct.needs \subseteq S
    BY <1>3, <1>4, <1>7
  <2>2. QED
    BY <1>1, <1>2, <1>9, <2>1, TermComputes
<1>10. QED
  BY <1>2, <1>8, <1>9

LEMMA ImplicitCastComputes ==
  ASSUME IInv, OInv, FinishImplicitCast
  PROVE  OInv'
<1> PICK n : n = Top.node
  OBVIOUS
<1> PICK op : op = "finish"
  OBVIOUS
<1> PICK kinds : kinds = {"ImplicitCast"}
  OBVIOUS
<1> PICK place : place = ValueOf(Kid(ast, n, 1))
  OBVIOUS
<1> PICK i : i = Load(n, place)
  OBVIOUS
<1>1. PICK avail : Computes(avail)
  BY DEF OInv
<1> PICK S : S = Supply(blocks, avail, insertBlock)
  OBVIOUS
<1>2. /\ Doing(op, kinds) /\ kinds \subseteq ExpressionKinds
      /\ Generates(Top.node, << i >>, Result(i)) \/ Generates(Top.node, << >>, place)
  BY Zenon DEF FinishImplicitCast, ExpressionKinds
<1>3. /\ IsTree(ast) /\ n \in DOMAIN ast /\ ast[n].kind = "ImplicitCast"
      /\ \A j \in 1 .. Len(ast[n].kids) : ValueOf(Kid(ast, n, j)).needs \subseteq S
  BY <1>1, <1>2, ExpressionHere
<1>4. place.needs \subseteq S
  <2>1. Len(ast[n].kids) = 1
    BY <1>3, KidCounts
  <2>2. QED
    BY <1>3, <2>1
<1>5. Reads(i, "load", S)
  BY <1>4, LoadReads
<1>6. Result(i).needs \subseteq S \cup {Effect("load", Top.node)}
  BY InstructionParts DEF Load
<1>7. CASE Generates(Top.node, << i >>, Result(i))
  BY <1>1, <1>2, <1>5, <1>6, <1>7, ResultComputes
<1>8. CASE Generates(Top.node, << >>, place)
  BY <1>1, <1>2, <1>4, <1>8, TermComputes
<1>9. QED
  BY <1>2, <1>7, <1>8

\* The values of the operands.
LEMMA OperandValues ==
  ASSUME NEW n \in DOMAIN ast, IsTree(ast), NEW S,
         \A j \in 1 .. Len(ast[n].kids) : ValueOf(Kid(ast, n, j)).needs \subseteq S
  PROVE  IsSequence(ValuesOf(Kids(ast, n))) /\ \A x \in Range(ValuesOf(Kids(ast, n))) : x.needs \subseteq S
<1> PICK ns : ns = Kids(ast, n)
  OBVIOUS
<1> PICK l : l = Len(ast[n].kids)
  OBVIOUS
<1> PICK values : values = ValuesOf(ns)
  OBVIOUS
<1>1. ns \in Seq(DOMAIN ast) /\ Len(ns) = l /\ l \in Nat /\ \A j \in 1 .. l : ns[j] = Kid(ast, n, j)
  BY KidsSequence
<1>2. DOMAIN ns = 1 .. l
  BY <1>1
<1>3. values = [j \in 1 .. l |-> ValueOf(ns[j])]
  BY <1>2 DEF ValuesOf
<1> HIDE DEF ValueOf
<1>4. values = [j \in 1 .. l |-> values[j]]
  BY <1>3
<1>5. IsSequence(values)
  BY <1>1, <1>4, SequenceMade
<1>6. \A j \in 1 .. l : values[j] = ValueOf(Kid(ast, n, j))
  BY <1>1, <1>3
<1>7. DOMAIN values = 1 .. l
  BY <1>3
<1>8. \A x \in Range(values) : \E j \in 1 .. l : x = values[j]
  BY <1>7 DEF Range
<1>9. QED
  BY <1>5, <1>6, <1>8

LEMMA CallComputes ==
  ASSUME IInv, OInv, FinishCall
  PROVE  OInv'
<1> PICK n : n = Top.node
  OBVIOUS
<1> PICK op : op = "finish"
  OBVIOUS
<1> PICK kinds : kinds = {"Call"}
  OBVIOUS
<1> PICK callee : callee = ValueOf(referent[n])
  OBVIOUS
<1> PICK values : values = ValuesOf(Kids(ast, n))
  OBVIOUS
<1> PICK args : args = << callee >> \o values
  OBVIOUS
<1> PICK i : i = CallOf(n, args)
  OBVIOUS
<1>1. PICK avail : Computes(avail)
  BY DEF OInv
<1> PICK S : S = Supply(blocks, avail, insertBlock)
  OBVIOUS
<1>2. Doing(op, kinds) /\ Generates(Top.node, << i >>, Result(i)) /\ kinds \subseteq ExpressionKinds
  BY Zenon DEF FinishCall, ExpressionKinds
<1>3. /\ IsTree(ast) /\ n \in DOMAIN ast /\ callee.needs \subseteq S
      /\ \A j \in 1 .. Len(ast[n].kids) : ValueOf(Kid(ast, n, j)).needs \subseteq S
  BY <1>1, <1>2, ExpressionHere
<1>4. IsSequence(values) /\ \A x \in Range(values) : x.needs \subseteq S
  BY <1>3, OperandValues
<1>5. \A x \in Range(args) : x = callee \/ x \in Range(values)
  <2>1. IsSequence(<< callee >>) /\ Len(<< callee >>) = 1 /\ << callee >>[1] = callee
    BY ShortSequences
  <2>2. /\ IsSequence(args)
        /\ \A j \in 1 .. Len(args) : \/ j \in 1 .. 1 /\ args[j] = << callee >>[j]
                                     \/ j - 1 \in 1 .. Len(values) /\ args[j] = values[j - 1]
    BY <1>4, <2>1, Joined
  <2>3. DOMAIN args = 1 .. Len(args) /\ DOMAIN values = 1 .. Len(values)
    BY <1>4, <2>2, SequenceParts
  <2>4. \A j \in 1 .. 1 : j = 1
    OBVIOUS
  <2>5. QED
    BY <2>1, <2>2, <2>3, <2>4 DEF Range
<1>6. /\ i.op = "call" /\ i.at = n /\ i.targets = << >> /\ i.args = args
      /\ Result(i).needs = {Effect("call", n)}
  BY DEF CallOf, Instruction, Result, Value
<1>7. Reads(i, "call", S)
  BY <1>3, <1>4, <1>5, <1>6 DEF Reads
<1>8. Result(i).needs \subseteq S \cup {Effect("call", Top.node)}
  BY <1>6
<1>9. QED
  BY <1>1, <1>2, <1>7, <1>8, ResultComputes

LEMMA OperationComputes ==
  ASSUME IInv, OInv, FinishOperation
  PROVE  OInv'
<1> PICK n : n = Top.node
  OBVIOUS
<1> PICK op : op = "finish"
  OBVIOUS
<1> PICK kinds : kinds = {"Additive", "Multiplicative", "Relational"}
  OBVIOUS
<1> PICK values : values = ValuesOf(Kids(ast, n))
  OBVIOUS
<1> PICK value : value = Computed(ast[n].operation, n, values)
  OBVIOUS
<1>1. PICK avail : Computes(avail)
  BY DEF OInv
<1> PICK S : S = Supply(blocks, avail, insertBlock)
  OBVIOUS
<1>2. Doing(op, kinds) /\ Generates(Top.node, << >>, value) /\ kinds \subseteq ExpressionKinds
  BY Zenon DEF FinishOperation, ExpressionKinds
<1>3. /\ IsTree(ast) /\ n \in DOMAIN ast
      /\ \A j \in 1 .. Len(ast[n].kids) : ValueOf(Kid(ast, n, j)).needs \subseteq S
  BY <1>1, <1>2, ExpressionHere
<1>4. \A x \in Range(values) : x.needs \subseteq S
  BY <1>3, OperandValues
<1>5. value.needs = UNION {x.needs : x \in Range(values)}
  BY ValueParts DEF Computed
<1>6. value.needs \subseteq S
  BY <1>4, <1>5
<1>7. QED
  BY <1>1, <1>2, <1>6, TermComputes

\* A return is written for a task that leaves no value.
LEMMA ReturnComputes ==
  ASSUME IInv, OInv, FinishReturn
  PROVE  OInv'
<1> PICK n : n = Top.node
  OBVIOUS
<1> PICK op : op = "finish"
  OBVIOUS
<1> PICK kinds : kinds = {"Return"}
  OBVIOUS
<1> PICK x : x = ValueOf(Kid(ast, n, 1))
  OBVIOUS
<1> PICK i : i = IF ast[n].kids = << >> THEN RetVoid(n) ELSE Ret(n, x)
  OBVIOUS
<1> PICK is : is = << i >>
  OBVIOUS
<1>1. PICK avail : Computes(avail)
  BY DEF OInv
<1> PICK S : S = Supply(blocks, avail, insertBlock)
  OBVIOUS
<1>2. /\ Doing(op, kinds) /\ Emit(is) /\ Continue(<< >>)
      /\ ast' = ast /\ insertBlock' = insertBlock /\ ir_value' = ir_value
  BY Zenon DEF FinishReturn
<1>3. /\ stack # << >> /\ Top.op = "finish" /\ n \in DOMAIN ast /\ ast[n].kind = "Return"
      /\ IsTree(ast) /\ IsProgram(ast)
  <2>1. stack # << >> /\ Top.op = "finish" /\ ast[n].kind = "Return"
    BY <1>2 DEF Doing
  <2>2. QED
    BY <2>1, TopParts
<1>4. Here.in # nullptr
  <2>1. kinds \cap {"Program", "Function", "Variable", "Array"} = {} /\ op \in {"visit", "finish", "branch"}
    OBVIOUS
  <2>2. EnclosingFunction(ast, n) # nullptr /\ Here = Context(TRUE, EnclosingFunction(ast, n))
    BY <1>2, <2>1, TopInside
  <2>3. QED
    BY <2>2 DEF Context
<1>5. ast[n].kids # << >> => x.needs \subseteq S
  <2>1. ASSUME ast[n].kids # << >> PROVE 1 \in 1 .. Len(ast[n].kids)
    <3>1. ast[n].kids \in Seq(Nat \ {0})
      BY <1>3, NodeShape
    <3>2. QED
      BY <2>1, <3>1, EmptySeq
  <2>2. ASSUME 1 \in 1 .. Len(ast[n].kids) PROVE x.needs \subseteq S
    <3>1. Kid(ast, n, 1) \in Uses(ast, Top)
      BY <1>3, <2>2 DEF Uses
    <3>2. QED
      BY <1>1, <1>3, <3>1, OperandThere
  <2>3. QED
    BY <2>1, <2>2
<1>6. i.op = "ret" /\ i.targets = << >> /\ \A y \in Range(i.args) : y.needs \subseteq S
  <2>1. CASE ast[n].kids = << >>
    <3>1. i.op = "ret" /\ i.targets = << >> /\ i.args = << >>
      BY <2>1, InstructionParts DEF RetVoid
    <3>2. QED
      BY <3>1, FewArguments
  <2>2. CASE ast[n].kids # << >>
    <3>1. i.op = "ret" /\ i.targets = << >> /\ i.args = << x >>
      BY <2>2, InstructionParts DEF Ret
    <3>2. Range(<< x >>) = {x}
      BY FewArguments, Zenon
    <3>3. QED
      BY <1>5, <2>2, <3>1, <3>2
  <2>3. QED
    BY <2>1, <2>2
<1>7. IsSequence(is) /\ Fits(is, S) /\ TargetsOf(is) = {}
  <2>1. Single(is, i) /\ i.op \notin {"br", "condbr"}
    BY <1>6 DEF Single
  <2>2. QED
    BY <1>6, <2>1, SingleFits
<1>8. insertBlock \in 1 .. Len(blocks)
  BY <1>4, BlockHere
<1>9. Level(ast, n, Top)
  BY <1>3, LevelTask DEF LevelKinds
<1>10. Sees(ast, Top) \subseteq DOMAIN ir_value
  BY <1>1, <1>3, DeclaredThere
<1>11. Declares(ast, Top) = {} /\ Needs(ast, {}) = {} /\ ~ Evaluates(ast, Top)
  BY <1>3, <1>9 DEF Level, Needs, Evaluates, ExpressionKinds, LiteralKinds
<1>12. EndFits(avail, is)
  BY <1>2, <1>3, <1>7, <1>8, <1>10, <1>11 DEF EndFits
<1>13. QED
  BY <1>1, <1>12, EndComputes

LEMMA FunctionEndComputes ==
  ASSUME IInv, OInv, FinishFunction
  PROVE  OInv'
<1> PICK f : f = Top.node
  OBVIOUS
<1> PICK i : i = RetVoid(f)
  OBVIOUS
<1> PICK is : is = IF always_returns[Body(ast, f)] THEN << >> ELSE << i >>
  OBVIOUS
<1>1. PICK avail : Computes(avail)
  BY DEF OInv
<1> PICK S : S = Supply(blocks, avail, insertBlock)
  OBVIOUS
<1>2. /\ Doing("finish", {"Function"}) /\ Emit(is) /\ Continue(<< >>)
      /\ ast' = ast /\ insertBlock' = insertBlock /\ ir_value' = ir_value
  BY Zenon DEF FinishFunction
<1>3. stack # << >> /\ Top.op = "finish" /\ ast[f].kind = "Function"
  BY <1>2 DEF Doing
<1>4. f \in DOMAIN ast /\ IsTree(ast) /\ Top \in Work(ast) /\ Here = Begins(ast)[Top]
  BY <1>3, TopParts
<1>5. insertBlock \in 1 .. Len(blocks)
  <2>1. Here = Context(Falls(ast, Body(ast, f)), f)
    BY <1>3, <1>4 DEF Begins
  <2>2. f # nullptr
    <3>1. f \in Nat \ {0}
      BY <1>4, NodeShape
    <3>2. QED
      BY <3>1 DEF nullptr
  <2>3. QED
    BY <2>1, <2>2, BlockHere DEF Context
<1>6. i.op = "ret" /\ i.targets = << >> /\ \A y \in Range(i.args) : FALSE
  <2>1. i.op = "ret" /\ i.targets = << >> /\ i.args = << >>
    BY InstructionParts DEF RetVoid
  <2>2. QED
    BY <2>1, FewArguments
<1>7. IsSequence(is) /\ Fits(is, S) /\ TargetsOf(is) = {}
  <2>1. Single(is, i) /\ i.op \notin {"br", "condbr"}
    BY <1>6 DEF Single
  <2>2. QED
    BY <1>6, <2>1, SingleFits
<1>8. Sees(ast, Top) \subseteq DOMAIN ir_value
  BY <1>1, <1>3, DeclaredThere
<1>9. Declares(ast, Top) = {} /\ Needs(ast, {}) = {} /\ ~ Evaluates(ast, Top)
  BY <1>3 DEF Declares, Needs, Evaluates, ExpressionKinds, LiteralKinds
<1>10. EndFits(avail, is)
  BY <1>2, <1>3, <1>5, <1>7, <1>8, <1>9 DEF EndFits
<1>11. QED
  BY <1>1, <1>10, EndComputes

LEMMA VariableComputes ==
  ASSUME IInv, OInv, VisitVariable
  PROVE  OInv'
<1> PICK n : n = Top.node
  OBVIOUS
<1> PICK i : i = Alloca(n)
  OBVIOUS
<1>1. PICK avail : Computes(avail)
  BY DEF OInv
<1> PICK S : S = Supply(blocks, avail, insertBlock)
  OBVIOUS
<1>2. /\ Doing("visit", {"Variable", "Array"})
      /\ \/ nest_level[n] = 0 /\ Generates(n, << >>, Value("global", n, {}))
         \/ nest_level[n] # 0 /\ Generates(n, << i >>, Result(i))
  BY Zenon DEF VisitVariable, Visiting
<1>3. stack # << >> /\ Top.op = "visit" /\ ast[n].kind \in {"Variable", "Array"}
  BY <1>2 DEF Doing
<1>4. /\ n \in DOMAIN ast /\ IsTree(ast) /\ IsProgram(ast) /\ Top \in Work(ast) /\ Here = Begins(ast)[Top]
      /\ ast[1].kind = "Program" /\ n \in Nat \ {0}
  BY <1>3, TopParts, NodeShape DEF IsProgram
<1>5. n # 1 /\ n \in DeclsOf(ast) /\ n \notin Homes(ast) /\ n \notin BuiltinDecls
  <2>1. n \notin BuiltinDecls
    BY <1>4 DEF BuiltinDecls
  <2>2. n # 1 /\ n \in DeclsOf(ast) /\ n \notin FunctionsOf(ast)
    BY <1>3, <1>4 DEF DeclsOf, DeclKinds, FunctionsOf, NodesOf
  <2>3. QED
    BY <2>1, <2>2 DEF Homes
<1>6. nest_level[n] = Depth(ast, n)
  BY <1>5 DEF IInv, Passed
<1>7. i.op = "alloca" /\ i.at = n /\ i.targets = << >> /\ i.args = << >> /\ Result(i).needs = {Effect("alloca", n)}
  BY DEF Alloca, Instruction, Result, Value
<1>8. PICK is, value :
        /\ Generates(n, is, value) /\ Single(is, i)
        /\ \/ is = << >> /\ Need(ast, n) = {} /\ value.needs = {}
           \/ is = << i >> /\ Need(ast, n) = {Effect("alloca", n)} /\ value.needs = {Effect("alloca", n)}
              /\ Depth(ast, n) # 0
  <2>1. CASE nest_level[n] = 0 /\ Generates(n, << >>, Value("global", n, {}))
    <3>1. Need(ast, n) = {} /\ Value("global", n, {}).needs = {}
      BY <1>6, <2>1, ValueParts DEF Need
    <3>2. Single(<< >>, i)
      BY DEF Single
    <3>3. QED
      BY <2>1, <3>1, <3>2
  <2>2. CASE nest_level[n] # 0 /\ Generates(n, << i >>, Result(i))
    <3>1. Need(ast, n) = {Effect("alloca", n)}
      BY <1>5, <1>6, <2>2 DEF Need
    <3>2. Single(<< i >>, i)
      BY DEF Single
    <3>3. QED
      BY <1>6, <1>7, <2>2, <3>1, <3>2
  <2>3. QED
    BY <1>2, <2>1, <2>2
<1> PICK v2 : v2 = Assigned(ir_value, n, value)
  OBVIOUS
<1>9. Emit(is) /\ ir_value' = v2 /\ Continue(<< >>) /\ UNCHANGED << ast, insertBlock >>
  BY <1>8 DEF Generates, SetValue
<1>10. /\ IsSequence(is) /\ Fits(is, S) /\ TargetsOf(is) = {}
       /\ is = << i >> => Past(is, Len(is)) = {Effect("alloca", n)}
  <2>1. i.op \notin {"br", "condbr"} /\ \A y \in Range(i.args) : FALSE
    BY <1>7, FewArguments
  <2>2. QED
    BY <1>7, <1>8, <2>1, SingleFits
<1>11. insertBlock \in 1 .. Len(blocks) \/ is = << >>
  <2>1. ASSUME Depth(ast, n) # 0 PROVE insertBlock \in 1 .. Len(blocks)
    <3>1. ~ IsTopLevel(ast, n)
      BY <1>4, <1>5, <2>1, TopLevelDepth DEF IsTopLevel
    <3>2. Top \in PlainTasks(ast)
      BY <1>3, <1>4 DEF Work, IfFrames, WhileFrames
    <3>3. EnclosingFunction(ast, n) # nullptr
      BY <1>3, <3>1, <3>2 DEF PlainTasks
    <3>4. Here = Context(EnclosingFunction(ast, n) # nullptr, EnclosingFunction(ast, n))
      BY <1>3, <1>4 DEF Begins
    <3>5. QED
      BY <3>3, <3>4, BlockHere DEF Context
  <2>2. QED
    BY <1>8, <2>1
<1>12. /\ DOMAIN v2 = {n} \cup DOMAIN ir_value /\ v2[n] = value
       /\ \A m \in DOMAIN ir_value : m # n => v2[m] = ir_value[m]
  BY DEF Assigned
<1>13. Sees(ast, Top) \subseteq DOMAIN ir_value
  BY <1>1, <1>3, DeclaredThere
<1>14. Declares(ast, Top) = {n} /\ ~ Evaluates(ast, Top)
  BY <1>3, <1>5 DEF Declares, Evaluates, ExpressionKinds, LiteralKinds
<1>15. Needs(ast, {n}) \subseteq S \cup Past(is, Len(is))
  <2>1. Needs(ast, {n}) = Need(ast, n)
    BY DEF Needs
  <2>2. QED
    BY <1>8, <1>10, <2>1
<1>16. \A d \in DOMAIN v2 :
         \/ d \in DOMAIN ir_value /\ v2[d] = ir_value[d]
         \/ d \notin Homes(ast) /\ (d \in DeclsOf(ast) => v2[d].needs \subseteq Need(ast, d))
  BY <1>5, <1>8, <1>12
<1>17. EndFits(avail, is)
  BY <1>3, <1>9, <1>10, <1>11, <1>12, <1>13, <1>14, <1>15, <1>16 DEF EndFits
<1>18. QED
  BY <1>1, <1>17, EndComputes

(***************************************************************************)
(* If and while: the steps that place a block.                             *)
(***************************************************************************)
\* A branch reads its condition only.
LEMMA BranchFits ==
  ASSUME IInv, stack # << >>, NEW avail, Computes(avail), NEW tasks, NEW is, Branching(tasks, is)
  PROVE  IsSequence(is) /\ Fits(is, Supply(blocks, avail, insertBlock))
<1> PICK n : n = Top.node
  OBVIOUS
<1> PICK S : S = Supply(blocks, avail, insertBlock)
  OBVIOUS
<1>1. CASE is = << >>
  BY <1>1, FitsNothing
<1>2. ASSUME NEW i, is = << i >>, \A x \in Range(i.args) : x.needs \subseteq S,
             i.op = "br" => i.targets[1] \in Range(i.targets),
             i.op = "condbr" => /\ i.targets[1] \in Range(i.targets)
                                /\ i.targets[2] \in Range(i.targets)
      PROVE  IsSequence(is) /\ Fits(is, S)
  <2>1. IsSequence(is) /\ Len(is) = 1 /\ is[1] = i
    BY <1>2, ShortSequences
  <2>2. \A j : j \in 1 .. 1 <=> j = 1
    OBVIOUS
  <2>3. QED
    BY <1>2, <2>1, <2>2 DEF Fits
<1>3. ASSUME NEW b, is = << Br(n, b) >> PROVE IsSequence(is) /\ Fits(is, S)
  <2>1. PICK i : i = Br(n, b)
    OBVIOUS
  <2>2. i.op = "br" /\ i.args = << >> /\ i.targets = << b >>
    BY <2>1 DEF Br, Instruction
  <2>3. Range(i.args) = {} /\ i.targets[1] \in Range(i.targets)
    BY <2>2 DEF Range
  <2>4. QED
    BY <1>2, <1>3, <2>1, <2>2, <2>3
<1>4. ASSUME NEW b, NEW c, is = << CondBr(n, ValueOf(Kid(ast, n, 1)), b, c) >>,
             Top.op \in {"branch", "loop"}
      PROVE  IsSequence(is) /\ Fits(is, S)
  <2>v. PICK v : v = ValueOf(Kid(ast, n, 1))
    OBVIOUS
  <2>1. PICK i : i = CondBr(n, v, b, c)
    OBVIOUS
  <2>2. i.op = "condbr" /\ i.args = << v >> /\ i.targets = << b, c >>
    BY <2>1 DEF CondBr, Instruction
  <2>3. Range(i.args) = {v} /\ i.targets[1] \in Range(i.targets) /\ i.targets[2] \in Range(i.targets)
    BY <2>2 DEF Range
  <2>4. Kid(ast, n, 1) \in Uses(ast, Top)
    BY <1>4 DEF Uses
  <2>5. v.needs \subseteq S
    BY <2>4, <2>v, OperandThere
  <2>6. QED
    BY <1>2, <1>4, <2>1, <2>2, <2>3, <2>5, <2>v
<1>5. QED
  BY <1>1, <1>3, <1>4 DEF Branching

\* The frame that is left reads the condition that is visited above it.
LEMMA BranchTasks ==
  ASSUME IsProgram(ast), Top.node \in DOMAIN ast, NEW tasks, NEW is, Branching(tasks, is),
         NEW f, f # nullptr, NEW left, NEW new, Handed(tasks, is, f, left, new)
  PROVE  /\ IsSequence(tasks)
         /\ \A a \in 1 .. Len(tasks) :
              /\ Level(ast, Top.node, tasks[a])
              /\ \A b \in Awaits(ast)[tasks[a]] \cup ComesBack(ast)[tasks[a]] :
                   b \in left \cup new \cup ComesBack(ast)[Top] /\ tasks[a].node = Top.node
         /\ \A F, G : UsesFit(ast, Top, tasks, F, G)
<1> PICK n : n = Top.node
  OBVIOUS
<1>1. ast[n].kind \in {"If", "While"} /\ ast[n].kind \in LevelKinds /\ ~ Evaluates(ast, Top)
  BY DEF Branching, LevelKinds, Evaluates, ExpressionKinds, LiteralKinds
<1>2. CASE tasks = << >>
  <2>1. IsSequence(tasks) /\ Len(tasks) = 0 /\ (\A a : a \notin 1 .. 0)
    BY <1>2, ShortSequences
  <2>2. QED
    BY <1>1, <2>1 DEF UsesFit
<1>3. ASSUME NEW i \in 1 .. Len(ast[n].kids), NEW last,
             tasks = << Visit(Kid(ast, n, i)), last >>,
             last.node = n, last.op \in {"else", "merge", "loop", "post"},
             last.op = "loop" => i = 1 /\ ast[n].kind = "While"
      PROVE  /\ IsSequence(tasks)
             /\ \A a \in 1 .. Len(tasks) :
                  /\ Level(ast, Top.node, tasks[a])
                  /\ \A b \in Awaits(ast)[tasks[a]] \cup ComesBack(ast)[tasks[a]] :
                       b \in left \cup new \cup ComesBack(ast)[Top] /\ tasks[a].node = Top.node
             /\ \A F, G : UsesFit(ast, Top, tasks, F, G)
  <2>k. PICK k : k = Visit(Kid(ast, n, i))
    OBVIOUS
  <2>1. IsSequence(tasks) /\ Len(tasks) = 2 /\ tasks[1] = k /\ tasks[2] = last /\ tasks # << >>
    <3>1. tasks = << k, last >>
      BY <1>3, <2>k
    <3>2. tasks \in Seq({k, last})
      BY <3>1
    <3>3. IsSequence(tasks)
      BY <3>2, SequenceOf
    <3>4. QED
      BY <3>1, <3>3
  <2>2. /\ \A a : a \in 1 .. 2 <=> a = 1 \/ a = 2
        /\ \A b : b \in 1 .. 2 - 1 <=> b = 1
        /\ \A b : b \notin 1 .. 1 - 1
    OBVIOUS
  <2>3. Level(ast, n, k) /\ Uses(ast, k) = {}
    BY <1>1, <1>3, <2>k, LevelKid
  <2>4. Level(ast, n, last)
    BY <1>1, <1>3, LevelTask
  <2>5. PICK m, x : /\ tasks = << Visit(m), x >> /\ Straight(ast, f, Visit(m))
                    /\ Awaits(ast)[x] = left
                    /\ ComesBack(ast)[x] \subseteq ComesBack(ast)[Top] \cup new
    BY <2>1 DEF Handed
  <2>6. k = Visit(m) /\ last = x
    BY <2>1, <2>5
  <2>7. Awaits(ast)[k] = {} /\ ComesBack(ast)[k] = {}
    <3>1. Straight(ast, f, k)
      BY <2>5, <2>6
    <3>2. QED
      BY <3>1, StraightParts DEF Idle
  <2>8. /\ Awaits(ast)[last] = left
        /\ ComesBack(ast)[last] \subseteq ComesBack(ast)[Top] \cup new
    BY <2>5, <2>6
  <2>9. ASSUME NEW z \in Uses(ast, last) PROVE z \in Gives(ast, k) /\ Evaluates(ast, k)
    <3>1. last.op = "loop" /\ z = Kid(ast, n, 1)
      BY <1>3, <2>9 DEF Uses
    <3>2. i = 1 /\ ast[n].kind = "While"
      BY <1>3, <3>1
    <3>3. ast[Kid(ast, n, 1)].kind \in ExpressionKinds
      BY <1>3, <3>2, NodeShape DEF KidsFit, IsProgram
    <3>4. Evaluates(ast, k) /\ k.node = z
      BY <3>1, <3>2, <3>3, <2>k DEF Evaluates, Visit
    <3>5. QED
      BY <3>4 DEF Gives
  <2>10. ASSUME NEW F, NEW G PROVE UsesFit(ast, Top, tasks, F, G)
    <3>1. ASSUME NEW a \in 1 .. 2, NEW z \in Uses(ast, tasks[a])
          PROVE  /\ \E b \in 1 .. a - 1 : z \in Gives(ast, tasks[b])
                 /\ \A b \in 1 .. a - 1 : Evaluates(ast, tasks[b])
      <4>1. a = 2
        BY <2>1, <2>2, <2>3, <3>1
      <4>2. z \in Gives(ast, tasks[1]) /\ Evaluates(ast, tasks[1])
        BY <2>1, <2>9, <3>1, <4>1
      <4>3. QED
        BY <2>2, <4>1, <4>2
    <3>2. QED
      BY <1>1, <2>1, <3>1 DEF UsesFit
  <2>11. \A a \in 1 .. Len(tasks) : Level(ast, Top.node, tasks[a])
    BY <2>1, <2>2, <2>3, <2>4
  <2>12. \A a \in 1 .. Len(tasks) : \A b \in Awaits(ast)[tasks[a]] \cup ComesBack(ast)[tasks[a]] :
           b \in left \cup new \cup ComesBack(ast)[Top] /\ tasks[a].node = Top.node
    BY <1>3, <2>1, <2>2, <2>7, <2>8
  <2>13. QED
    BY <2>1, <2>10, <2>11, <2>12
<1>4. QED
  BY <1>2, <1>3 DEF Branching

LEMMA PlacingComputes ==
  ASSUME IInv, OInv, Placing
  PROVE  OInv'
<1>1. PICK avail : Computes(avail)
  BY DEF OInv
<1>2. PICK tasks, is, p, fresh : PlacingStep(tasks, is, p, fresh) /\ Branching(tasks, is)
  BY DEF Placing
<1> PICK n : n = Top.node
  OBVIOUS
<1>f. PICK f : f = Here.in
  OBVIOUS
<1>new. PICK new : new = Len(blocks) + 1 .. Len(blocks) + fresh
  OBVIOUS
<1>held. PICK held : held = Awaits(ast)[Top] \cup new
  OBVIOUS
<1>left. PICK left : left = held \ {p}
  OBVIOUS
<1>placed. PICK placed : placed = {p}
  OBVIOUS
<1>S. PICK S : S = Supply(blocks, avail, insertBlock)
  OBVIOUS
<1>S2. PICK S2 : S2 = S \cup Past(is, Len(is))
  OBVIOUS
<1>D. PICK D : D = Visible(ast, n)
  OBVIOUS
<1>3. /\ stack # << >> /\ Continue(tasks) /\ UNCHANGED << ast, fields, ir_value >>
      /\ fresh \in Nat /\ f # nullptr
      /\ Shape(blocks, blocks', insertBlock, is, placed, f, fresh)
      /\ insertBlock' = p
      /\ TargetsOf(is) \subseteq held \cup ComesBack(ast)[Top]
      /\ p \in held
      /\ Handed(tasks, is, f, left, new)
  BY <1>2, <1>f, <1>new, <1>held, <1>left, <1>placed DEF PlacingStep
<1>4. IsProgram(ast) /\ n \in DOMAIN ast
  BY <1>3, TopParts
<1>5. /\ insertBlock \in 1 .. Len(blocks) /\ insertBlock \notin Pending(stack, Awaits(ast))
      /\ blocks[insertBlock].function = f
  BY <1>3, <1>f, BlockHere
<1>6. IsSequence(is) /\ Fits(is, S)
  BY <1>1, <1>2, <1>3, <1>S, BranchFits
<1>7. /\ IsSequence(tasks)
      /\ \A a \in 1 .. Len(tasks) :
           /\ Level(ast, n, tasks[a])
           /\ \A b \in Awaits(ast)[tasks[a]] \cup ComesBack(ast)[tasks[a]] :
                b \in left \cup new \cup ComesBack(ast)[Top] /\ tasks[a].node = Top.node
      /\ \A F, G : UsesFit(ast, Top, tasks, F, G)
  BY <1>2, <1>3, <1>4, BranchTasks
<1>8. ast[n].kind \in LevelKinds /\ ~ Evaluates(ast, Top)
      /\ (Awaits(ast)[Top] = {} \/ Top.func = f)
  BY <1>2, <1>f DEF Branching, LevelKinds, Evaluates, ExpressionKinds, LiteralKinds
<1>9. SeesFit(ast, Top, tasks, D) /\ Sees(ast, Top) = D
  <2>1. Level(ast, n, Top)
    BY <1>4, <1>8, LevelTask
  <2>2. QED
    BY <1>7, <1>D, <2>1, LevelFits
<1>10. D \subseteq DOMAIN ir_value'
  BY <1>1, <1>3, <1>9, DeclaredThere
<1>11. UsesFit(ast, Top, tasks, Fine(ir_value, S), Fine(ir_value', S2))
  BY <1>7
<1>12. placed \subseteq held /\ (placed \cap Awaits(ast)[Top] # {} => f = Top.func)
  BY <1>3, <1>8, <1>placed
<1>13. \A a \in 1 .. Len(tasks) : \A b \in Awaits(ast)[tasks[a]] \cup ComesBack(ast)[tasks[a]] :
         b \in held \cup ComesBack(ast)[Top] /\ tasks[a].node = Top.node
  BY <1>7, <1>left, <1>held
<1>14. \A d \in DOMAIN ir_value' : d \in DOMAIN ir_value /\ ir_value'[d] = ir_value[d]
  BY <1>3
<1>15. insertBlock' \in held /\ ast' = ast
  BY <1>3
<1>16. StepFits(avail, tasks, is, placed, f, fresh, D)
  BY <1>3, <1>5, <1>6, <1>7, <1>8, <1>9, <1>10, <1>11, <1>12, <1>13, <1>14, <1>15,
     <1>new, <1>held, <1>S, <1>S2, <1>D DEF StepFits
<1>17. QED
  BY <1>1, <1>16, StepComputes

LEMMA CeasingComputes ==
  ASSUME IInv, OInv, stack # << >>, Ceasing
  PROVE  OInv'
<1>1. PICK avail : Computes(avail)
  BY DEF OInv
<1>is. PICK is : is = << >>
  OBVIOUS
<1>S. PICK S : S = Supply(blocks, avail, insertBlock)
  OBVIOUS
<1>2. Continue(<< >>) /\ UNCHANGED << ast, insertBlock >> /\ Emit(is) /\ ir_value' = ir_value
  BY <1>is DEF Ceasing, Emit
<1>3. IsSequence(is) /\ Fits(is, S) /\ TargetsOf(is) = {}
  BY <1>is, FitsNothing
<1>4. IsProgram(ast) /\ Top.node \in DOMAIN ast
  BY TopParts
<1>5. ast[Top.node].kind \in LevelKinds /\ ~ Evaluates(ast, Top)
  BY DEF Ceasing, LevelKinds, Evaluates, ExpressionKinds, LiteralKinds
<1>6. Declares(ast, Top) = {}
  BY <1>4, <1>5, LevelTask DEF Level
<1>7. Sees(ast, Top) \subseteq DOMAIN ir_value
  BY <1>1, DeclaredThere
<1>8. Needs(ast, Declares(ast, Top)) = {}
  BY <1>6 DEF Needs
<1>9. EndFits(avail, is)
  BY <1>2, <1>3, <1>5, <1>6, <1>7, <1>8, <1>is, <1>S DEF EndFits
<1>10. QED
  BY <1>1, <1>9, EndComputes

(***************************************************************************)
(* Functions: the preamble stores every parameter in a place of its own,   *)
(* and the body relies on these places.                                    *)
(***************************************************************************)
\* A parameter is in the scope of its function.
LEMMA ParameterPlace ==
  ASSUME NEW t, IsProgram(t), NEW f \in FunctionsOf(t), NEW p \in Range(Parameters(t, f))
  PROVE  Need(t, p) = {Effect("alloca", p)} /\ p \in DeclsOf(t) /\ p \notin Homes(t)
<1>1. /\ IsTree(t) /\ f \in DOMAIN t /\ t[f].kind = "Function" /\ f # 1 /\ t[1].kind = "Program"
      /\ 1 \in DOMAIN t /\ Len(t) \in Nat
  BY FunctionNeedsNothing DEF IsProgram, IsTree, FunctionsOf, NodesOf
<1>2. PICK i \in 1 .. Len(t[f].kids) : p = Kid(t, f, i) /\ t[p].kind = "Parameter"
  <2>1. /\ Len(t[f].kids) \in Nat \ {0}
        /\ Len(Parameters(t, f)) = Len(t[f].kids) - 1 /\ Parameters(t, f) \in Seq(DeclsOf(t))
        /\ \A i \in 1 .. Len(t[f].kids) - 1 :
             /\ Parameters(t, f)[i] = Kid(t, f, i) /\ i \in 1 .. Len(t[f].kids)
             /\ t[Kid(t, f, i)].kind = "Parameter"
    BY <1>1, FunctionParts
  <2>2. PICK i \in DOMAIN Parameters(t, f) : p = Parameters(t, f)[i]
    BY DEF Range
  <2>3. DOMAIN Parameters(t, f) = 1 .. Len(t[f].kids) - 1
    BY <2>1
  <2>4. QED
    BY <2>1, <2>2, <2>3
<1>3. p \in DOMAIN t /\ p \in Nat \ {0} /\ f \in Nat \ {0} /\ f < p /\ p <= Len(t)
      /\ DOMAIN t = 1 .. Len(t)
  BY <1>1, <1>2, NodeShape, KidsInside DEF IsTree
<1>4. Within(t, p, f) /\ Within(t, p, 1)
  <2>1. Within(t, f, f) /\ Within(t, f, 1)
    BY <1>1, <1>3, NodeShape DEF Within, IsTree
  <2>2. QED
    BY <1>1, <1>2, <2>1, AroundKid
<1>5. {1, f} \subseteq ScopesAround(t, p)
  <2>1. 1 \in 1 .. p - 1 /\ f \in 1 .. p - 1
    BY <1>3
  <2>2. QED
    BY <1>1, <1>4, <2>1 DEF ScopesAround, OpensScope
<1>6. Depth(t, p) # 0
  <2>1. ScopesAround(t, p) \subseteq 1 .. p - 1
    BY DEF ScopesAround
  <2>2. IsFiniteSet(1 .. p - 1)
    BY <1>3, FS_Interval
  <2>3. IsFiniteSet(ScopesAround(t, p))
    BY <2>1, <2>2, FS_Subset
  <2>4. Cardinality({1, f}) <= Cardinality(ScopesAround(t, p))
    BY <1>5, <2>3, FS_Subset
  <2>5. Cardinality({1, f}) = 2
    <3>1. Cardinality({1}) = 1 /\ IsFiniteSet({1})
      BY FS_Singleton
    <3>2. Cardinality({1} \cup {f}) = Cardinality({1}) + 1
      BY <1>1, <3>1, FS_AddElement
    <3>3. {1, f} = {1} \cup {f}
      OBVIOUS
    <3>4. Cardinality({1, f}) = Cardinality({1} \cup {f})
      BY ONLY <3>3, Zenon
    <3>5. Cardinality({1}) + 1 = 2
      BY ONLY <3>1
    <3>6. QED
      BY ONLY <3>2, <3>4, <3>5, Zenon
  <2>6. Cardinality(ScopesAround(t, p)) \in Nat
    BY <2>3, FS_CardinalityType
  <2>7. QED
    BY <2>4, <2>5, <2>6 DEF Depth
<1>7. p \notin BuiltinDecls
  BY <1>3 DEF BuiltinDecls
<1>8. p \in DeclsOf(t) /\ p \notin FunctionsOf(t)
  BY <1>2, <1>3 DEF DeclsOf, DeclKinds, FunctionsOf, NodesOf
<1>9. QED
  BY <1>6, <1>7, <1>8 DEF Need, Homes

LEMMA HalfWayBack ==
  ASSUME NEW n \in Nat, NEW k \in 1 .. 2 * n, k % 2 # 1
  PROVE  k - 1 \in 1 .. 2 * n /\ (k - 1) % 2 = 1 /\ ((k - 1) + 1) \div 2 = (k + 1) \div 2
OBVIOUS

LEMMA HalfWayThere ==
  ASSUME NEW n \in Nat, NEW i \in 1 .. n
  PROVE  2 * i - 1 \in 1 .. 2 * n /\ (2 * i - 1) % 2 = 1 /\ ((2 * i - 1) + 1) \div 2 = i
OBVIOUS

LEMMA StoringFits ==
  ASSUME NEW params, params \in Seq(Range(params)), NEW code, code = Storing(params)
  PROVE  /\ IsSequence(code) /\ Fits(code, {})
         /\ {Effect("alloca", p) : p \in Range(params)} \subseteq Past(code, Len(code))
<1> PICK n : n = Len(params)
  OBVIOUS
<1>m. PICK m : m = 2 * n
  OBVIOUS
<1>1. n \in Nat /\ m \in Nat /\ DOMAIN params = 1 .. n
  BY <1>m
<1>2. \A k \in 1 .. m :
        code[k] = IF k % 2 = 1 THEN Alloca(params[(k + 1) \div 2])
                  ELSE Store(params[(k + 1) \div 2], Value("argument", params[(k + 1) \div 2], {}),
                             Result(Alloca(params[(k + 1) \div 2])))
  BY <1>m, Zenon DEF Storing
<1>3. code = [k \in 1 .. m |-> code[k]]
  BY <1>m DEF Storing
<1>4. IsSequence(code) /\ Len(code) = m
  BY <1>1, <1>3, SequenceMade
<1>5. ASSUME NEW k \in 1 .. m, k % 2 = 1
      PROVE  /\ code[k].op = "alloca" /\ code[k].at = params[(k + 1) \div 2] /\ code[k].args = << >>
  <2>1. code[k] = Instruction("alloca", params[(k + 1) \div 2], << >>, << >>)
    BY <1>2, <1>5, Zenon DEF Alloca
  <2>2. QED
    BY <2>1, InstructionParts
<1>6. ASSUME NEW k \in 1 .. m, k % 2 # 1
      PROVE  /\ code[k].op = "store"
             /\ \A x \in Range(code[k].args) : x.needs \subseteq {Effect("alloca", params[(k + 1) \div 2])}
  <2> PICK p : p = params[(k + 1) \div 2]
    OBVIOUS
  <2> PICK v : v = Value("argument", p, {})
    OBVIOUS
  <2> PICK i : i = Alloca(p)
    OBVIOUS
  <2> PICK r : r = Result(i)
    OBVIOUS
  <2>1. code[k] = Instruction("store", p, << v, r >>, << >>)
    BY <1>2, <1>6, Zenon DEF Store
  <2>2. code[k].op = "store" /\ code[k].args = << v, r >>
    BY <2>1, InstructionParts
  <2>3. v.needs = {} /\ r.needs = {Effect("alloca", p)}
    <3>1. v.needs = {}
      BY ValueParts
    <3>2. i = Instruction("alloca", p, << >>, << >>)
      BY DEF Alloca
    <3>3. r.needs = {Effect("alloca", p)}
      BY <3>2, InstructionParts
    <3>4. QED
      BY <3>1, <3>3
  <2>4. Range(code[k].args) = {v, r}
    <3>1. Range(<< v, r >>) = {v, r}
      BY ONLY FewArguments
    <3>2. code[k].args = << v, r >>
      BY ONLY <2>2
    <3>3. QED
      BY ONLY <3>1, <3>2, Zenon
  <2>5. QED
    BY <2>2, <2>3, <2>4
<1>7. Fits(code, {})
  <2>1. ASSUME NEW k \in 1 .. m, NEW x \in Range(code[k].args)
        PROVE  x.needs \subseteq Past(code, k - 1)
    <3>1. CASE k % 2 = 1
      <4>1. Range(code[k].args) = {}
        BY <1>5, <3>1, FewArguments
      <4>2. QED
        BY <2>1, <4>1
    <3>2. CASE k % 2 # 1
      <4>1. k - 1 \in 1 .. m /\ (k - 1) % 2 = 1 /\ ((k - 1) + 1) \div 2 = (k + 1) \div 2
        BY <1>1, <1>m, <3>2, HalfWayBack
      <4>2. code[k - 1].op = "alloca" /\ code[k - 1].at = params[(k + 1) \div 2]
        BY <1>5, <4>1
      <4>3. k - 1 \in 1 .. k - 1
        BY <4>1
      <4>4. Effect("alloca", params[(k + 1) \div 2]) \in Past(code, k - 1)
        BY <4>2, <4>3 DEF Past
      <4>5. QED
        BY <1>6, <2>1, <3>2, <4>4
    <3>3. QED
      BY <3>1, <3>2
  <2>2. \A k \in 1 .. m : code[k].op # "br" /\ code[k].op # "condbr"
    BY <1>5, <1>6
  <2>3. QED
    BY <1>4, <2>1, <2>2 DEF Fits
<1>8. ASSUME NEW p \in Range(params) PROVE Effect("alloca", p) \in Past(code, m)
  <2>1. PICK i \in 1 .. n : p = params[i]
    BY <1>1 DEF Range
  <2>2. PICK k : k = 2 * i - 1
    OBVIOUS
  <2>3. k \in 1 .. m /\ k % 2 = 1 /\ (k + 1) \div 2 = i
    BY <1>1, <1>m, <2>1, <2>2, HalfWayThere
  <2>4. code[k].op = "alloca" /\ code[k].at = p
    BY <1>5, <2>1, <2>3
  <2>5. QED
    BY <2>3, <2>4 DEF Past
<1>9. QED
  BY <1>4, <1>7, <1>8

LEMMA PreambleFits ==
  ASSUME NEW params, params \in Seq(Range(params)), NEW f, NEW b, NEW code,
         code = PreambleOf(params, f, b)
  PROVE  /\ IsSequence(code) /\ Fits(code, {})
         /\ {Effect("alloca", p) : p \in Range(params)} \subseteq Past(code, Len(code))
<1>1. PICK first : first = Storing(params)
  OBVIOUS
<1>i. PICK i : i = Br(f, b)
  OBVIOUS
<1>2. PICK last : last = << i >>
  OBVIOUS
<1>3. /\ IsSequence(first) /\ Fits(first, {})
      /\ {Effect("alloca", p) : p \in Range(params)} \subseteq Past(first, Len(first))
  BY <1>1, StoringFits
<1>4. IsSequence(last) /\ Fits(last, {} \cup Past(first, Len(first)))
  <2>1. IsSequence(last) /\ Len(last) = 1 /\ last[1] = i
    BY <1>2, ShortSequences
  <2>2. \A j : j \in 1 .. 1 <=> j = 1
    OBVIOUS
  <2>3. i.op = "br" /\ i.args = << >> /\ i.targets = << b >>
    BY <1>i, InstructionParts DEF Br
  <2>4. Range(i.args) = {} /\ i.targets[1] \in Range(i.targets)
    BY <2>3 DEF Range
  <2>5. QED
    BY <2>1, <2>2, <2>3, <2>4 DEF Fits
<1>5. code = first \o last
  <2>S. PICK S : S = {first[k] : k \in DOMAIN first}
    OBVIOUS
  <2>1. first \in Seq(S)
    BY <1>3, <2>S DEF IsSequence
  <2>2. first \in Seq(S \cup {i}) /\ i \in S \cup {i}
    BY <2>1
  <2>T. PICK T : T = S \cup {i}
    OBVIOUS
  <2>3. Append(first, i) = first \o << i >>
    BY <2>2, <2>T, AppendIsConcat
  <2>4. QED
    BY <1>1, <1>2, <1>i, <2>3 DEF PreambleOf
<1>6. /\ Fits(first \o last, {})
      /\ Past(first \o last, Len(first \o last)) = Past(first, Len(first)) \cup Past(last, Len(last))
  BY <1>3, <1>4, FitsJoined
<1>7. IsSequence(first \o last)
  BY <1>3, <1>4, Joined
<1>8. QED
  BY <1>3, <1>5, <1>6, <1>7

\* The preamble relies on nothing, the body on the places V.
Entering(t, bs, avail, avail2, code, V) ==
  /\ BlocksFit(t, bs, avail)
  /\ \A b \in 1 .. Len(bs) : TargetsOf(bs[b].code) \subseteq 1 .. Len(bs)
  /\ Fits(code, {}) /\ V \subseteq Allocas(t) /\ V \subseteq Past(code, Len(code))
  /\ avail2 = [b \in 1 .. Len(bs) + 2 |-> IF b \in 1 .. Len(bs) THEN avail[b]
                                          ELSE IF b = Len(bs) + 1 THEN {} ELSE V]

LEMMA FunctionBlocksFit ==
  ASSUME NEW t, NEW s, NEW s2, NEW bs, NEW bs2, NEW at, NEW f, NEW code, NEW home,
         FunctionCase(t, s, s2, bs, bs2, at, f, code, home),
         NEW avail, NEW avail2, NEW V, Entering(t, bs, avail, avail2, code, V)
  PROVE  BlocksFit(t, bs2, avail2) /\ V \subseteq Supply(bs2, avail2, Len(bs) + 2)
<1>l. PICK l : l = Len(bs)
  OBVIOUS
<1>1. /\ l \in Nat /\ Len(bs2) = l + 2
      /\ \A b \in 1 .. l : bs2[b] = bs[b]
      /\ bs2[l + 1].function = f /\ bs2[l + 1].code = code
      /\ bs2[l + 2].function = f /\ bs2[l + 2].code = << >>
  BY <1>l, FunctionBlocks
<1>2. TargetsOf(code) = {l + 2}
  BY <1>l DEF FunctionCase
<1>3. /\ \A b \in 1 .. l + 2 : b \in 1 .. l \/ b = l + 1 \/ b = l + 2
      /\ \A b \in 1 .. l : b \in 1 .. l + 2
      /\ l + 1 \in 1 .. l + 2 /\ l + 2 \in 1 .. l + 2 /\ l + 1 # l + 2
      /\ l + 1 \notin 1 .. l /\ l + 2 \notin 1 .. l
      /\ l + 1 \in 1 .. (l + 2) - 1
  BY <1>1
<1>e. /\ BlocksFit(t, bs, avail)
      /\ \A b \in 1 .. l : TargetsOf(bs[b].code) \subseteq 1 .. l
      /\ Fits(code, {}) /\ V \subseteq Allocas(t) /\ V \subseteq Past(code, Len(code))
      /\ avail2 = [b \in 1 .. l + 2 |-> IF b \in 1 .. l THEN avail[b]
                                        ELSE IF b = l + 1 THEN {} ELSE V]
  BY <1>l DEF Entering
<1>4. /\ DOMAIN avail2 = 1 .. l + 2
      /\ \A b \in 1 .. l : avail2[b] = avail[b]
      /\ avail2[l + 1] = {} /\ avail2[l + 2] = V
  BY <1>3, <1>e
<1>5. avail \in [1 .. l -> SUBSET Allocas(t)] /\ \A b \in 1 .. l : BlockFits(bs, avail, b)
  BY <1>e, <1>l DEF BlocksFit
<1>6. avail2 \in [1 .. l + 2 -> SUBSET Allocas(t)]
  BY <1>5, <1>e
<1>7. ASSUME NEW b \in 1 .. l PROVE BlockFits(bs2, avail2, b)
  <2>1. TargetsOf(bs[b].code) \subseteq 1 .. l
    BY <1>e
  <2>2. Supply(bs2, avail2, b) = Supply(bs, avail, b)
    BY <1>1, <1>3, <1>4, <1>l DEF Supply
  <2>3. \A c \in 1 .. b - 1 : c \in 1 .. l
    BY <1>1
  <2>4. QED
    BY <1>1, <1>4, <1>5, <2>1, <2>2, <2>3 DEF BlockFits
<1>8. BlockFits(bs2, avail2, l + 1)
  <2>1. Supply(bs2, avail2, l + 1) = Past(code, Len(code))
    BY <1>1, <1>3, <1>4 DEF Supply
  <2>2. Fits(bs2[l + 1].code, avail2[l + 1])
    BY <1>1, <1>4, <1>e
  <2>3. \A c \in TargetsOf(bs2[l + 1].code) : avail2[c] \subseteq Supply(bs2, avail2, l + 1)
    BY <1>1, <1>2, <1>4, <1>e, <2>1
  <2>4. QED
    BY <1>4, <2>2, <2>3 DEF BlockFits
<1>9. BlockFits(bs2, avail2, l + 2)
  <2>1. Fits(<< >>, V) /\ TargetsOf(<< >>) = {}
    BY FitsNothing
  <2>2. QED
    BY <1>1, <1>3, <1>4, <2>1 DEF BlockFits
<1>10. V \subseteq Supply(bs2, avail2, l + 2)
  BY <1>1, <1>3, <1>4 DEF Supply
<1>11. QED
  BY <1>1, <1>3, <1>6, <1>7, <1>8, <1>9, <1>10, <1>l DEF BlocksFit

LEMMA FunctionComputes ==
  ASSUME IInv, OInv, VisitFunction
  PROVE  OInv'
<1> PICK f : f = Top.node
  OBVIOUS
<1>params. PICK params : params = Parameters(ast, f)
  OBVIOUS
<1> PICK l : l = Len(blocks)
  OBVIOUS
<1> PICK s : s = Body(ast, f)
  OBVIOUS
<1>code. PICK code : code = PreambleOf(params, f, l + 2)
  OBVIOUS
<1>tasks. PICK tasks : tasks = << Visit(s), Finish(f) >>
  OBVIOUS
<1> PICK s2 : s2 = stack'
  OBVIOUS
<1> PICK bs2 : bs2 = blocks'
  OBVIOUS
<1> PICK v2 : v2 = ir_value'
  OBVIOUS
<1> PICK at : at = insertBlock
  OBVIOUS
<1> PICK at2 : at2 = insertBlock'
  OBVIOUS
<1> PICK P : P = Range(params)
  OBVIOUS
<1>D. PICK D : D = Visible(ast, s)
  OBVIOUS
<1>V. PICK V : V = {Effect("alloca", p) : p \in P}
  OBVIOUS
<1>1. PICK avail : Computes(avail)
  BY DEF OInv
<1>avail2. PICK avail2 : avail2 = [b \in 1 .. l + 2 |-> IF b \in 1 .. l THEN avail[b]
                                                        ELSE IF b = l + 1 THEN {} ELSE V]
  OBVIOUS
<1>2. /\ at2 = l + 2
      /\ DOMAIN v2 = DOMAIN ir_value \cup {f} \cup P
      /\ \A n \in DOMAIN v2 : v2[n] = CASE n = f -> Value("function", f, {})
                                        [] n \in P -> Result(Alloca(n))
                                        [] OTHER -> ir_value[n]
      /\ Continue(tasks) /\ ast' = ast
  BY <1>params, <1>tasks DEF VisitFunction
<1>3. /\ stack # << >> /\ f \in FunctionsOf(ast) /\ f \in DOMAIN ast
      /\ ast[f].kind = "Function" /\ Top.op = "visit"
  <2>k. PICK kind : kind = "Function"
    OBVIOUS
  <2>1. Visiting({kind}) /\ kind \in {"Program", "Function"}
    BY <2>k DEF VisitFunction
  <2>2. Top.op = "visit"
    BY <2>1 DEF Visiting, Doing
  <2>3. QED
    BY <2>1, <2>2, <2>k, TopVisit
<1>4. /\ IsProgram(ast) /\ IsTree(ast) /\ Top = stack[Len(stack)]
  BY <1>3, TopParts
<1>5. PICK home : FunctionCase(ast, stack, s2, blocks, bs2, at, f, code, home)
  BY <1>code, <1>params, FunctionVisited DEF FunctionEntered
<1>6. /\ \A i \in 1 .. Len(tasks) : Awaits(ast)[tasks[i]] = {} /\ ComesBack(ast)[tasks[i]] = {}
  BY <1>tasks, FunctionTasks
<1>7. IsSequence(tasks) /\ Len(tasks) = 2 /\ tasks[1] = Visit(s) /\ tasks[2] = Finish(f)
  <2>v. PICK v : v = Visit(s)
    OBVIOUS
  <2>x. PICK x : x = Finish(f)
    OBVIOUS
  <2>1. tasks = << v, x >>
    BY <1>tasks, <2>v, <2>x
  <2>2. QED
    BY <2>1, <2>v, <2>x, FewTasks
<1>8. Replaced(stack, s2, tasks)
  BY <1>2, <1>3, <1>7, NextReplaced
<1>9. /\ \A p \in P : Need(ast, p) = {Effect("alloca", p)} /\ p \in DeclsOf(ast) /\ p \notin Homes(ast)
      /\ params \in Seq(Range(params))
  <2>1. params \in Seq(DeclsOf(ast))
    BY <1>3, <1>4, <1>params, FunctionParts
  <2>2. params \in Seq(Range(params))
    BY <2>1, MembersTyped DEF Range
  <2>3. QED
    BY <1>3, <1>4, <1>params, <2>2, ParameterPlace
<1>10. V = Needs(ast, P) /\ V \subseteq Allocas(ast)
  BY <1>9, <1>V DEF Needs, Allocas
<1>11. Fits(code, {}) /\ V \subseteq Past(code, Len(code))
  BY <1>9, <1>code, <1>V, PreambleFits
<1>12. /\ Computing(ast, stack, blocks, ir_value, avail, at)
       /\ BlocksFit(ast, blocks, avail) /\ FramesFit(ast, stack, avail)
       /\ ValuesFit(ast, blocks, ir_value)
  BY <1>1 DEF Computes, Computing
<1>13. l \in Nat /\ \A b \in 1 .. l : TargetsOf(blocks[b].code) \subseteq 1 .. l
  BY BlocksKnown
<1>14. BlocksFit(ast, bs2, avail2) /\ V \subseteq Supply(bs2, avail2, l + 2)
  <2>1. Entering(ast, blocks, avail, avail2, code, V)
    BY <1>10, <1>11, <1>12, <1>13, <1>avail2 DEF Entering
  <2>2. QED
    BY <1>5, <2>1, FunctionBlocksFit
<1>15. FramesFit(ast, s2, avail2)
  <2>1. ASSUME NEW i \in 1 .. Len(stack), NEW b \in Awaits(ast)[stack[i]] \cup ComesBack(ast)[stack[i]]
        PROVE  avail2[b] = avail[b]
    <3>1. b \in 1 .. l
      BY AwaitedIsLater
    <3>2. b \in 1 .. l + 2
      BY <1>13, <3>1
    <3>3. QED
      BY <1>avail2, <3>1, <3>2
  <2>2. FramesKept(ast, stack, tasks, avail, avail2)
    BY <1>6, <2>1 DEF FramesKept
  <2>3. QED
    BY <1>8, <1>12, <2>2, FramesStep
<1>16. /\ Visible(ast, f) \subseteq D /\ f \in D
       /\ D \subseteq Visible(ast, f) \cup {f} \cup P
  BY <1>3, <1>4, <1>params, <1>D, VisibleInBody
<1>17. f # 1 /\ f \in DeclsOf(ast) /\ Need(ast, f) = {} /\ Needs(ast, Visible(ast, f)) = {}
  BY <1>3, <1>4, FunctionNeedsNothing, TopNeedsNothing
<1>18. /\ Sees(ast, Top) = Visible(ast, f) /\ Declares(ast, Top) = {f}
       /\ Sees(ast, Visit(s)) = D
       /\ Sees(ast, Finish(f)) = Visible(ast, f) \cup {f}
  BY <1>3, <1>17, <1>D DEF Sees, Declares, Visit, Finish
<1>19. SeesFit(ast, Top, tasks, D)
  <2>1. \A a : a \in 1 .. 2 - 1 <=> a = 1
    OBVIOUS
  <2>2. QED
    BY <1>7, <1>16, <1>18, <2>1 DEF SeesFit
<1>20. D \subseteq DOMAIN v2
  <2>1. Visible(ast, f) \subseteq DOMAIN ir_value
    BY <1>1, <1>3, <1>18, DeclaredThere
  <2>2. QED
    BY <1>2, <1>16, <2>1
<1>21. Needs(ast, D) \subseteq Supply(bs2, avail2, at2)
  <2>1. Needs(ast, D) \subseteq Needs(ast, Visible(ast, f)) \cup Needs(ast, {f}) \cup Needs(ast, P)
    BY <1>16 DEF Needs
  <2>2. Needs(ast, {f}) = {}
    BY <1>17 DEF Needs
  <2>3. QED
    BY <1>2, <1>10, <1>14, <1>17, <2>1, <2>2
<1>22. ASSUME NEW F, NEW G PROVE UsesFit(ast, Top, tasks, F, G)
  <2>1. Uses(ast, Visit(s)) = {} /\ Uses(ast, Finish(f)) = {}
    BY <1>3 DEF Uses, Visit, Finish
  <2>2. ~ Evaluates(ast, Top)
    BY <1>3 DEF Evaluates, ExpressionKinds, LiteralKinds
  <2>3. \A a : a \in 1 .. 2 <=> a = 1 \/ a = 2
    OBVIOUS
  <2>4. QED
    BY <1>7, <2>1, <2>2, <2>3 DEF UsesFit
<1>23. ValuesFit(ast, bs2, v2)
  <2>1. /\ Len(bs2) = l + 2 /\ bs2[l + 1].function = f
        /\ \A b \in 1 .. l : bs2[b] = blocks[b]
    BY <1>5, FunctionBlocks
  <2>2. ASSUME NEW d \in DOMAIN v2, d \in DeclsOf(ast) \cup BuiltinDecls
        PROVE  v2[d].needs \subseteq Need(ast, d)
    <3>1. CASE d = f
      <4>1. v2[d] = Value("function", f, {})
        <5>1. f \notin P
          BY <1>3, <1>9 DEF Homes
        <5>2. QED
          BY <1>2, <3>1, <5>1
      <4>2. QED
        BY <4>1, ValueParts
    <3>2. CASE d # f /\ d \in P
      <4>1. v2[d] = Result(Alloca(d))
        BY <1>2, <3>2
      <4>2. PICK i : i = Instruction("alloca", d, << >>, << >>)
        OBVIOUS
      <4>3. v2[d].needs = {Effect("alloca", d)}
        BY <4>1, <4>2, InstructionParts DEF Alloca
      <4>4. QED
        BY <1>9, <3>2, <4>3
    <3>3. CASE d # f /\ d \notin P
      BY <1>2, <1>12, <2>2, <3>3 DEF ValuesFit
    <3>4. QED
      BY <3>1, <3>2, <3>3
  <2>3. ASSUME NEW g \in DOMAIN v2, g \in Homes(ast)
        PROVE  \E b \in 1 .. Len(bs2) : bs2[b].function = g
    <3>1. CASE g = f
      BY <1>13, <2>1, <3>1
    <3>2. CASE g # f
      <4>1. g \in DOMAIN ir_value
        BY <1>2, <1>9, <2>3, <3>2
      <4>2. PICK b \in 1 .. l : blocks[b].function = g
        BY <1>12, <2>3, <4>1 DEF ValuesFit
      <4>3. b \in 1 .. Len(bs2) /\ bs2[b].function = g
        BY <1>13, <2>1, <4>2
      <4>4. QED
        BY <4>3
    <3>3. QED
      BY <3>1, <3>2
  <2>4. QED
    BY <2>2, <2>3 DEF ValuesFit
<1>24. Computing(ast, s2, bs2, v2, avail2, at2)
  <2>1. SeesFit(ast, stack[Len(stack)], tasks, D)
    BY <1>4, <1>19
  <2>2. UsesFit(ast, stack[Len(stack)], tasks, Fine(ir_value, Supply(blocks, avail, at)),
                Fine(v2, Supply(bs2, avail2, at2)))
    BY <1>4, <1>22
  <2>3. BlocksFit(ast, bs2, avail2)
    BY <1>14
  <2>4. Computing(ast, stack, blocks, ir_value, avail, at)
    BY <1>12
  <2>5. QED
    BY <1>8, <1>15, <1>20, <1>21, <1>23, <2>1, <2>2, <2>3, <2>4, ComputingStep, ZenonT(40)
<1>25. QED
  BY <1>2, <1>24 DEF OInv, Computes

(***************************************************************************)
(* The program: the builtins, then one declaration after the other.        *)
(***************************************************************************)
LEMMA InputFits ==
  Fits(InputCode, {})
<1>1. PICK i1 : i1 = Alloca(-1)
  OBVIOUS
<1>r1. PICK r1 : r1 = Result(i1)
  OBVIOUS
<1>2. PICK i3 : i3 = Load(-1, r1)
  OBVIOUS
<1>r3. PICK r3 : r3 = Result(i3)
  OBVIOUS
<1>v. PICK v : v = Value("scanf", -1, {})
  OBVIOUS
<1>w. PICK w : w = Value("scan_format", -1, {})
  OBVIOUS
<1>3. PICK i2 : i2 = CallOf(-1, << v, w, r1 >>)
  OBVIOUS
<1>4. PICK i4 : i4 = Ret(-1, r3)
  OBVIOUS
<1>5. PICK code : code = << i1, i2, i3, i4 >>
  OBVIOUS
<1>6. InputCode = code
  BY <1>1, <1>2, <1>3, <1>4, <1>5, <1>r1, <1>r3, <1>v, <1>w, Zenon DEF InputCode
<1>a. PICK a : a = Effect("alloca", -1)
  OBVIOUS
<1>l. PICK l : l = Effect("load", -1)
  OBVIOUS
<1>7. /\ i1.op = "alloca" /\ i1.at = -1 /\ i1.args = << >> /\ r1.needs = {a}
      /\ i2.op = "call" /\ i2.args = << v, w, r1 >>
      /\ i3.op = "load" /\ i3.at = -1 /\ i3.args = << r1 >> /\ r3.needs = {l}
      /\ i4.op = "ret" /\ i4.args = << r3 >>
  BY <1>1, <1>2, <1>3, <1>4, <1>r1, <1>r3, <1>a, <1>l, InstructionParts DEF Alloca, Load, CallOf, Ret
<1>8. v.needs = {} /\ w.needs = {}
  BY <1>v, <1>w, ValueParts
<1>9. Len(code) = 4 /\ code[1] = i1 /\ code[2] = i2 /\ code[3] = i3 /\ code[4] = i4
  BY <1>5
<1>10. \A i : i \in 1 .. 4 <=> i = 1 \/ i = 2 \/ i = 3 \/ i = 4
  OBVIOUS
<1>11. a \in Past(code, 2 - 1) /\ a \in Past(code, 3 - 1) /\ l \in Past(code, 4 - 1)
  <2>1. 1 \in 1 .. 2 - 1 /\ 1 \in 1 .. 3 - 1 /\ 3 \in 1 .. 4 - 1
    OBVIOUS
  <2>2. a = Effect(code[1].op, code[1].at) /\ l = Effect(code[3].op, code[3].at)
    BY <1>7, <1>9, <1>a, <1>l
  <2>3. QED
    BY <2>1, <2>2 DEF Past
<1>12. /\ Range(i1.args) = {} /\ Range(i3.args) = {r1} /\ Range(i4.args) = {r3}
       /\ Range(i2.args) = {v, w, r1}
  <2>1. /\ Range(i1.args) = {} /\ Range(i3.args) = {r1} /\ Range(i4.args) = {r3}
    BY <1>7, FewArguments, Zenon
  <2>2. DOMAIN << v, w, r1 >> = {1, 2, 3}
    OBVIOUS
  <2>3. Range(i2.args) = {v, w, r1}
    BY <1>7, <2>2 DEF Range
  <2>4. QED
    BY <2>1, <2>3
<1>13. ASSUME NEW i \in 1 .. 4, NEW x \in Range(code[i].args) PROVE x.needs \subseteq Past(code, i - 1)
  <2>1. CASE i = 1
    BY <1>9, <1>12, <1>13, <2>1
  <2>2. CASE i = 2
    BY <1>7, <1>8, <1>9, <1>11, <1>12, <1>13, <2>2
  <2>3. CASE i = 3
    BY <1>7, <1>9, <1>11, <1>12, <1>13, <2>3
  <2>4. CASE i = 4
    BY <1>7, <1>9, <1>11, <1>12, <1>13, <2>4
  <2>5. QED
    BY <1>10, <2>1, <2>2, <2>3, <2>4
<1>14. \A i \in 1 .. 4 : code[i].op # "br" /\ code[i].op # "condbr"
  BY <1>7, <1>9, <1>10
<1>15. Fits(code, {})
  BY <1>9, <1>13, <1>14 DEF Fits
<1>16. QED
  BY <1>6, <1>15

LEMMA OutputFits ==
  Fits(OutputCode, {})
<1>u. PICK u : u = Value("printf", -2, {})
  OBVIOUS
<1>v. PICK v : v = Value("print_format", -2, {})
  OBVIOUS
<1>w. PICK w : w = Value("argument", -2, {})
  OBVIOUS
<1>1. PICK i1 : i1 = CallOf(-2, << u, v, w >>)
  OBVIOUS
<1>2. PICK i2 : i2 = RetVoid(-2)
  OBVIOUS
<1>3. PICK code : code = << i1, i2 >>
  OBVIOUS
<1>4. OutputCode = code
  BY <1>1, <1>2, <1>3, <1>u, <1>v, <1>w, Zenon DEF OutputCode
<1>5. i1.op = "call" /\ i1.args = << u, v, w >> /\ i2.op = "ret" /\ i2.args = << >>
  BY <1>1, <1>2, InstructionParts DEF CallOf, RetVoid
<1>6. u.needs = {} /\ v.needs = {} /\ w.needs = {}
  BY <1>u, <1>v, <1>w, ValueParts
<1>7. Range(i1.args) = {u, v, w} /\ Range(i2.args) = {}
  <2>1. DOMAIN << u, v, w >> = {1, 2, 3}
    OBVIOUS
  <2>2. Range(i1.args) = {u, v, w}
    BY <1>5, <2>1 DEF Range
  <2>3. QED
    BY <1>5, <2>2, FewArguments
<1>8. Len(code) = 2 /\ code[1] = i1 /\ code[2] = i2
  BY <1>3
<1>9. \A i : i \in 1 .. 2 <=> i = 1 \/ i = 2
  OBVIOUS
<1>10. \A i \in 1 .. 2 : code[i].op # "br" /\ code[i].op # "condbr" /\ \A x \in Range(code[i].args) : x.needs = {}
  BY <1>5, <1>6, <1>7, <1>8, <1>9
<1>11. Fits(code, {})
  BY <1>8, <1>10 DEF Fits
<1>12. QED
  BY <1>4, <1>11

LEMMA BuiltinsFit ==
  ASSUME NEW t, IsTree(t), NEW bs,
         bs = << Block("body", -1, InputCode), Block("body", -2, OutputCode) >>,
         NEW avail, avail = [b \in 1 .. 2 |-> {}]
  PROVE  BlocksFit(t, bs, avail)
<1>1. /\ Len(bs) = 2 /\ \A b \in 1 .. 2 : TargetsOf(bs[b].code) = {}
  BY BuiltinBlocks
<1>c. PICK c : c = InputCode
  OBVIOUS
<1>d. PICK d : d = OutputCode
  OBVIOUS
<1>2. bs = << Block("body", -1, c), Block("body", -2, d) >>
  BY <1>c, <1>d
<1>3. bs[1].code = c /\ bs[2].code = d
  BY <1>2 DEF Block
<1>4. \A b \in 1 .. 2 : b = 1 \/ b = 2
  OBVIOUS
<1>5. \A b \in 1 .. 2 : Fits(bs[b].code, {})
  BY <1>3, <1>4, <1>c, <1>d, InputFits, OutputFits
<1>6. \A b \in 1 .. 2 : avail[b] = {}
  OBVIOUS
<1>7. \A b \in 1 .. 2 : BlockFits(bs, avail, b)
  BY <1>1, <1>5, <1>6 DEF BlockFits
<1>8. avail \in [1 .. 2 -> SUBSET Allocas(t)]
  OBVIOUS
<1>9. QED
  BY <1>1, <1>7, <1>8 DEF BlocksFit

\* What a declaration at the top finds are the builtins and the ones before
\* it; the last one finds every function that is not itself.
LEMMA VisibleAtTop ==
  ASSUME NEW t, IsProgram(t), NEW l, l = Len(t[1].kids)
  PROVE  /\ l \in Nat \ {0}
         /\ Visible(t, Kid(t, 1, 1)) = BuiltinDecls
         /\ \A i \in 1 .. l : /\ Kid(t, 1, i) # 1
                              /\ i # 1 => Visible(t, Kid(t, 1, i)) \subseteq
                                            Visible(t, Kid(t, 1, i - 1)) \cup ({Kid(t, 1, i - 1)} \cap DeclsOf(t))
         /\ Homes(t) \subseteq Visible(t, Kid(t, 1, l)) \cup ({Kid(t, 1, l)} \cap DeclsOf(t))
<1>1. /\ IsTree(t) /\ t[1].kind = "Program" /\ 1 \in DOMAIN t /\ KidsFit(t, 1)
  BY NodeShape DEF IsProgram, IsTree
<1>2. l \in Nat \ {0} /\ 1 \in 1 .. l /\ l \in 1 .. l
  <2>1. Len(t[1].kids) > 0 /\ Len(t[1].kids) \in Nat
    BY <1>1, NodeShape DEF KidsFit
  <2>2. QED
    BY <2>1
<1>3. \A i \in 1 .. l : Kid(t, 1, i) > 1 /\ Kid(t, 1, i) \in DOMAIN t /\ Kid(t, 1, i) \in Nat
  BY <1>1, NodeShape, KidsInside
<1>4. \A i \in 1 .. l : i # 1 => Visible(t, Kid(t, 1, i)) \subseteq
                                   Visible(t, Kid(t, 1, i - 1)) \cup ({Kid(t, 1, i - 1)} \cap DeclsOf(t))
  BY <1>1, VisibleInTurn
<1>5. 1 \notin DeclsOf(t) /\ Visible(t, 1) = {}
  BY <1>1 DEF DeclsOf, DeclKinds, Visible
<1>6. Visible(t, Kid(t, 1, 1)) = BuiltinDecls
  <2>1. Visible(t, Kid(t, 1, 1)) \subseteq
          BuiltinDecls \cup Visible(t, 1) \cup ({1} \cap DeclsOf(t)) \cup
          ({Kid(t, 1, j) : j \in 1 .. 1 - 1} \cap DeclsOf(t))
    BY <1>1, <1>2, VisibleInTurn
  <2>2. \A j : j \notin 1 .. 1 - 1
    OBVIOUS
  <2>3. BuiltinDecls \subseteq Visible(t, Kid(t, 1, 1))
    BY <1>2, <1>3 DEF Visible
  <2>4. QED
    BY <1>5, <2>1, <2>2, <2>3
<1>7. ASSUME NEW f \in FunctionsOf(t)
      PROVE  f \in Visible(t, Kid(t, 1, l)) \cup ({Kid(t, 1, l)} \cap DeclsOf(t))
  <2>1. f \in DOMAIN t /\ t[f].kind = "Function" /\ f \in DeclsOf(t) /\ f # 1
    BY FunctionNeedsNothing DEF FunctionsOf, NodesOf
  <2>2. PICK i \in 1 .. l : f = Kid(t, 1, i)
    BY <2>1, KidsOfRoot
  <2>3. CASE i = l
    BY <2>1, <2>2, <2>3
  <2>4. CASE i # l
    <3>1. i < l
      BY <1>2, <2>4
    <3>2. f + t[f].span <= Kid(t, 1, l)
      BY <1>1, <1>2, <2>2, <3>1, KidsApart
    <3>3. f < Kid(t, 1, l)
      <4>1. t[f].span \in Nat \ {0} /\ f \in Nat
        BY <1>1, <1>3, <2>1, <2>2, NodeShape
      <4>2. PICK w : w = t[f].span
        OBVIOUS
      <4>3. PICK k : k = Kid(t, 1, l)
        OBVIOUS
      <4>4. w \in Nat \ {0} /\ f + w <= k /\ k \in Nat
        BY <1>2, <1>3, <3>2, <4>1, <4>2, <4>3
      <4>5. f < k
        BY <4>1, <4>4
      <4>6. QED
        BY <4>3, <4>5
    <3>4. Owner(t, f) = 1
      <4>1. Owner(t, f) \in ScopesAround(t, f) /\ Owner(t, f) \in 1 .. Len(t)
        BY <2>1, OwnerAround
      <4>2. Owner(t, f) \in DOMAIN t /\ Within(t, f, Owner(t, f)) /\ Owner(t, f) # f
        BY <1>1, <1>3, <2>2, <4>1 DEF ScopesAround, IsTree
      <4>3. Within(t, 1, Owner(t, f))
        BY <1>1, <2>2, <4>2, AroundKid
      <4>4. QED
        BY <4>1, <4>3 DEF Within
    <3>5. Within(t, Kid(t, 1, l), 1)
      <4>1. t[1].span \in Nat \ {0}
        BY <1>1, NodeShape
      <4>2. PICK w : w = t[1].span
        OBVIOUS
      <4>3. 1 <= 1 /\ 1 < 1 + w
        BY <4>1, <4>2
      <4>4. Within(t, 1, 1)
        BY <4>2, <4>3 DEF Within
      <4>5. QED
        BY <1>1, <1>2, <4>4, AroundKid
    <3>6. QED
      BY <1>2, <1>3, <2>1, <3>3, <3>4, <3>5 DEF Visible
  <2>5. QED
    BY <2>3, <2>4
<1>8. BuiltinDecls \subseteq Visible(t, Kid(t, 1, l))
  BY <1>2, <1>3 DEF Visible
<1>9. \A i \in 1 .. l : Kid(t, 1, i) # 1
  BY <1>3
<1>10. QED
  BY <1>2, <1>4, <1>6, <1>7, <1>8, <1>9 DEF Homes

LEMMA ProgramComputes ==
  ASSUME IInv, OInv, VisitProgram
  PROVE  OInv'
<1>tasks. PICK tasks : tasks = VisitAll(Kids(ast, 1))
  OBVIOUS
<1>bs2. PICK bs2 : bs2 = << Block("body", -1, InputCode), Block("body", -2, OutputCode) >>
  OBVIOUS
<1>v2. PICK v2 : v2 = [b \in BuiltinDecls |-> Value("function", b, {})]
  OBVIOUS
<1>avail2. PICK avail2 : avail2 = [b \in 1 .. 2 |-> {}]
  OBVIOUS
<1> PICK s2 : s2 = stack'
  OBVIOUS
<1>at2. PICK at2 : at2 = 2
  OBVIOUS
<1> PICK at : at = insertBlock
  OBVIOUS
<1> PICK l : l = Len(ast[1].kids)
  OBVIOUS
<1>k. PICK kind : kind = "Program"
  OBVIOUS
<1>1. PICK avail : Computes(avail)
  BY DEF OInv
<1>2. /\ Visiting({kind}) /\ kind \in {"Program", "Function"}
      /\ ir_value' = v2 /\ blocks' = bs2 /\ insertBlock' = 2
      /\ Continue(VisitAll(Kids(ast, Top.node))) /\ ast' = ast
  BY <1>bs2, <1>v2, <1>k DEF VisitProgram
<1>3. stack # << >> /\ Top = Visit(1) /\ Top.node = 1 /\ 1 \in DOMAIN ast /\ Continue(tasks)
  BY <1>2, <1>k, <1>tasks, TopVisit
<1>4. /\ IsProgram(ast) /\ IsTree(ast) /\ Top = stack[Len(stack)] /\ Len(stack) \in Nat \ {0}
  BY <1>3, TopParts
<1>5. /\ \A i \in 1 .. Len(tasks) : Awaits(ast)[tasks[i]] = {} /\ ComesBack(ast)[tasks[i]] = {}
      /\ 1 \in Owes(ast)[Top]
  BY <1>tasks, ProgramTasks DEF Replaces
<1>6. blocks = << >>
  <2>1. Len(stack) \in 1 .. Len(stack)
    BY <1>4
  <2>2. 1 \in Pending(stack, Owes(ast))
    BY <1>4, <1>5, <2>1 DEF Pending
  <2>3. QED
    BY <2>2 DEF IInv
<1>7. /\ l \in Nat \ {0}
      /\ Visible(ast, Kid(ast, 1, 1)) = BuiltinDecls
      /\ \A i \in 1 .. l : /\ Kid(ast, 1, i) # 1
                           /\ i # 1 => Visible(ast, Kid(ast, 1, i)) \subseteq
                                         Visible(ast, Kid(ast, 1, i - 1)) \cup ({Kid(ast, 1, i - 1)} \cap DeclsOf(ast))
      /\ Homes(ast) \subseteq Visible(ast, Kid(ast, 1, l)) \cup ({Kid(ast, 1, l)} \cap DeclsOf(ast))
  BY <1>4, VisibleAtTop
<1>8. /\ IsSequence(tasks) /\ Len(tasks) = l
      /\ \A i \in 1 .. l : tasks[i] = Visit(Kid(ast, 1, i))
  <2>ns. PICK ns : ns = Kids(ast, 1)
    OBVIOUS
  <2>1. ns \in Seq(DOMAIN ast) /\ Len(ns) = l /\ \A i \in 1 .. l : ns[i] = Kid(ast, 1, i)
    BY <1>3, <1>4, <2>ns, KidsSequence
  <2>2. IsSequence(ns)
    BY <2>1 DEF IsSequence
  <2>3. QED
    BY <1>tasks, <2>ns, <2>1, <2>2, VisitAllParts
<1>9. Replaced(stack, s2, tasks)
  BY <1>3, <1>8, NextReplaced
<1>10. ASSUME NEW n, n # 1
       PROVE  /\ Sees(ast, Visit(n)) = Visible(ast, n)
              /\ Declares(ast, Visit(n)) = {n} \cap DeclsOf(ast)
              /\ Uses(ast, Visit(n)) = {}
  BY <1>10 DEF Sees, Declares, Uses, Visit
<1>11. Sees(ast, Top) = {} /\ Declares(ast, Top) = Homes(ast) /\ ~ Evaluates(ast, Top)
  <2>1. Visit(1).op = "visit" /\ Visit(1).node = 1 /\ ast[1].kind = "Program"
    BY <1>4 DEF Visit, IsProgram
  <2>2. Sees(ast, Visit(1)) = {} /\ Declares(ast, Visit(1)) = Homes(ast)
    BY <2>1 DEF Sees, Declares, Visible
  <2>3. ~ Evaluates(ast, Visit(1))
    BY <2>1 DEF Evaluates, ExpressionKinds, LiteralKinds
  <2>4. QED
    BY <1>3, <2>2, <2>3
<1>12. SeesFit(ast, stack[Len(stack)], tasks, BuiltinDecls)
  <2>1. ASSUME NEW a \in 1 .. l - 1
        PROVE  Sees(ast, tasks[a + 1]) \subseteq Sees(ast, tasks[a]) \cup Declares(ast, tasks[a])
    <3>1. a \in 1 .. l /\ a + 1 \in 1 .. l /\ a + 1 # 1 /\ (a + 1) - 1 = a
      BY <1>7
    <3>2. Visible(ast, Kid(ast, 1, a + 1)) \subseteq
            Visible(ast, Kid(ast, 1, a)) \cup ({Kid(ast, 1, a)} \cap DeclsOf(ast))
      BY <1>7, <3>1
    <3>3. QED
      BY <1>7, <1>8, <1>10, <3>1, <3>2
  <2>2. 1 \in 1 .. l /\ l \in 1 .. l /\ l # 0
    BY <1>7
  <2>3. Sees(ast, tasks[1]) \subseteq BuiltinDecls
    BY <1>7, <1>8, <1>10, <2>2
  <2>4. Homes(ast) \subseteq Sees(ast, tasks[l]) \cup Declares(ast, tasks[l])
    BY <1>7, <1>8, <1>10, <2>2
  <2>5. Sees(ast, Top) \cup Declares(ast, Top) \subseteq Sees(ast, tasks[l]) \cup Declares(ast, tasks[l])
    BY <1>11, <2>4
  <2>6. SeesFit(ast, Top, tasks, BuiltinDecls)
    BY <1>8, <2>1, <2>2, <2>3, <2>5 DEF SeesFit
  <2>7. QED
    BY <1>4, <2>6
<1>13. ASSUME NEW F, NEW G PROVE UsesFit(ast, stack[Len(stack)], tasks, F, G)
  <2>1. \A a \in 1 .. l : Uses(ast, tasks[a]) = {}
    BY <1>7, <1>8, <1>10
  <2>2. UsesFit(ast, Top, tasks, F, G)
    BY <1>8, <1>11, <2>1 DEF UsesFit
  <2>3. QED
    BY <1>4, <2>2
<1>14. BlocksFit(ast, bs2, avail2)
  BY <1>4, <1>avail2, <1>bs2, BuiltinsFit
<1>15. FramesFit(ast, s2, avail2)
  <2>1. \A i \in 1 .. Len(stack) : Awaits(ast)[stack[i]] = {} /\ ComesBack(ast)[stack[i]] = {}
    BY <1>6, NothingKept
  <2>2. FramesKept(ast, stack, tasks, avail, avail2)
    BY <1>5, <2>1 DEF FramesKept
  <2>3. FramesFit(ast, stack, avail)
    BY <1>1 DEF Computes, Computing
  <2>4. QED
    BY <1>9, <2>2, <2>3, FramesStep
<1>16. BuiltinDecls \subseteq DOMAIN v2 /\ Needs(ast, BuiltinDecls) \subseteq Supply(bs2, avail2, at2)
  BY <1>v2 DEF Needs, Need
<1>17. ValuesFit(ast, bs2, v2)
  <2>1. \A d \in DOMAIN v2 : v2[d].needs = {}
    BY <1>v2, ValueParts
  <2>2. /\ Len(bs2) = 2 /\ bs2[1].function = -1 /\ bs2[2].function = -2
    BY <1>4, <1>bs2, BuiltinBlocks
  <2>3. \A d \in DOMAIN v2 : d = -1 \/ d = -2
    BY <1>v2 DEF BuiltinDecls
  <2>4. 1 \in 1 .. 2 /\ 2 \in 1 .. 2
    OBVIOUS
  <2>5. ASSUME NEW g \in DOMAIN v2 PROVE \E b \in 1 .. Len(bs2) : bs2[b].function = g
    BY <2>2, <2>3, <2>4
  <2>6. QED
    BY <2>1, <2>5 DEF ValuesFit
<1>18. Computing(ast, s2, bs2, v2, avail2, at2)
  <2>1. Computing(ast, stack, blocks, ir_value, avail, at)
    BY <1>1 DEF Computes
  <2>2. UsesFit(ast, stack[Len(stack)], tasks, Fine(ir_value, Supply(blocks, avail, at)),
                Fine(v2, Supply(bs2, avail2, at2)))
    BY <1>13
  <2>3. BlocksFit(ast, bs2, avail2) /\ Needs(ast, BuiltinDecls) \subseteq Supply(bs2, avail2, at2)
    BY <1>14, <1>16
  <2>D. PICK D : D = BuiltinDecls
    OBVIOUS
  <2>4. SeesFit(ast, stack[Len(stack)], tasks, D) /\ D \subseteq DOMAIN v2
    BY <1>12, <1>16, <2>D
  <2>5. Needs(ast, D) \subseteq Supply(bs2, avail2, at2)
    BY <2>3, <2>D
  <2>6. QED
    BY <1>9, <1>15, <1>17, <2>1, <2>2, <2>3, <2>4, <2>5, ComputingStep
<1>19. QED
  BY <1>2, <1>18, <1>at2 DEF OInv, Computes

(***************************************************************************)
(* The invariant.                                                          *)
(***************************************************************************)
LEMMA InitOInv ==
  ASSUME Init
  PROVE  OInv
<1>1. /\ ast \in Programs /\ stack = << Visit(1) >> /\ blocks = << >>
      /\ insertBlock = nullptr /\ ir_value = << >> /\ IInv
  BY InitIInv DEF Init
<1>2. IsProgram(ast) /\ IsTree(ast) /\ ast[1].kind = "Program"
  BY <1>1, ProgramsAssumption DEF IsProgram
<1>v. PICK v : v = Visit(1)
  OBVIOUS
<1>avail. PICK avail : avail = [b \in {} |-> {}]
  OBVIOUS
<1>3. /\ Len(stack) = 1 /\ stack[1] = v /\ v.op = "visit" /\ v.node = 1
      /\ \A i \in 1 .. 1 : i = 1
      /\ Len(blocks) = 0 /\ 1 .. 0 = {} /\ DOMAIN ir_value = {}
  BY <1>1, <1>v DEF Visit
<1>4. Sees(ast, v) = {} /\ Declares(ast, v) = Homes(ast) /\ Uses(ast, v) = {}
  BY <1>2, <1>3 DEF Sees, Declares, Uses, Visible
<1>5. BlocksFit(ast, blocks, avail)
  BY <1>3, <1>avail DEF BlocksFit
<1>6. FramesFit(ast, stack, avail)
  <2>1. \A i \in 1 .. Len(stack) : Awaits(ast)[stack[i]] = {} /\ ComesBack(ast)[stack[i]] = {}
    BY <1>1, NothingKept
  <2>2. QED
    BY <2>1 DEF FramesFit
<1>7. SeesInTurn(ast, stack) /\ Demand(ast, stack) = {}
  BY <1>3, <1>4 DEF SeesInTurn, Demand
<1>8. UsesInTurn(ast, stack, Fine(ir_value, Supply(blocks, avail, insertBlock)))
  BY <1>3, <1>4 DEF UsesInTurn
<1>9. ValuesFit(ast, blocks, ir_value)
  BY <1>3 DEF ValuesFit
<1>10. Needs(ast, {}) = {}
  BY DEF Needs
<1>11. QED
  BY <1>5, <1>6, <1>7, <1>8, <1>9, <1>10 DEF OInv, Computes, Computing

LEMMA StepOInv ==
  ASSUME IInv, OInv, [Next]_vars
  PROVE  OInv'
<1>1. CASE VisitProgram \/ VisitVariable \/ VisitFunction \/ FinishFunction
  BY <1>1, ProgramComputes, VariableComputes, FunctionComputes, FunctionEndComputes
<1>2. CASE VisitCompound \/ VisitIf
  BY <1>2, CompoundComputes, IfComputes
<1>3. CASE BranchIf \/ EnterElse \/ VisitWhile \/ EnterLoop \/ FinishWhile
  <2>1. Placing
    BY <1>3, IfBranched, ElseEntered, WhileVisited, LoopEntered, WhileFinished
  <2>2. QED
    BY <2>1, PlacingComputes
<1>4. CASE FinishIf
  <2>1. Placing \/ Ceasing
    BY <1>4, IfFinished
  <2>2. stack # << >>
    BY <1>4 DEF FinishIf, Doing
  <2>3. QED
    BY <2>1, <2>2, PlacingComputes, CeasingComputes
<1>5. CASE VisitStatement \/ FinishReturn \/ FinishExpressionStmt
  BY <1>5, StatementComputes, ReturnComputes, ExpressionStmtComputes
<1>6. CASE VisitExpression \/ VisitAssignment \/ FinishAssignment \/ VisitVariableExpr
  BY <1>6, ExpressionComputes, AssignmentVisitComputes, AssignmentComputes, VariableExprComputes
<1>7. CASE FinishSubscript \/ FinishImplicitCast \/ FinishCall \/ FinishOperation \/ VisitLiteral
  BY <1>7, SubscriptComputes, ImplicitCastComputes, CallComputes, OperationComputes, LiteralComputes
<1>8. CASE UNCHANGED vars
  <2>1. /\ ast' = ast /\ stack' = stack /\ ir_value' = ir_value
        /\ blocks' = blocks /\ insertBlock' = insertBlock
    BY <1>8 DEF vars, ir
  <2>2. QED
    BY <2>1 DEF OInv, Computes
<1>9. QED
  BY <1>1, <1>2, <1>3, <1>4, <1>5, <1>6, <1>7, <1>8, Zenon DEF Next

LEMMA OInvariance == Spec => [](IInv /\ OInv)
<1>1. Init => IInv /\ OInv
  BY InitIInv, InitOInv
<1>2. IInv /\ OInv /\ [Next]_vars => (IInv /\ OInv)'
  <2>1. IInv /\ OInv /\ [Next]_vars => IInv' /\ OInv'
    BY StepIInv, StepOInv
  <2>2. QED
    BY <2>1
<1>3. QED
  BY <1>1, <1>2, PTL DEF Spec

(***************************************************************************)
(* A run of the blocks.                                                    *)
(***************************************************************************)
\* Code without its last instruction.
LEMMA FrontFits ==
  ASSUME NEW I, NEW code \in Seq(I), code # << >>, NEW A, Fits(code, A)
  PROVE  /\ Fits(Front(code), A)
         /\ \A e \in Past(code, Len(code)) :
              e \in Past(Front(code), Len(Front(code))) \/ e.op = Last(code).op
<1> PICK c : c = Front(code)
  OBVIOUS
<1> PICK l : l = Len(code)
  OBVIOUS
<1>1. /\ l \in Nat \ {0} /\ Last(code) = code[l] /\ Len(c) = l - 1
      /\ \A i \in 1 .. l - 1 : c[i] = code[i]
  <2>1. Last(code) = code[l]
    BY DEF Last
  <2>2. QED
    BY <2>1, FrontParts
<1>2. /\ \A i \in 1 .. l - 1 : i \in 1 .. l /\ \A j \in 1 .. i - 1 : j \in 1 .. l - 1
      /\ \A i \in 1 .. l : i \in 1 .. l - 1 \/ i = l
  BY <1>1
<1>3. \A i \in 1 .. l - 1 : Past(c, i - 1) = Past(code, i - 1)
  BY <1>1, <1>2 DEF Past
<1>4. Fits(c, A)
  BY <1>1, <1>2, <1>3 DEF Fits
<1>5. ASSUME NEW e \in Past(code, l)
      PROVE  e \in Past(c, l - 1) \/ e.op = Last(code).op
  <2>1. PICK j \in 1 .. l : e = Effect(code[j].op, code[j].at)
    BY <1>5 DEF Past
  <2>2. CASE j = l
    BY <1>1, <2>1, <2>2 DEF Effect
  <2>3. CASE j \in 1 .. l - 1
    BY <1>1, <2>1, <2>3 DEF Past
  <2>4. QED
    BY <1>2, <2>2, <2>3
<1>6. QED
  BY <1>1, <1>4, <1>5

LEMMA FitsMore ==
  ASSUME NEW code, NEW A, NEW B, Fits(code, A), A \subseteq B
  PROVE  Fits(code, B)
BY DEF Fits

\* A run that has what its block relies on.
Runs(avail, I) ==
  {x \in [block : {nullptr} \cup (1 .. Len(blocks)), taken : Nat, code : Seq(I)] :
     /\ Fits(x.code, {})
     /\ x.block # nullptr => avail[x.block] \subseteq Past(x.code, Len(x.code))}

Instructions == UNION {Range(blocks[b].code) : b \in 1 .. Len(blocks)}

Following(oracle, x) ==
  LET code == blocks[x.block].code
      last == Last(code)
      done == IF last.op = "br" THEN Front(code) ELSE code
      on   == [x EXCEPT !.code = @ \o done, !.block = nullptr]
  IN  CASE code = << >> -> [x EXCEPT !.block = nullptr]
        [] last.op = "br" -> [on EXCEPT !.block = last.targets[1]]
        [] last.op = "condbr" /\ x.taken < Len(oracle) ->
             [on EXCEPT !.block = last.targets[IF oracle[x.taken + 1] THEN 1 ELSE 2],
                        !.taken = @ + 1]
        [] OTHER -> on

LEMMA RunStep ==
  ASSUME IInv, NEW avail, BlocksFit(ast, blocks, avail), NEW oracle,
         NEW x \in Runs(avail, Instructions), x.block # nullptr,
         \A b \in 1 .. Len(blocks) : blocks[b].code # << >>
  PROVE  Following(oracle, x) \in Runs(avail, Instructions)
<1>I. PICK I : I = Instructions
  OBVIOUS
<1>b. PICK b : b = x.block
  OBVIOUS
<1>code. PICK code : code = blocks[b].code
  OBVIOUS
<1> PICK A : A = avail[b]
  OBVIOUS
<1>old. PICK old : old = x.code
  OBVIOUS
<1>k. PICK k : k = x.taken
  OBVIOUS
<1>1. /\ b \in 1 .. Len(blocks) /\ k \in Nat /\ old \in Seq(I)
      /\ x = [block |-> b, taken |-> k, code |-> old]
      /\ Fits(old, {}) /\ A \subseteq Past(old, Len(old))
  BY <1>I, <1>k, <1>b, <1>old DEF Runs
<1>2. /\ IsSequence(code) /\ DOMAIN code = 1 .. Len(code)
      /\ TargetsOf(code) \subseteq 1 .. Len(blocks)
  BY <1>1, <1>code, BlockFacts, BlocksKnown
<1>3. code \in Seq(I)
  <2>1. {code[i] : i \in DOMAIN code} \subseteq I
    BY <1>1, <1>code, <1>I DEF Instructions, Range
  <2>2. QED
    BY <1>2, <2>1 DEF IsSequence
<1>4. /\ Fits(code, A) /\ avail \in [1 .. Len(blocks) -> SUBSET Allocas(ast)]
      /\ \A c \in TargetsOf(code) : avail[c] \subseteq A \cup Past(code, Len(code))
  BY <1>1, <1>code DEF BlocksFit, BlockFits, Supply
<1>5. code # << >>
  BY <1>1, <1>code
<1> PICK last : last = Last(code)
  OBVIOUS
<1> PICK done : done = IF last.op = "br" THEN Front(code) ELSE code
  OBVIOUS
<1> PICK new : new = old \o done
  OBVIOUS
<1>6. /\ Len(code) \in Nat \ {0} /\ last = code[Len(code)] /\ Front(code) \in Seq(I)
      /\ Len(code) \in 1 .. Len(code)
  <2>1. last = code[Len(code)]
    BY DEF Last
  <2>2. Len(code) \in Nat \ {0} /\ Front(code) \in Seq(I)
    BY <1>3, <1>5, FrontParts
  <2>3. QED
    BY <2>1, <2>2
<1>7. done \in Seq(I) /\ Fits(done, A)
  BY <1>3, <1>4, <1>5, <1>6, FrontFits
<1>8. /\ new \in Seq(I) /\ Fits(new, {})
      /\ Past(new, Len(new)) = Past(old, Len(old)) \cup Past(done, Len(done))
  <2>1. IsSequence(old) /\ IsSequence(done)
    BY <1>1, <1>7, SequenceOf
  <2>E. PICK E : E = {}
    OBVIOUS
  <2>2. Fits(old, E) /\ Fits(done, E \cup Past(old, Len(old)))
    BY <1>1, <1>7, <2>E, FitsMore
  <2>3. /\ Fits(new, E)
        /\ Past(new, Len(new)) = Past(old, Len(old)) \cup Past(done, Len(done))
    BY <2>1, <2>2, FitsJoined
  <2>4. new \in Seq(I)
    BY <1>1, <1>7
  <2>5. QED
    BY <2>3, <2>4, <2>E
<1>9. ASSUME NEW c \in Range(last.targets), last.op \in {"br", "condbr"}
      PROVE  c \in 1 .. Len(blocks) /\ avail[c] \subseteq Past(new, Len(new))
  <2>1. c \in TargetsOf(code)
    BY <1>6 DEF TargetsOf
  <2>2. c \in 1 .. Len(blocks) /\ avail[c] \subseteq A \cup Past(code, Len(code))
    BY <1>2, <1>4, <2>1
  <2>3. \A e \in avail[c] : e.op = "alloca"
    BY <1>4, <2>2 DEF Allocas, Effect
  <2>4. \A e \in Past(code, Len(code)) : e \in Past(done, Len(done)) \/ e.op = "br"
    BY <1>3, <1>4, <1>5, FrontFits
  <2>5. QED
    BY <1>1, <1>8, <2>2, <2>3, <2>4
<1>10. ASSUME NEW c \in {nullptr} \cup (1 .. Len(blocks)), NEW d \in Nat,
             c # nullptr => avail[c] \subseteq Past(new, Len(new))
      PROVE  [block |-> c, taken |-> d, code |-> new] \in Runs(avail, I)
  BY <1>8, <1>10 DEF Runs
<1>y. PICK y : y = [x EXCEPT !.code = @ \o done, !.block = nullptr]
  OBVIOUS
<1>11. y = [block |-> nullptr, taken |-> k, code |-> new]
  BY <1>1, <1>y
<1>12. CASE last.op = "br"
  <2>1. Following(oracle, x) = [y EXCEPT !.block = last.targets[1]]
    BY <1>5, <1>code, <1>b, <1>12, <1>y DEF Following
  <2>2. Following(oracle, x) = [block |-> last.targets[1], taken |-> k, code |-> new]
    BY <1>11, <2>1
  <2>3. last.targets[1] \in Range(last.targets)
    BY <1>4, <1>6, <1>12 DEF Fits
  <2>4. QED
    BY <1>1, <1>I, <1>9, <1>10, <1>12, <2>2, <2>3
<1>13. CASE last.op = "condbr" /\ k < Len(oracle)
  <2> PICK c : c = last.targets[IF oracle[k + 1] THEN 1 ELSE 2]
    OBVIOUS
  <2>1. Following(oracle, x) = [y EXCEPT !.block = c, !.taken = @ + 1]
    BY <1>5, <1>code, <1>b, <1>k, <1>13, <1>y DEF Following
  <2>2. Following(oracle, x) = [block |-> c, taken |-> k + 1, code |-> new]
    BY <1>11, <2>1
  <2>3. last.targets[1] \in Range(last.targets) /\ last.targets[2] \in Range(last.targets)
    BY <1>4, <1>6, <1>13 DEF Fits
  <2>4. c \in Range(last.targets)
    BY <2>3
  <2>5. k + 1 \in Nat
    BY <1>1
  <2>6. QED
    BY <1>I, <1>9, <1>10, <1>13, <2>2, <2>4, <2>5
<1>14. CASE last.op # "br" /\ ~ (last.op = "condbr" /\ k < Len(oracle))
  <2>1. Following(oracle, x) = y
    BY <1>5, <1>code, <1>b, <1>k, <1>14, <1>y DEF Following
  <2>2. QED
    BY <1>1, <1>I, <1>10, <1>11, <2>1
<1>15. QED
  BY <1>12, <1>13, <1>14

LEMMA ExecutedFits ==
  ASSUME IInv, NEW avail, BlocksFit(ast, blocks, avail),
         \A b \in 1 .. Len(blocks) : blocks[b].code # << >>,
         NEW f, Entry(f) \in 1 .. Len(blocks), avail[Entry(f)] = {},
         NEW oracle, Len(oracle) \in Nat
  PROVE  Fits(Executed(f, oracle), {}) /\ DOMAIN Executed(f, oracle) = 1 .. Len(Executed(f, oracle))
<1>N. PICK N : N = (Len(oracle) + 1) * (Len(blocks) + 1)
  OBVIOUS
<1>V. PICK V : V = Runs(avail, Instructions)
  OBVIOUS
<1>x. PICK x : x = [block |-> Entry(f), taken |-> 0, code |-> << >>]
  OBVIOUS
<1> DEFINE Step(g, step) ==
             IF step = 0 THEN x
             ELSE LET y == g[step - 1]
                  IN  IF y.block = nullptr THEN y ELSE Following(oracle, y)
           P(g) == g = [step \in 0 .. N |-> Step(g, step)]
<1>T. PICK T : T = [y \in V |-> IF y.block = nullptr THEN y ELSE Following(oracle, y)]
  OBVIOUS
<1>1. N \in Nat
  <2>1. Len(blocks) \in Nat
    BY BlockFacts
  <2>2. QED
    BY <2>1, <1>N
<1>2. x \in V
  <2>1. << >> \in Seq(Instructions) /\ Fits(<< >>, {})
    BY FitsNothing
  <2>2. QED
    BY <2>1, <1>V, <1>x DEF Runs
<1>3. \A y \in V : (IF y.block = nullptr THEN y ELSE Following(oracle, y)) \in V
  BY <1>V, RunStep
<1>4. T \in [V -> V]
  BY <1>3, <1>T
<1>5. PICK h \in [0 .. N -> V] : \A k \in 0 .. N : h[k] = IF k = 0 THEN x ELSE T[h[k - 1]]
  <2>1. \E h : Iterates(V, x, T, N, h)
    BY <1>1, <1>2, <1>4, Iterated
  <2>2. QED
    BY <2>1 DEF Iterates
<1>6. P(h)
  <2>1. ASSUME NEW k \in 0 .. N PROVE h[k] = Step(h, k)
    <3>1. CASE k = 0
      BY <1>5, <3>1
    <3>2. CASE k # 0
      <4>1. k - 1 \in 0 .. N
        BY <1>1, <3>2
      <4>2. h[k] = T[h[k - 1]] /\ h[k - 1] \in V
        BY <1>5, <3>2, <4>1
      <4>3. QED
        BY <1>T, <3>2, <4>2
    <3>3. QED
      BY <3>1, <3>2
  <2>2. h = [k \in 0 .. N |-> h[k]]
    BY <1>5
  <2>3. QED
    BY <2>1, <2>2
<1>7. Executed(f, oracle) = (CHOOSE g : P(g))[N].code
  BY <1>N, <1>x DEF Executed, Following
<1>8. PICK g : g = CHOOSE w : P(w)
  OBVIOUS
<1>9. P(g)
  BY <1>6, <1>8
<1>10. ASSUME NEW k \in 0 .. N PROVE g[k] = Step(g, k)
  BY <1>9
<1>11. g[N] \in V
  <2> DEFINE Bad == {k \in 0 .. N : g[k] \notin V}
  <2>1. ASSUME Bad # {} PROVE FALSE
    <3>1. Bad \in SUBSET Nat
      BY <1>1
    <3>2. PICK k \in Bad : \A j \in Bad : k <= j
      <4> HIDE DEF Bad
      <4>1. QED
        BY <2>1, <3>1, Least
    <3>3. g[0] = x /\ 0 \in 0 .. N
      BY <1>1, <1>10
    <3>4. k # 0 /\ k \in 0 .. N
      BY <1>2, <3>2, <3>3
    <3>5. k - 1 \in 0 .. N /\ ~ k <= k - 1
      BY <1>1, <3>4
    <3>6. g[k - 1] \in V
      BY <3>2, <3>5
    <3>7. g[k] \in V
      <4>1. g[k] = IF g[k - 1].block = nullptr THEN g[k - 1] ELSE Following(oracle, g[k - 1])
        BY <1>10, <3>4
      <4>2. QED
        BY <1>3, <3>6, <4>1
    <3>8. QED
      BY <3>2, <3>7
  <2>2. QED
    BY <1>1, <2>1
<1>12. Fits(g[N].code, {}) /\ g[N].code \in Seq(Instructions)
  BY <1>11, <1>V DEF Runs
<1>13. QED
  BY <1>7, <1>8, <1>12

(***************************************************************************)
(* The result.                                                             *)
(***************************************************************************)
LEMMA HomesEntered ==
  ASSUME IInv, NEW avail, Computes(avail), Finished, NEW f \in Homes(ast)
  PROVE  Entry(f) \in 1 .. Len(blocks) /\ avail[Entry(f)] = {}
<1>1. PICK home : FinishedBlocks(home)
  BY WhenFinished
<1>2. /\ BlocksFit(ast, blocks, avail) /\ ValuesFit(ast, blocks, ir_value)
      /\ Demand(ast, stack) \subseteq DOMAIN ir_value
  BY DEF Computes, Computing
<1>3. Demand(ast, stack) = Homes(ast)
  BY DEF Finished, Demand
<1>4. PICK b \in 1 .. Len(blocks) : blocks[b].function = f
  BY <1>2, <1>3 DEF ValuesFit
<1>5. \A c \in 1 .. Len(blocks) : blocks[c].function = home[c]
  BY <1>1 DEF FinishedBlocks, PlacedBlock
<1>e. PICK e : e = Entry(f)
  OBVIOUS
<1>6. e \in 1 .. Len(blocks) /\ home[e] = f /\ IsFirst(home, e)
  BY <1>1, <1>4, <1>5, <1>e, EntryIsFirst
<1>7. f # nullptr
  BY BlockFacts, HomesAre
<1>8. avail[e] # {} => \E c \in 1 .. e - 1 : blocks[c].function = f
  BY <1>2, <1>5, <1>6, <1>7 DEF BlocksFit, BlockFits
<1>9. \A c \in 1 .. e - 1 : c \in 1 .. Len(blocks)
  <2>1. Len(blocks) \in Nat
    BY BlockFacts
  <2>2. QED
    BY <1>6, <2>1
<1>10. QED
  BY <1>5, <1>6, <1>8, <1>9, <1>e DEF IsFirst

LEMMA OInvComputed ==
  ASSUME IInv, OInv
  PROVE  OperandsComputed
<1>1. PICK avail : Computes(avail)
  BY DEF OInv
<1>2. ASSUME Finished, NEW f \in FunctionsOf(ast) \cup BuiltinDecls, NEW oracle \in Oracles,
             NEW code, code = Executed(f, oracle), NEW i \in DOMAIN code, NEW x \in Range(code[i].args)
      PROVE  x.needs \subseteq {Effect(code[j].op, code[j].at) : j \in 1 .. i - 1}
  <2>1. f \in Homes(ast)
    BY DEF Homes
  <2>2. Entry(f) \in 1 .. Len(blocks) /\ avail[Entry(f)] = {}
    BY <1>1, <1>2, <2>1, HomesEntered
  <2>3. BlocksFit(ast, blocks, avail)
    BY <1>1 DEF Computes, Computing
  <2>4. \A b \in 1 .. Len(blocks) : blocks[b].code # << >>
    BY <1>2, IInvComplete, BlockFacts DEF BlocksComplete
  <2>5. Len(oracle) \in Nat
    <3>1. oracle \in Seq(BOOLEAN)
      BY DecisionsAssumption DEF Oracles
    <3>2. QED
      BY <3>1
  <2>6. Fits(code, {}) /\ DOMAIN code = 1 .. Len(code)
    BY <1>2, <2>2, <2>3, <2>4, <2>5, ExecutedFits
  <2>7. x.needs \subseteq {} \cup Past(code, i - 1)
    BY <1>2, <2>6 DEF Fits
  <2>8. QED
    BY <2>7 DEF Past
<1>3. QED
  BY <1>2 DEF OperandsComputed

\* No instruction uses a value that is not there: whatever the decisions of a
\* run of the generated code, it has allocated the place and computed the
\* operands when it comes to an instruction that uses them, and the code
\* generator reads no ir_value that it has not set (AST.hpp:168,
\* CodegenVisitor.cpp, all visits).
THEOREM OperandsAreComputed == Spec => []OperandsComputed
<1>1. IInv /\ OInv => OperandsComputed
  BY OInvComputed
<1>2. QED
  BY <1>1, OInvariance, PTL
=============================================================================
