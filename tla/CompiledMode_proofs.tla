-------------------------- MODULE CompiledMode_proofs --------------------------
(***************************************************************************)
(* Theorems about compiler mode, for any syntax trees, any lines and any   *)
(* capacities: the compiler never blames itself, bytecode only grows,      *)
(* instructions are counted, globals keep their slots.                     *)
(***************************************************************************)
EXTENDS Compiler_proofs

-----------------------------------------------------------------------------
(* Lengths of code, added up *)

Coded(parts) == \A k \in 1 .. Len(parts) : Len(parts[k].instructions) \in Nat

(* The sums of the lengths of the first k parts. *)
Sums(parts, f) ==
  f = [k \in 0 .. Len(parts) |->
         IF k = 0 THEN 0 ELSE f[k - 1] + Len(parts[k].instructions)]

(* There is no more than one such function. *)
LEMMA SumsUnique ==
  ASSUME NEW parts, Len(parts) \in Nat, NEW f, Sums(parts, f), NEW g, Sums(parts, g)
  PROVE  f = g
<1> DEFINE T == {k \in 0 .. Len(parts) : f[k] # g[k]}
<1>1. /\ f = [k \in 0 .. Len(parts) |-> f[k]]
      /\ g = [k \in 0 .. Len(parts) |-> g[k]]
      /\ \A k \in 0 .. Len(parts) :
           /\ f[k] = IF k = 0 THEN 0 ELSE f[k - 1] + Len(parts[k].instructions)
           /\ g[k] = IF k = 0 THEN 0 ELSE g[k - 1] + Len(parts[k].instructions)
  BY DEF Sums
<1>2. T = {}
  <2> SUFFICES ASSUME T # {} PROVE FALSE
    OBVIOUS
  <2>1. T \in SUBSET Nat
    OBVIOUS
  <2>2. PICK n \in T : \A m \in T : n <= m
    BY <2>1, LeastOf, Zenon
  <2>3. n # 0
    BY <1>1, <2>2
  <2>4. n - 1 \in 0 .. Len(parts) /\ n - 1 \notin T
    BY <2>2, <2>3
  <2>5. f[n - 1] = g[n - 1]
    BY <2>4
  <2> QED
    BY <1>1, <2>2, <2>3, <2>5, ZenonT(30)
<1>3. \A k \in 0 .. Len(parts) : f[k] = g[k]
  BY <1>2
<1> HIDE DEF T
<1> QED
  BY <1>1, <1>3

(* Of the beginnings of some parts, each has one. *)
LEMMA SumsExist ==
  ASSUME NEW parts, Len(parts) \in Nat, Coded(parts)
  PROVE  \E f : Sums(parts, f) /\ f \in [0 .. Len(parts) -> Nat]
<1> DEFINE first(n, f) ==
             f = [k \in 0 .. n |->
                    IF k = 0 THEN 0 ELSE f[k - 1] + Len(parts[k].instructions)]
           has(n) == \E f \in [0 .. n -> Nat] : first(n, f)
           T == {n \in 0 .. Len(parts) : ~has(n)}
<1>1. T = {}
  <2> SUFFICES ASSUME T # {} PROVE FALSE
    OBVIOUS
  <2>1. T \in SUBSET Nat
    OBVIOUS
  <2>2. PICK n \in T : \A m \in T : n <= m
    BY <2>1, LeastOf, Zenon
  <2>3. CASE n = 0
    <3> DEFINE f == [k \in 0 .. 0 |-> 0]
    <3>1. f \in [0 .. 0 -> Nat]
      OBVIOUS
    <3>2. first(0, f)
      OBVIOUS
    <3> QED
      BY <2>2, <2>3, <3>1, <3>2
  <2>4. CASE n # 0
    <3>1. n - 1 \in 0 .. Len(parts) /\ n - 1 \notin T
      <4> HIDE DEF has
      <4>1. n \in 1 .. Len(parts)
        BY <2>2, <2>4
      <4> HIDE DEF T
      <4> QED
        BY <2>2, <4>1
    <3>2. PICK f \in [0 .. n - 1 -> Nat] : first(n - 1, f)
      <4> HIDE DEF first
      <4> QED
        BY <3>1
    <3> DEFINE g == [k \in 0 .. n |-> IF k = n THEN f[n - 1] + Len(parts[n].instructions)
                                              ELSE f[k]]
    <3>3. n \in 1 .. Len(parts) /\ Len(parts[n].instructions) \in Nat
      BY <2>2, <2>4 DEF Coded
    <3>4. g \in [0 .. n -> Nat]
      BY <3>3
    <3>5. \A k \in 0 .. n - 1 :
            f[k] = IF k = 0 THEN 0 ELSE f[k - 1] + Len(parts[k].instructions)
      BY <3>2
    <3>6. \A k \in 0 .. n :
            g[k] = IF k = 0 THEN 0 ELSE g[k - 1] + Len(parts[k].instructions)
      BY <3>3, <3>5
    <3>7. first(n, g)
      <4>1. g = [k \in 0 .. n |-> g[k]]
        OBVIOUS
      <4> HIDE DEF g
      <4> QED
        BY <3>6, <4>1
    <3> QED
      BY <2>2, <3>4, <3>7
  <2> QED
    BY <2>3, <2>4
<1>2. has(Len(parts))
  BY <1>1
<1> QED
  BY <1>2 DEF Sums

(* The total length is what the sums come to. *)
LEMMA TotalIs ==
  ASSUME NEW parts, Len(parts) \in Nat, Coded(parts)
  PROVE  \E f \in [0 .. Len(parts) -> Nat] :
           Sums(parts, f) /\ TotalLength(parts) = f[Len(parts)]
<1>1. PICK f : Sums(parts, f) /\ f \in [0 .. Len(parts) -> Nat]
  BY SumsExist
<1>2. \A g : Sums(parts, g) => g = f
  BY <1>1, SumsUnique
<1>3. (CHOOSE g : Sums(parts, g)) = f
  BY <1>1, <1>2, Zenon
<1>4. TotalLength(parts) = (CHOOSE g : Sums(parts, g))[Len(parts)]
  BY DEF TotalLength, Sums
<1> QED
  BY <1>1, <1>3, <1>4

(* Parts of the same lengths come to the same total. *)
LEMMA TotalSame ==
  ASSUME NEW parts, NEW others, Len(parts) \in Nat, Coded(parts),
         Len(others) = Len(parts),
         \A k \in 1 .. Len(parts) :
           Len(others[k].instructions) = Len(parts[k].instructions)
  PROVE  TotalLength(others) = TotalLength(parts) /\ TotalLength(parts) \in Nat
<1>1. Coded(others)
  BY DEF Coded
<1>2. PICK f \in [0 .. Len(parts) -> Nat] :
        Sums(parts, f) /\ TotalLength(parts) = f[Len(parts)]
  BY TotalIs
<1>3. PICK g \in [0 .. Len(parts) -> Nat] :
        Sums(others, g) /\ TotalLength(others) = g[Len(parts)]
  BY <1>1, TotalIs
<1>4. Sums(parts, g)
  <2>1. \A k \in 0 .. Len(parts) :
          g[k] = IF k = 0 THEN 0 ELSE g[k - 1] + Len(others[k].instructions)
    BY <1>3 DEF Sums
  <2>2. \A k \in 0 .. Len(parts) :
          g[k] = IF k = 0 THEN 0 ELSE g[k - 1] + Len(parts[k].instructions)
    BY <2>1
  <2>3. g = [k \in 0 .. Len(parts) |-> g[k]]
    OBVIOUS
  <2> QED
    BY <2>2, <2>3 DEF Sums
<1>5. f = g
  BY <1>2, <1>4, SumsUnique
<1> QED
  BY <1>2, <1>3, <1>5

(* One more part adds its length. *)
LEMMA TotalMore ==
  ASSUME NEW parts, NEW more, Len(parts) \in Nat, Len(more) = Len(parts) + 1,
         Coded(more),
         \A k \in 1 .. Len(parts) :
           Len(more[k].instructions) = Len(parts[k].instructions)
  PROVE  /\ TotalLength(more) = TotalLength(parts) + Len(more[Len(more)].instructions)
         /\ TotalLength(parts) \in Nat
         /\ TotalLength(more) \in Nat
<1>1. Coded(parts)
  BY DEF Coded
<1> DEFINE n == Len(parts)
<1>2. PICK f \in [0 .. n -> Nat] : Sums(parts, f) /\ TotalLength(parts) = f[n]
  BY <1>1, TotalIs
<1>3. PICK g \in [0 .. n + 1 -> Nat] : Sums(more, g) /\ TotalLength(more) = g[n + 1]
  BY TotalIs
<1> DEFINE h == [k \in 0 .. n |-> g[k]]
<1>4. \A k \in 0 .. n + 1 :
        g[k] = IF k = 0 THEN 0 ELSE g[k - 1] + Len(more[k].instructions)
  BY <1>3 DEF Sums
<1>5. Sums(parts, h)
  <2>1. \A k \in 0 .. n :
          h[k] = IF k = 0 THEN 0 ELSE h[k - 1] + Len(parts[k].instructions)
    BY <1>4
  <2>2. h = [k \in 0 .. n |-> h[k]]
    OBVIOUS
  <2> HIDE DEF h
  <2> QED
    BY <2>1, <2>2 DEF Sums
<1>6. f = h
  BY <1>2, <1>5, SumsUnique
<1>7. f[n] = g[n]
  BY <1>6
<1>8. g[n + 1] = g[n] + Len(more[n + 1].instructions)
  BY <1>4
<1> QED
  BY <1>2, <1>3, <1>7, <1>8
-----------------------------------------------------------------------------
(* What is to be done *)

(* A task of which a scope can have any number, in any order. *)
Plain(t) == t.do \notin {"FUNCTION", "CLOSURE", "LOAD"}

(* A task of a level finds what it needs: the jump that waits for it in the code,
   a function for what is captured. *)
Fits(code, level, t) ==
  /\ t.do = "ALTERNATIVE" => /\ t.jump_if_false < Len(code)
                             /\ code[t.jump_if_false + 1].op = "JUMP_NOT_TRUTHY"
  /\ t.do = "END_IF" => /\ t.jump_end < Len(code)
                        /\ code[t.jump_end + 1].op = "JUMP"
  /\ t.do = "CAPTURE" => t.level \in 2 .. level

(* Captured values are loaded, and the closure made of them, before all else. *)
Ordered(todo) ==
  \A k \in 1 .. Len(todo) :
    /\ todo[k].do # "FUNCTION"
    /\ todo[k].do \in {"LOAD", "CLOSURE"} => \A j \in 1 .. k - 1 : todo[j].do = "LOAD"

(* The scope around a function waits for it. *)
Waiting(todo) ==
  /\ todo # << >>
  /\ todo[1].do = "FUNCTION"
  /\ \A k \in 2 .. Len(todo) : Plain(todo[k])

Placed(c) ==
  /\ \A l \in 1 .. Level(c) : \A k \in 1 .. Len(c.scopes[l].todo) :
       Fits(c.scopes[l].instructions, l, c.scopes[l].todo[k])
  /\ \A l \in 1 .. Level(c) - 1 : Waiting(c.scopes[l].todo)
  /\ Ordered(Todo(c))

(* Instructions are counted, also those of a function that is not yet one of
   the compiler's. *)
Counted(c) ==
  LET total == TotalLength(c.functions) + TotalLength(c.scopes) IN
  /\ total <= c.instruction_count
  /\ \A k \in 1 .. Len(Todo(c)) :
       Todo(c)[k].do = "CLOSURE" =>
         total + Len(Todo(c)[k].function.instructions) <= c.instruction_count

(* The global table has globals, each with a slot of its own. *)
Globals(c) ==
  LET entries == GlobalEntries(c)
      count == c.scopes[1].definition_count
  IN /\ count <= MaxCompilerSymbols
     /\ \A name \in DOMAIN entries :
          /\ entries[name].scope = "GLOBAL"
          /\ entries[name].index < count
          /\ \A other \in DOMAIN entries \ {name} :
               entries[other].index # entries[name].index

SameGlobals(c, d) ==
  \A name \in DOMAIN GlobalEntries(c) :
    name \in DOMAIN GlobalEntries(d) /\ GlobalEntries(d)[name] = GlobalEntries(c)[name]

(* t is s and more. *)
Longer(s, t) == Len(s) <= Len(t) /\ \A k \in 1 .. Len(s) : t[k] = s[k]

(* d is what c becomes in the same function, with tasks to do first. *)
Moves(c, d, tasks) ==
  /\ d \in Compilers
  /\ ~Failed(d)
  /\ tasks \in Seq(Tasks)
  /\ Level(d) = Level(c)
  /\ \A k \in 1 .. Level(c) - 1 :
       /\ d.scopes[k].instructions = c.scopes[k].instructions
       /\ d.scopes[k].todo = c.scopes[k].todo
  /\ Todo(d) = tasks \o Todo(c)
  /\ \A p \in Nat, op \in JumpOps : JumpAt(c, p, op) => JumpAt(d, p, op)
  /\ Len(Emitted(d)) + c.instruction_count <= Len(Emitted(c)) + d.instruction_count
  /\ Longer(c.constants, d.constants)
  /\ d.functions = c.functions
  /\ Globals(c) => Globals(d) /\ SameGlobals(c, d)

(* What is counted. *)
LEMMA Counts ==
  ASSUME NEW c \in Compilers
  PROVE  /\ c.instruction_count \in Nat
         /\ Emitted(c) \in Seq(Instructions)
         /\ Len(Emitted(c)) \in Nat
<1>1. c.instruction_count \in Nat
  BY CompilerAssumption DEF Compilers
<1>2. Emitted(c) \in Seq(Instructions)
  BY CurrentScope
<1> QED
  BY <1>1, <1>2

(* Moving on from where one moved to. *)
LEMMA MovesTwice ==
  ASSUME NEW c \in Compilers, NEW e, NEW d, NEW first, NEW more,
         Moves(c, e, first), Moves(e, d, more)
  PROVE  Moves(c, d, more \o first)
<1>1. Todo(c) \in Seq(Tasks) /\ c.constants \in Seq(Values)
  BY CurrentScope DEF Compilers
<1>2. e \in Compilers /\ d \in Compilers /\ first \in Seq(Tasks) /\ more \in Seq(Tasks)
  BY DEF Moves
<1>3. e.constants \in Seq(Values) /\ d.constants \in Seq(Values)
  BY <1>2 DEF Compilers
<1>4. Todo(d) = (more \o first) \o Todo(c)
  BY <1>1, <1>2, SMTT(30) DEF Moves
<1>5. Longer(c.constants, d.constants)
  BY <1>1, <1>3, SMTT(30) DEF Moves, Longer
<1>6. Len(Emitted(d)) + c.instruction_count <= Len(Emitted(c)) + d.instruction_count
  <2>1. /\ Len(Emitted(e)) + c.instruction_count <= Len(Emitted(c)) + e.instruction_count
        /\ Len(Emitted(d)) + e.instruction_count <= Len(Emitted(e)) + d.instruction_count
    BY DEF Moves
  <2>2. /\ c.instruction_count \in Nat /\ Len(Emitted(c)) \in Nat
        /\ e.instruction_count \in Nat /\ Len(Emitted(e)) \in Nat
        /\ d.instruction_count \in Nat /\ Len(Emitted(d)) \in Nat
    BY <1>2, Counts
  <2> QED
    BY <2>1, <2>2, SMTT(30)
<1>7. Globals(c) => Globals(d) /\ SameGlobals(c, d)
  BY DEF Moves, SameGlobals
<1>8. \A p \in Nat, op \in JumpOps : JumpAt(c, p, op) => JumpAt(d, p, op)
  BY DEF Moves
<1>9. /\ Level(d) = Level(c)
      /\ \A k \in 1 .. Level(c) - 1 :
           /\ d.scopes[k].instructions = c.scopes[k].instructions
           /\ d.scopes[k].todo = c.scopes[k].todo
  BY DEF Moves
<1>10. d.functions = c.functions /\ ~Failed(d)
  BY DEF Moves
<1>11. more \o first \in Seq(Tasks)
  BY <1>2
<1> QED
  BY <1>2, <1>4, <1>5, <1>6, <1>7, <1>8, <1>9, <1>10, <1>11 DEF Moves

(* Where no name is defined, the globals stay. *)
LEMMA GlobalsStay ==
  ASSUME NEW c \in Compilers, NEW d, SameBelow(c, d), SameNames(c, d)
  PROVE  Globals(c) => Globals(d) /\ SameGlobals(c, d)
<1>1. /\ GlobalEntries(d) = GlobalEntries(c)
      /\ d.scopes[1].definition_count = c.scopes[1].definition_count
  <2>1. CASE Level(c) = 1
    BY <2>1, CurrentScope DEF SameBelow, SameNames, GlobalEntries, Scope
  <2>2. CASE Level(c) # 1
    BY <2>2, CurrentScope DEF SameBelow, GlobalEntries
  <2> QED
    BY <2>1, <2>2
<1> QED
  BY <1>1 DEF Globals, SameGlobals

(* A step in the current scope that defines no name. *)
LEMMA MovesHere ==
  ASSUME NEW c \in Compilers, NEW d \in Compilers, ~Failed(d), NEW tasks \in Seq(Tasks),
         SameBelow(c, d), SameNames(c, d), Todo(d) = tasks \o Todo(c),
         \A p \in Nat, op \in JumpOps : JumpAt(c, p, op) => JumpAt(d, p, op),
         Len(Emitted(d)) + c.instruction_count <= Len(Emitted(c)) + d.instruction_count,
         Longer(c.constants, d.constants), d.functions = c.functions
  PROVE  Moves(c, d, tasks)
<1>1. Globals(c) => Globals(d) /\ SameGlobals(c, d)
  BY GlobalsStay
<1> QED
  BY <1>1 DEF Moves, SameBelow

(* Nothing to do first. *)
LEMMA NoTasks ==
  ASSUME NEW c \in Compilers
  PROVE  << >> \in Seq(Tasks) /\ Todo(c) = << >> \o Todo(c)
BY CurrentScope

(* What a sequence is made of, it is still made of. *)
LEMMA LongerSelf ==
  \A S : \A s \in Seq(S) : Longer(s, s)
BY DEF Longer

(* Asking for tasks. *)
LEMMA AsksMoves ==
  ASSUME NEW c \in Compilers, NEW d, NEW tasks, Asks(c, d, tasks)
  PROVE  Moves(c, d, tasks)
<1>1. d \in Compilers /\ ~Failed(d) /\ tasks \in Seq(Tasks)
  BY DEF Asks
<1>2. Longer(c.constants, d.constants) /\ d.functions = c.functions
  BY DEF Asks, SameBytecode, Longer, Compilers
<1>3. SameBelow(c, d) /\ SameNames(c, d) /\ Todo(d) = tasks \o Todo(c)
  BY DEF Asks
<1>4. Emitted(d) = Emitted(c) /\ d.instruction_count = c.instruction_count
  BY DEF Asks, SameCode
<1>5. \A p \in Nat, op \in JumpOps : JumpAt(c, p, op) => JumpAt(d, p, op)
  BY <1>4 DEF JumpAt
<1>6. Len(Emitted(d)) + c.instruction_count <= Len(Emitted(c)) + d.instruction_count
  BY <1>4, Counts
<1> QED
  BY <1>1, <1>2, <1>3, <1>5, <1>6, MovesHere

(* Emitting an instruction. *)
LEMMA EmitsMoves ==
  ASSUME NEW c \in Compilers, NEW d, NEW op, NEW operand, NEW operand2,
         Emits(c, d, op, operand, operand2)
  PROVE  Moves(c, d, << >>)
<1>1. d \in Compilers /\ ~Failed(d) /\ << >> \in Seq(Tasks)
  BY DEF Emits
<1>2. Longer(c.constants, d.constants) /\ d.functions = c.functions
  BY DEF Emits, SameBytecode, Longer, Compilers
<1>3. SameBelow(c, d) /\ SameNames(c, d) /\ Todo(d) = << >> \o Todo(c)
  BY NoTasks DEF Emits
<1>4. /\ Emitted(d) = Append(Emitted(c), Instr(op, operand, operand2))
      /\ d.instruction_count = c.instruction_count + 1
  BY DEF Emits
<1>5. Emitted(c) \in Seq(Instructions) /\ c.instruction_count \in Nat
  BY CurrentScope, CompilerAssumption DEF Compilers
<1>6. \A p \in Nat, o \in JumpOps : JumpAt(c, p, o) => JumpAt(d, p, o)
  BY <1>4, <1>5 DEF JumpAt
<1>7. Len(Emitted(d)) + c.instruction_count <= Len(Emitted(c)) + d.instruction_count
  BY <1>4, <1>5
<1> QED
  BY <1>1, <1>2, <1>3, <1>6, <1>7, MovesHere

(* The end of a branch. *)
LEMMA BranchMoves ==
  ASSUME NEW c \in Compilers, ~Failed(c), NEW e, Branch(c, e)
  PROVE  Moves(c, e, << >>)
<1>1. CASE LastIs(c, "RETURN_VALUE") /\ e = c
  <2>1. \A p \in Nat, o \in JumpOps : JumpAt(c, p, o) => JumpAt(e, p, o)
    BY <1>1
  <2>2. Len(Emitted(e)) + c.instruction_count <= Len(Emitted(c)) + e.instruction_count
    BY <1>1, Counts
  <2>3. Longer(c.constants, c.constants)
    BY DEF Longer, Compilers
  <2>4. SameBelow(c, e) /\ SameNames(c, e) /\ Todo(e) = << >> \o Todo(c)
    BY <1>1, NoTasks DEF SameBelow, SameNames
  <2> QED
    BY <1>1, <2>1, <2>2, <2>3, <2>4, NoTasks, MovesHere
<1>2. CASE LastIs(c, "POP") /\ Removes(c, e)
  <2>1. \A p \in Nat, o \in JumpOps : JumpAt(c, p, o) => JumpAt(e, p, o)
    BY JumpStays
  <2>2. Len(Emitted(e)) + c.instruction_count <= Len(Emitted(c)) + e.instruction_count
    BY <1>2, Counts DEF Removes
  <2>3. Longer(c.constants, e.constants) /\ e.functions = c.functions
    BY <1>2 DEF Longer, Compilers, Removes, SameBytecode
  <2>4. SameBelow(c, e) /\ SameNames(c, e) /\ Todo(e) = << >> \o Todo(c)
    BY <1>2, NoTasks DEF Removes
  <2>5. e \in Compilers /\ ~Failed(e)
    BY <1>2 DEF Removes
  <2> QED
    BY <2>1, <2>2, <2>3, <2>4, <2>5, NoTasks, MovesHere
<1>3. CASE Emits(c, e, "NULL", 0, 0)
  BY <1>3, EmitsMoves
<1> QED
  BY <1>1, <1>2, <1>3 DEF Branch

(* A jump that gets its target is still a jump. *)
LEMMA PatchesMoves ==
  ASSUME NEW c \in Compilers, ~Failed(c), NEW d, NEW q \in Nat, Patches(c, d, q)
  PROVE  Moves(c, d, << >>)
<1>1. /\ d \in Compilers /\ ~Failed(d) /\ q < Len(Emitted(c))
      /\ Len(Emitted(d)) = Len(Emitted(c))
      /\ \A k \in 1 .. Len(Emitted(c)) : k # q + 1 => Emitted(d)[k] = Emitted(c)[k]
      /\ Emitted(d)[q + 1] = [Emitted(c)[q + 1] EXCEPT !.operand = Len(Emitted(c))]
      /\ d.instruction_count = c.instruction_count
  BY DEF Patches
<1>2. Emitted(c) \in Seq(Instructions) /\ c.instruction_count \in Nat
  BY Counts
<1>3. Emitted(c)[q + 1] \in Instructions
  BY <1>1, <1>2
<1>4. Emitted(d)[q + 1].op = Emitted(c)[q + 1].op
  BY <1>1, <1>3 DEF Instructions
<1>5. \A p \in Nat, o \in JumpOps : JumpAt(c, p, o) => JumpAt(d, p, o)
  <2> SUFFICES ASSUME NEW p \in Nat, NEW o \in JumpOps, JumpAt(c, p, o)
               PROVE  JumpAt(d, p, o)
    OBVIOUS
  <2>1. CASE p = q
    BY <1>1, <1>4, <2>1 DEF JumpAt
  <2>2. CASE p # q
    <3>1. p + 1 \in 1 .. Len(Emitted(c)) /\ p + 1 # q + 1
      BY <1>2, <2>2 DEF JumpAt
    <3> QED
      BY <1>1, <3>1 DEF JumpAt
  <2> QED
    BY <2>1, <2>2
<1>6. Longer(c.constants, d.constants) /\ d.functions = c.functions
  BY DEF Patches, SameBytecode, Longer, Compilers
<1>7. SameBelow(c, d) /\ SameNames(c, d) /\ Todo(d) = << >> \o Todo(c)
  BY NoTasks DEF Patches
<1>8. Len(Emitted(d)) + c.instruction_count <= Len(Emitted(c)) + d.instruction_count
  BY <1>1, <1>2
<1> QED
  BY <1>1, <1>5, <1>6, <1>7, <1>8, NoTasks, MovesHere

(* The end of a body. *)
LEMMA BodyMoves ==
  ASSUME NEW c \in Compilers, ~Failed(c), NEW e, Body(c, e)
  PROVE  Moves(c, e, << >>)
<1> DEFINE n == Len(Emitted(c))
<1>1. Emitted(c) \in Seq(Instructions) /\ c.instruction_count \in Nat
  BY CurrentScope, CompilerAssumption DEF Compilers
<1>2. CASE e = c
  <2>1. Longer(c.constants, c.constants)
    BY DEF Longer, Compilers
  <2>2. SameBelow(c, e) /\ SameNames(c, e) /\ Todo(e) = << >> \o Todo(c)
    BY <1>2, NoTasks DEF SameBelow, SameNames
  <2>3. Len(Emitted(e)) + c.instruction_count <= Len(Emitted(c)) + e.instruction_count
    BY <1>1, <1>2
  <2> QED
    BY <1>2, <2>1, <2>2, <2>3, NoTasks, MovesHere
<1>3. CASE Emits(c, e, "RETURN", 0, 0)
  BY <1>3, EmitsMoves
<1>4. CASE /\ LastIs(c, "POP")
           /\ e \in Compilers
           /\ ~Failed(e)
           /\ SameBytecode(c, e)
           /\ Emitted(c) # << >>
           /\ Len(Emitted(e)) = n
           /\ \A k \in 1 .. n - 1 : Emitted(e)[k] = Emitted(c)[k]
           /\ e.instruction_count = c.instruction_count
  <2>1. Emitted(c)[n].op = "POP"
    BY <1>1, <1>4, FrontIs DEF LastIs
  <2>2. \A p \in Nat, o \in JumpOps : JumpAt(c, p, o) => JumpAt(e, p, o)
    <3> SUFFICES ASSUME NEW p \in Nat, NEW o \in JumpOps, JumpAt(c, p, o)
                 PROVE  JumpAt(e, p, o)
      OBVIOUS
    <3>1. p + 1 # n
      BY <2>1 DEF JumpAt, JumpOps
    <3>2. p + 1 \in 1 .. n - 1
      BY <1>1, <3>1 DEF JumpAt
    <3> QED
      BY <1>4, <3>2 DEF JumpAt
  <2>3. Longer(c.constants, e.constants) /\ e.functions = c.functions
    BY <1>4 DEF SameBytecode, Longer, Compilers
  <2>4. SameBelow(c, e) /\ SameNames(c, e) /\ Todo(e) = << >> \o Todo(c)
    BY BodyKeeps, NoTasks
  <2>5. Len(Emitted(e)) + c.instruction_count <= Len(Emitted(c)) + e.instruction_count
    BY <1>1, <1>4
  <2> QED
    BY <1>4, <2>2, <2>3, <2>4, <2>5, NoTasks, MovesHere
<1> QED
  BY <1>2, <1>3, <1>4 DEF Body

(* Another constant. *)
LEMMA AddsMoves ==
  ASSUME NEW c \in Compilers, ~Failed(c), NEW e, NEW value, Adds(c, e, value)
  PROVE  Moves(c, e, << >>)
<1>1. /\ e \in Compilers /\ ~Failed(e) /\ e.scopes = c.scopes
      /\ e.functions = c.functions
      /\ e.constants = Append(c.constants, value)
      /\ e.instruction_count = c.instruction_count
  BY DEF Adds
<1>2. /\ SameBelow(c, e) /\ SameNames(c, e)
      /\ Emitted(e) = Emitted(c) /\ Todo(e) = << >> \o Todo(c)
  BY <1>1, SameScopes, NoTasks
<1>3. Longer(c.constants, e.constants)
  BY <1>1 DEF Longer, Compilers
<1>4. \A p \in Nat, o \in JumpOps : JumpAt(c, p, o) => JumpAt(e, p, o)
  BY <1>2 DEF JumpAt
<1>5. Len(Emitted(e)) + c.instruction_count <= Len(Emitted(c)) + e.instruction_count
  BY <1>1, <1>2, Counts
<1> QED
  BY <1>1, <1>2, <1>3, <1>4, <1>5, NoTasks, MovesHere

(* A name is defined. *)
LEMMA DefinesMoves ==
  ASSUME NEW c \in Compilers, ~Failed(c), NEW d, NEW name \in STRING,
         Defines(c, d, name)
  PROVE  Moves(c, d, << >>)
<1> DEFINE count == Scope(c).definition_count
           symbol == [scope |-> ScopeOf(Level(c)), index |-> count]
<1>1. CASE d = c
  <2>1. SameBelow(c, d) /\ SameNames(c, d) /\ Todo(d) = << >> \o Todo(c)
    BY <1>1, NoTasks DEF SameBelow, SameNames
  <2>2. Longer(c.constants, c.constants)
    BY DEF Longer, Compilers
  <2>3. Len(Emitted(d)) + c.instruction_count <= Len(Emitted(c)) + d.instruction_count
    BY <1>1, Counts
  <2> QED
    BY <1>1, <2>1, <2>2, <2>3, NoTasks, MovesHere
<1>2. CASE /\ ~Known(c, name)
           /\ d \in Compilers
           /\ ~Failed(d)
           /\ SameBelow(c, d)
           /\ SameCode(c, d)
           /\ SameBytecode(c, d)
           /\ Todo(d) = Todo(c)
           /\ Scope(d).entries = Put(Scope(c).entries, name, symbol)
           /\ Scope(d).definition_count = count + 1
           /\ Level(c) = 1 => count < MaxCompilerSymbols
  <2>1. Emitted(d) = Emitted(c) /\ d.instruction_count = c.instruction_count
    BY <1>2 DEF SameCode
  <2>2. \A p \in Nat, o \in JumpOps : JumpAt(c, p, o) => JumpAt(d, p, o)
    BY <2>1 DEF JumpAt
  <2>3. Len(Emitted(d)) + c.instruction_count <= Len(Emitted(c)) + d.instruction_count
    BY <2>1, Counts
  <2>4. Longer(c.constants, d.constants) /\ d.functions = c.functions
    BY <1>2 DEF SameBytecode, Longer, Compilers
  <2>5. Globals(c) => Globals(d) /\ SameGlobals(c, d)
    <3>1. CASE Level(c) # 1
      <4>1. d.scopes[1] = c.scopes[1]
        BY <1>2, <3>1, CurrentScope DEF SameBelow
      <4> QED
        BY <4>1 DEF Globals, SameGlobals, GlobalEntries
    <3>2. CASE Level(c) = 1
      <4> SUFFICES ASSUME Globals(c)
                   PROVE  Globals(d) /\ SameGlobals(c, d)
        OBVIOUS
      <4>1. Level(d) = 1
        BY <1>2, <3>2 DEF SameBelow
      <4> DEFINE old == GlobalEntries(c)
                 new == GlobalEntries(d)
      <4>2. old = Scope(c).entries /\ new = Scope(d).entries
        BY <3>2, <4>1 DEF GlobalEntries, Scope
      <4>3. /\ c.scopes[1].definition_count = count
            /\ d.scopes[1].definition_count = count + 1
        BY <1>2, <3>2, <4>1 DEF Scope
      <4>4. old \in Tables /\ count \in Nat
        BY <4>2, <4>3, <3>2, OpenScope, CurrentScope
      <4>5. symbol.scope = "GLOBAL" /\ symbol.index = count /\ symbol \in Symbols
        BY <3>2, <4>4 DEF ScopeOf, Symbols
      <4>6. name \notin DOMAIN old
        <5>1. \A n \in DOMAIN old : old[n].scope = "GLOBAL"
          BY DEF Globals
        <5> QED
          BY <1>2, <4>2, <5>1 DEF Known
      <4>7. new = Put(old, name, symbol)
        BY <1>2, <4>2
      <4> HIDE DEF symbol
      <4>8. /\ DOMAIN new = DOMAIN old \union {name}
            /\ new[name] = symbol
            /\ \A other \in DOMAIN old : new[other] = old[other]
        <5>1. /\ DOMAIN Put(old, name, symbol) = DOMAIN old \union {name}
              /\ Put(old, name, symbol)[name] = symbol
              /\ \A other \in DOMAIN old :
                   other # name => Put(old, name, symbol)[other] = old[other]
          <6> HIDE DEF old
          <6>1. old \in Tables /\ symbol \in Symbols /\ name \in STRING
            BY <4>4, <4>5
          <6> QED
            BY <6>1, TableWith, ZenonT(30)
        <5> QED
          BY <4>6, <4>7, <5>1
      <4> HIDE DEF old, new, count
      <4>9. \A n \in DOMAIN old : /\ old[n].scope = "GLOBAL"
                                  /\ old[n].index < count
                                  /\ old[n].index \in Nat
        BY <4>3, <4>4, TableIs DEF Globals, old, Symbols
      <4>10. \A n \in DOMAIN old : \A m \in DOMAIN old \ {n} :
               old[m].index # old[n].index
        BY DEF Globals, old
      <4>11. \A n \in DOMAIN new : new[n].scope = "GLOBAL" /\ new[n].index < count + 1
        BY <4>4, <4>5, <4>8, <4>9
      <4>12. \A n \in DOMAIN new : \A m \in DOMAIN new \ {n} : new[m].index # new[n].index
        <5> SUFFICES ASSUME NEW n \in DOMAIN new, NEW m \in DOMAIN new \ {n}
                     PROVE  new[m].index # new[n].index
          OBVIOUS
        <5>1. CASE n = name
          BY <4>4, <4>5, <4>8, <4>9, <5>1
        <5>2. CASE m = name
          BY <4>4, <4>5, <4>8, <4>9, <5>2
        <5>3. CASE n # name /\ m # name
          BY <4>8, <4>10, <5>3
        <5> QED
          BY <5>1, <5>2, <5>3
      <4>13. count + 1 <= MaxCompilerSymbols
        BY <1>2, <3>2, <4>4, CompilerAssumption DEF count
      <4>14. Globals(d)
        BY <4>3, <4>11, <4>12, <4>13 DEF Globals, new
      <4> QED
        BY <4>8, <4>14 DEF SameGlobals, old, new
    <3> QED
      BY <3>1, <3>2
  <2>6. /\ Level(d) = Level(c)
        /\ \A k \in 1 .. Level(c) - 1 :
             /\ d.scopes[k].instructions = c.scopes[k].instructions
             /\ d.scopes[k].todo = c.scopes[k].todo
    BY <1>2 DEF SameBelow
  <2>7. Todo(d) = << >> \o Todo(c)
    BY <1>2, NoTasks
  <2> QED
    BY <1>2, <2>2, <2>3, <2>4, <2>5, <2>6, <2>7, NoTasks DEF Moves
<1> QED
  BY <1>1, <1>2 DEF Defines

(* A function captures a symbol: the code and the globals stay. *)
LEMMA CapturesMoves ==
  ASSUME NEW c \in Compilers, ~Failed(c), NEW e, NEW l \in 2 .. Level(c), NEW name,
         NEW original, Captures(c, e, l, name, original)
  PROVE  Moves(c, e, << >>)
<1>1. /\ e \in Compilers /\ ~Failed(e) /\ Level(e) = Level(c)
      /\ \A k \in 1 .. Level(c) : k # l => e.scopes[k] = c.scopes[k]
      /\ Emitted(e) = Emitted(c) /\ e.instruction_count = c.instruction_count
      /\ e.constants = c.constants /\ e.functions = c.functions
      /\ Todo(e) = Todo(c)
      /\ e.scopes[l].instructions = c.scopes[l].instructions
      /\ e.scopes[l].todo = c.scopes[l].todo
  BY DEF Captures, SameCode, SameBytecode
<1>2. e.scopes[1] = c.scopes[1]
  BY <1>1, CurrentScope
<1>3. Globals(c) => Globals(e) /\ SameGlobals(c, e)
  BY <1>2 DEF Globals, SameGlobals, GlobalEntries
<1>4. \A p \in Nat, o \in JumpOps : JumpAt(c, p, o) => JumpAt(e, p, o)
  BY <1>1 DEF JumpAt
<1>5. Len(Emitted(e)) + c.instruction_count <= Len(Emitted(c)) + e.instruction_count
  BY <1>1, Counts
<1>6. Longer(c.constants, e.constants)
  BY <1>1 DEF Longer, Compilers
<1>7. \A k \in 1 .. Level(c) - 1 :
        /\ e.scopes[k].instructions = c.scopes[k].instructions
        /\ e.scopes[k].todo = c.scopes[k].todo
  <2> SUFFICES ASSUME NEW k \in 1 .. Level(c) - 1
               PROVE  /\ e.scopes[k].instructions = c.scopes[k].instructions
                      /\ e.scopes[k].todo = c.scopes[k].todo
    OBVIOUS
  <2>1. k \in 1 .. Level(c)
    BY CurrentScope
  <2>2. CASE k = l
    BY <1>1, <2>2
  <2>3. CASE k # l
    BY <1>1, <2>1, <2>3
  <2> QED
    BY <2>2, <2>3
<1>8. Todo(e) = << >> \o Todo(c)
  BY <1>1, NoTasks
<1> QED
  BY <1>1, <1>3, <1>4, <1>5, <1>6, <1>7, <1>8, NoTasks DEF Moves

-----------------------------------------------------------------------------
(* What each kind of task moves to *)

(* Tasks that the scope there is finds what it needs for. *)
Right(d, tasks) ==
  \A k \in 1 .. Len(tasks) : Plain(tasks[k]) /\ Fits(Emitted(d), Level(d), tasks[k])

Goes(c, d) == \E tasks : Moves(c, d, tasks) /\ Right(d, tasks)

(* Tasks that need nothing. *)
Easy(t) == t.do \in {"STATEMENT", "LET", "STORE", "EXPRESSION", "LEAVE", "EMIT",
                     "CONSEQUENCE", "ARGUMENTS", "DEFINE"}

(* What is easy fits anywhere. *)
LEMMA EasyFits == \A t, code, l : Easy(t) => Plain(t) /\ Fits(code, l, t)
BY DEF Easy, Plain, Fits

(* Moving on without anything to do first. *)
LEMMA JustGoes ==
  ASSUME NEW c, NEW d, Moves(c, d, << >>)
  PROVE  Goes(c, d)
BY DEF Goes, Right

(* Moving, then asking for easy tasks. *)
LEMMA GoesAsking ==
  ASSUME NEW c \in Compilers, NEW e \in Compilers, NEW d, NEW tasks,
         Moves(c, e, << >>), Asks(e, d, tasks),
         \A k \in 1 .. Len(tasks) : Easy(tasks[k])
  PROVE  Goes(c, d)
<1>1. Moves(c, d, tasks \o << >>)
  BY AsksMoves, MovesTwice
<1>2. tasks \o << >> = tasks
  BY DEF Asks
<1>3. Right(d, tasks)
  BY EasyFits DEF Right
<1> QED
  BY <1>1, <1>2, <1>3 DEF Goes

(* Staying is moving, with nothing to do first. *)
LEMMA Stays ==
  ASSUME NEW c \in Compilers, ~Failed(c)
  PROVE  Moves(c, c, << >>)
<1>1. SameBelow(c, c) /\ SameNames(c, c) /\ Todo(c) = << >> \o Todo(c)
  BY NoTasks DEF SameBelow, SameNames
<1>2. Longer(c.constants, c.constants)
  BY DEF Longer, Compilers
<1>3. Len(Emitted(c)) + c.instruction_count <= Len(Emitted(c)) + c.instruction_count
  BY Counts
<1> QED
  BY <1>1, <1>2, <1>3, NoTasks, MovesHere

(* Asking for easy tasks. *)
LEMMA JustAsks ==
  ASSUME NEW c \in Compilers, ~Failed(c), NEW d, NEW tasks, Asks(c, d, tasks),
         \A k \in 1 .. Len(tasks) : Easy(tasks[k])
  PROVE  Goes(c, d)
BY Stays, GoesAsking

(* A statement. *)
LEMMA StatementGoes ==
  ASSUME NEW c \in Compilers, ~Failed(c), NEW stmt \in Stmts
  PROVE  LET d == CompileStatement(c, stmt) IN Stops(d) \/ Goes(c, d)
<1> DEFINE d == CompileStatement(c, stmt)
<1> SUFFICES ASSUME ~Stops(d)
             PROVE  Goes(c, d)
  OBVIOUS
<1>1. CASE \E e \in Compilers :
             /\ stmt.name \in STRING
             /\ Defines(c, e, stmt.name)
             /\ Asks(e, d, <<Evaluation(stmt.value, stmt.name),
                             Store(SymbolOf(e, stmt.name))>>)
  <2>1. PICK e \in Compilers :
             /\ stmt.name \in STRING
             /\ Defines(c, e, stmt.name)
             /\ Asks(e, d, <<Evaluation(stmt.value, stmt.name),
                             Store(SymbolOf(e, stmt.name))>>)
    BY <1>1
  <2>2. Moves(c, e, << >>)
    BY <2>1, DefinesMoves
  <2> DEFINE tasks == <<Evaluation(stmt.value, stmt.name), Store(SymbolOf(e, stmt.name))>>
  <2>3. \A k \in 1 .. Len(tasks) : Easy(tasks[k])
    BY DEF Easy, Evaluation, Store
  <2> HIDE DEF tasks, d
  <2> QED
    BY <2>1, <2>2, <2>3, GoesAsking DEF tasks
<1>2. CASE \E t : /\ Easy(t)
                  /\ Asks(c, d, <<Evaluation(stmt.value, NoName), t>>)
  <2>1. PICK t : Easy(t) /\ Asks(c, d, <<Evaluation(stmt.value, NoName), t>>)
    BY <1>2
  <2> DEFINE tasks == <<Evaluation(stmt.value, NoName), t>>
  <2>2. \A k \in 1 .. Len(tasks) : Easy(tasks[k])
    BY <2>1 DEF Easy, Evaluation
  <2> HIDE DEF tasks, d
  <2> QED
    BY <2>1, <2>2, JustAsks DEF tasks
<1>3. /\ Easy([do |-> "LET", name |-> stmt.name])
      /\ Easy(Emission("RETURN_VALUE", 0))
      /\ Easy(Emission("POP", 0))
  BY DEF Easy, Emission
<1> HIDE DEF d
<1>4. \/ \E e \in Compilers :
           /\ stmt.name \in STRING
           /\ Defines(c, e, stmt.name)
           /\ Asks(e, d, <<Evaluation(stmt.value, stmt.name),
                           Store(SymbolOf(e, stmt.name))>>)
      \/ Asks(c, d, <<Evaluation(stmt.value, NoName),
                      [do |-> "LET", name |-> stmt.name]>>)
      \/ Asks(c, d, <<Evaluation(stmt.value, NoName), Emission("RETURN_VALUE", 0)>>)
      \/ Asks(c, d, <<Evaluation(stmt.value, NoName), Emission("POP", 0)>>)
  BY StatementIs, Zenon DEF d
<1> QED
  BY <1>1, <1>2, <1>3, <1>4

(* The name of a let. *)
LEMMA LetGoes ==
  ASSUME NEW c \in Compilers, ~Failed(c), NEW name \in STRING
  PROVE  LET d == CompileLet(c, name) IN Stops(d) \/ Goes(c, d)
<1> DEFINE d == CompileLet(c, name)
<1>1. \/ Stops(d)
      \/ \E e \in Compilers :
           /\ Defines(c, e, name)
           /\ Emits(e, d, StoreOp(SymbolOf(e, name)), SymbolOf(e, name).index, 0)
  BY LetIs, Zenon
<1> HIDE DEF d
<1> SUFFICES ASSUME NEW e \in Compilers, Defines(c, e, name),
                    Emits(e, d, StoreOp(SymbolOf(e, name)), SymbolOf(e, name).index, 0)
             PROVE  Goes(c, d)
  BY <1>1 DEF d
<1>2. Moves(c, e, << >>) /\ Moves(e, d, << >>)
  BY DefinesMoves, EmitsMoves
<1>3. Moves(c, d, << >> \o << >>)
  BY <1>2, MovesTwice
<1> QED
  BY <1>3, JustGoes

(* A symbol loaded or stored. *)
LEMMA SymbolGoes ==
  ASSUME NEW c \in Compilers, ~Failed(c), NEW symbol \in Symbols
  PROVE  /\ Stops(StoreSymbol(c, symbol)) \/ Goes(c, StoreSymbol(c, symbol))
         /\ \/ Stops(LoadSymbol(c, symbol))
            \/ Moves(c, LoadSymbol(c, symbol), << >>)
BY SymbolMoved, EmitsMoves, JustGoes

(* An instruction. *)
LEMMA EmitGoes ==
  ASSUME NEW c \in Compilers, ~Failed(c), NEW op \in OpCodes, NEW operand \in Nat
  PROVE  Stops(Emit(c, op, operand, 0)) \/ Goes(c, Emit(c, op, operand, 0))
<1>1. \/ Stops(Emit(c, op, operand, 0))
      \/ Emits(c, Emit(c, op, operand, 0), op, operand, 0)
  BY EmitEmits
<1> QED
  BY <1>1, EmitsMoves, JustGoes

(* The way out of an expression. *)
LEMMA LeaveGoes ==
  ASSUME NEW c \in Compilers, ~Failed(c)
  PROVE  Goes(c, LeaveExpression(c))
BY ExpressionLeft, AsksMoves, JustGoes

(* A parameter. *)
LEMMA DefineGoes ==
  ASSUME NEW c \in Compilers, ~Failed(c), NEW name \in STRING
  PROVE  Stops(DefineSymbol(c, name)) \/ Goes(c, DefineSymbol(c, name))
<1>1. Stops(DefineSymbol(c, name)) \/ Defines(c, DefineSymbol(c, name), name)
  BY DefinedIs, Zenon
<1> QED
  BY <1>1, DefinesMoves, JustGoes

(* What a name was found to be: it is loaded, or captured further in. *)
LEMMA ResolvesGoes ==
  ASSUME NEW c \in Compilers, NEW e \in Compilers, Moves(c, e, << >>), NEW d, NEW name,
         NEW l \in 1 .. Level(c), NEW symbol, Resolves(e, d, name, l, symbol)
  PROVE  Goes(c, d)
<1>1. CASE Emits(e, d, LoadOp(symbol), symbol.index, 0)
  <2>1. Moves(c, d, << >> \o << >>)
    BY <1>1, EmitsMoves, MovesTwice
  <2> QED
    BY <2>1, JustGoes
<1>2. CASE l < Level(e) /\ Asks(e, d, <<CAPTURE(name, l + 1, symbol)>>)
  <2> DEFINE tasks == <<CAPTURE(name, l + 1, symbol)>>
  <2>1. Moves(c, d, tasks \o << >>)
    BY <1>2, AsksMoves, MovesTwice
  <2>2. tasks \o << >> = tasks
    BY <1>2 DEF Asks
  <2>3. Level(d) = Level(e) /\ Level(e) \in Nat
    BY <1>2, CurrentScope DEF Asks, SameBelow
  <2>4. Right(d, tasks)
    BY <1>2, <2>3 DEF Right, Plain, Fits, CAPTURE
  <2> HIDE DEF tasks
  <2> QED
    BY <2>1, <2>2, <2>4 DEF Goes
<1> QED
  BY <1>1, <1>2 DEF Resolves

(* A function captures a symbol. *)
LEMMA CaptureGoes ==
  ASSUME NEW c \in Compilers, ~Failed(c), NEW name \in STRING, NEW symbol \in Symbols,
         NEW l \in 2 .. Level(c)
  PROVE  LET d == Capture(c, name, l, symbol) IN Stops(d) \/ Goes(c, d)
<1> DEFINE d == Capture(c, name, l, symbol)
<1>1. l \in 1 .. Level(c)
  BY CurrentScope
<1>2. \/ Stops(d)
      \/ \E e \in Compilers : /\ Captures(c, e, l, name, symbol)
                              /\ Resolves(e, d, name, l, FreeSymbol(c, l))
  BY <1>1, CaptureIs, Zenon
<1> HIDE DEF d
<1> SUFFICES ASSUME NEW e \in Compilers, Captures(c, e, l, name, symbol),
                    Resolves(e, d, name, l, FreeSymbol(c, l))
             PROVE  Goes(c, d)
  BY <1>2 DEF d
<1>3. Moves(c, e, << >>)
  BY CapturesMoves
<1> QED
  BY <1>1, <1>3, ResolvesGoes

(* The condition of an if is compiled. *)
LEMMA ConsequenceGoes ==
  ASSUME NEW c \in Compilers, ~Failed(c), NEW yes \in Seq(Stmts), NEW no \in Seq(Stmts)
  PROVE  LET d == CompileConsequence(c, yes, no) IN Stops(d) \/ Goes(c, d)
<1> DEFINE d == CompileConsequence(c, yes, no)
           tasks == Append(Statements(yes), ALTERNATIVE(no, Len(Emitted(c))))
<1>1. \/ Stops(d)
      \/ \E e \in Compilers : /\ Emits(c, e, "JUMP_NOT_TRUTHY", Unpatched, 0)
                              /\ Asks(e, d, tasks)
  BY ConsequenceIs, Zenon
<1> HIDE DEF d
<1> SUFFICES ASSUME NEW e \in Compilers, Emits(c, e, "JUMP_NOT_TRUTHY", Unpatched, 0),
                    Asks(e, d, tasks)
             PROVE  Goes(c, d)
  BY <1>1 DEF d
<1>2. Moves(c, d, tasks \o << >>)
  BY EmitsMoves, AsksMoves, MovesTwice
<1>3. tasks \o << >> = tasks
  BY DEF Asks
<1>4. Emitted(d) = Append(Emitted(c), Instr("JUMP_NOT_TRUTHY", Unpatched, 0))
  BY DEF Emits, Asks, SameCode
<1>5. Len(Emitted(c)) \in Nat /\ Emitted(c) \in Seq(Instructions)
  BY Counts
<1>6. Right(d, tasks)
  <2> SUFFICES ASSUME NEW k \in 1 .. Len(tasks)
               PROVE  Plain(tasks[k]) /\ Fits(Emitted(d), Level(d), tasks[k])
    BY DEF Right
  <2>1. /\ Statements(yes) \in Seq(Tasks)
        /\ Len(Statements(yes)) = Len(yes)
        /\ \A j \in 1 .. Len(yes) : Statements(yes)[j].do = "STATEMENT"
    BY StatementTasks
  <2>2. CASE k \in 1 .. Len(yes)
    <3>1. tasks[k].do = "STATEMENT"
      BY <2>1, <2>2
    <3> HIDE DEF tasks
    <3>2. Easy(tasks[k])
      BY <3>1 DEF Easy
    <3> QED
      BY <3>2, EasyFits
  <2>3. CASE k = Len(yes) + 1
    <3>1. tasks[k] = ALTERNATIVE(no, Len(Emitted(c)))
      BY <2>1, <2>3
    <3> HIDE DEF tasks
    <3>2. /\ Len(Emitted(c)) < Len(Emitted(d))
          /\ Emitted(d)[Len(Emitted(c)) + 1].op = "JUMP_NOT_TRUTHY"
      BY <1>4, <1>5 DEF Instr
    <3> QED
      BY <3>1, <3>2 DEF Fits, Plain, ALTERNATIVE
  <2> QED
    BY <2>1, <2>2, <2>3
<1> HIDE DEF tasks
<1> QED
  BY <1>2, <1>3, <1>6 DEF Goes

(* The first branch of an if is compiled. *)
LEMMA AlternativeGoes ==
  ASSUME NEW c \in Compilers, ~Failed(c), NEW stmts \in Seq(Stmts), NEW p,
         JumpAt(c, p, "JUMP_NOT_TRUTHY")
  PROVE  LET d == CompileAlternative(c, stmts, p) IN Stops(d) \/ Goes(c, d)
<1> DEFINE d == CompileAlternative(c, stmts, p)
<1>1. \/ Stops(d)
      \/ \E e, f, g \in Compilers :
           /\ Branch(c, e)
           /\ Emits(e, f, "JUMP", Unpatched, 0)
           /\ Patches(f, g, p)
           /\ Asks(g, d, Append(Statements(stmts), END_IF(Len(Emitted(e)))))
  BY AlternativeIs, Zenon
<1> HIDE DEF d
<1> SUFFICES ASSUME NEW e \in Compilers, NEW f \in Compilers, NEW g \in Compilers,
                    Branch(c, e),
                    Emits(e, f, "JUMP", Unpatched, 0),
                    Patches(f, g, p),
                    Asks(g, d, Append(Statements(stmts), END_IF(Len(Emitted(e)))))
             PROVE  Goes(c, d)
  BY <1>1 DEF d
<1> DEFINE tasks == Append(Statements(stmts), END_IF(Len(Emitted(e))))
<1>2. p \in Nat
  BY DEF JumpAt
<1>3. ~Failed(f) /\ ~Failed(g)
  BY DEF Emits, Patches
<1>4. Moves(c, e, << >>) /\ Moves(e, f, << >>)
  BY BranchMoves, EmitsMoves
<1>5. Moves(f, g, << >>)
  BY <1>2, <1>3, PatchesMoves
<1>6. Moves(c, f, << >> \o << >>)
  BY <1>4, MovesTwice
<1>7. Moves(c, g, << >> \o (<< >> \o << >>))
  BY <1>5, <1>6, MovesTwice
<1>8. Moves(c, d, tasks \o << >>)
  <2>1. Asks(g, d, tasks)
    OBVIOUS
  <2> HIDE DEF tasks
  <2>2. Moves(g, d, tasks)
    BY <2>1, AsksMoves
  <2>3. << >> \o (<< >> \o << >>) = << >>
    OBVIOUS
  <2> QED
    BY <1>7, <2>2, <2>3, MovesTwice
<1>9. tasks \o << >> = tasks
  BY DEF Asks
<1>10. Len(Emitted(e)) \in Nat /\ Emitted(e) \in Seq(Instructions)
  BY Counts
<1>11. JumpAt(f, Len(Emitted(e)), "JUMP")
  <2>1. Emitted(f) = Append(Emitted(e), Instr("JUMP", Unpatched, 0))
    BY DEF Emits
  <2> QED
    BY <1>10, <2>1 DEF Instr, JumpAt
<1>12. JumpAt(d, Len(Emitted(e)), "JUMP")
  <2>1. JumpAt(g, Len(Emitted(e)), "JUMP")
    BY <1>5, <1>10, <1>11 DEF Moves, JumpOps
  <2>2. Emitted(d) = Emitted(g)
    BY DEF Asks, SameCode
  <2> QED
    BY <2>1, <2>2 DEF JumpAt
<1>13. Right(d, tasks)
  <2> SUFFICES ASSUME NEW k \in 1 .. Len(tasks)
               PROVE  Plain(tasks[k]) /\ Fits(Emitted(d), Level(d), tasks[k])
    BY DEF Right
  <2>1. /\ Statements(stmts) \in Seq(Tasks)
        /\ Len(Statements(stmts)) = Len(stmts)
        /\ \A j \in 1 .. Len(stmts) : Statements(stmts)[j].do = "STATEMENT"
    BY StatementTasks
  <2>2. CASE k \in 1 .. Len(stmts)
    <3>1. tasks[k].do = "STATEMENT"
      BY <2>1, <2>2
    <3> HIDE DEF tasks
    <3>2. Easy(tasks[k])
      BY <3>1 DEF Easy
    <3> QED
      BY <3>2, EasyFits
  <2>3. CASE k = Len(stmts) + 1
    <3>1. tasks[k] = END_IF(Len(Emitted(e)))
      BY <2>1, <2>3
    <3> HIDE DEF tasks
    <3> QED
      BY <1>12, <3>1 DEF Fits, Plain, END_IF, JumpAt
  <2> QED
    BY <2>1, <2>2, <2>3
<1> HIDE DEF tasks
<1> QED
  BY <1>8, <1>9, <1>13 DEF Goes

(* The second branch of an if is compiled. *)
LEMMA EndIfGoes ==
  ASSUME NEW c \in Compilers, ~Failed(c), NEW p, JumpAt(c, p, "JUMP")
  PROVE  LET d == EndIf(c, p) IN Stops(d) \/ Goes(c, d)
<1> DEFINE d == EndIf(c, p)
<1>1. Stops(d) \/ \E e \in Compilers : Branch(c, e) /\ Patches(e, d, p)
  BY EndIfIs, Zenon
<1> HIDE DEF d
<1> SUFFICES ASSUME NEW e \in Compilers, Branch(c, e), Patches(e, d, p)
             PROVE  Goes(c, d)
  BY <1>1 DEF d
<1>2. p \in Nat
  BY DEF JumpAt
<1>3. Moves(c, e, << >>)
  BY BranchMoves
<1>4. ~Failed(e)
  BY <1>3 DEF Moves
<1>5. Moves(c, d, << >> \o << >>)
  BY <1>2, <1>3, <1>4, PatchesMoves, MovesTwice
<1> QED
  BY <1>5, JustGoes

(* The arguments of a call. *)
LEMMA ArgumentsGo ==
  ASSUME NEW c \in Compilers, ~Failed(c), NEW exprs \in Seq(Exprs)
  PROVE  LET d == CompileArguments(c, exprs) IN Stops(d) \/ Goes(c, d)
<1> DEFINE d == CompileArguments(c, exprs)
           tasks == Append(Expressions(exprs), Emission("CALL", Len(exprs)))
<1>1. Stops(d) \/ Asks(c, d, tasks)
  BY ArgumentsAre, Zenon
<1>2. \A k \in 1 .. Len(tasks) : Easy(tasks[k])
  <2> SUFFICES ASSUME NEW k \in 1 .. Len(tasks)
               PROVE  Easy(tasks[k])
    OBVIOUS
  <2>1. /\ Expressions(exprs) \in Seq(Tasks)
        /\ Len(Expressions(exprs)) = Len(exprs)
        /\ \A j \in 1 .. Len(exprs) : Expressions(exprs)[j].do = "EXPRESSION"
    BY ExpressionTasks
  <2>2. CASE k \in 1 .. Len(exprs)
    BY <2>1, <2>2 DEF Easy
  <2>3. CASE k = Len(exprs) + 1
    <3>1. tasks[k] = Emission("CALL", Len(exprs))
      BY <2>1, <2>3
    <3> QED
      BY <3>1 DEF Easy, Emission
  <2> QED
    BY <2>1, <2>2, <2>3
<1> HIDE DEF d, tasks
<1> QED
  BY <1>1, <1>2, JustAsks DEF d

(* An expression: a function literal opens a scope, any other goes on in this one. *)
LEMMA ExpressionGoes ==
  ASSUME NEW c \in Compilers, ~Failed(c), NEW expr \in Exprs,
         NEW function_name \in STRING \union {NoName}
  PROVE  LET d == CompileExpression(c, expr, function_name) IN
         \/ Stops(d)
         \/ Goes(c, d)
         \/ \E e \in Compilers :
              /\ expr.type = "FUNCTION"
              /\ Moves(c, e, <<FUNCTION(Len(expr.parameters)), LEAVE>>)
              /\ Opens(e, d, expr, function_name)
<1> DEFINE d == CompileExpression(c, expr, function_name)
<1>1. Stops(d) \/ Evaluates(c, d, expr, function_name)
  BY ExpressionIs, Zenon
<1> HIDE DEF d
<1> SUFFICES ASSUME Evaluates(c, d, expr, function_name)
             PROVE  \/ Goes(c, d)
                    \/ \E e \in Compilers :
                         /\ expr.type = "FUNCTION"
                         /\ Moves(c, e, <<FUNCTION(Len(expr.parameters)), LEAVE>>)
                         /\ Opens(e, d, expr, function_name)
  BY <1>1 DEF d
<1>2. Easy(LEAVE)
  BY DEF Easy, LEAVE
<1>3. \A e \in Compilers : Asks(c, e, <<LEAVE>>) =>
        Moves(c, e, <<LEAVE>>)
  BY AsksMoves
<1>4. ASSUME NEW e \in Compilers, Moves(c, e, <<LEAVE>>), Moves(e, d, << >>)
      PROVE  Goes(c, d)
  <2>1. Moves(c, d, << >> \o <<LEAVE>>)
    BY <1>4, MovesTwice
  <2>2. << >> \o <<LEAVE>> = <<LEAVE>>
    OBVIOUS
  <2>3. Right(d, <<LEAVE>>)
    BY <1>2, EasyFits DEF Right
  <2> QED
    BY <2>1, <2>2, <2>3 DEF Goes
<1>5. CASE \E e \in Compilers : \E l \in 1 .. Level(e) :
             /\ Asks(c, e, <<LEAVE>>)
             /\ Resolves(e, d, expr.ident, l, e.scopes[l].entries[expr.ident])
  <2>0. PICK e \in Compilers : \E l \in 1 .. Level(e) :
             /\ Asks(c, e, <<LEAVE>>)
             /\ Resolves(e, d, expr.ident, l, e.scopes[l].entries[expr.ident])
    BY <1>5
  <2>1. PICK l \in 1 .. Level(e) :
             /\ Asks(c, e, <<LEAVE>>)
             /\ Resolves(e, d, expr.ident, l, e.scopes[l].entries[expr.ident])
    BY <2>0
  <2> DEFINE symbol == e.scopes[l].entries[expr.ident]
  <2>2. Moves(c, e, <<LEAVE>>)
    BY <1>3, <2>1
  <2>3. CASE Emits(e, d, LoadOp(symbol), symbol.index, 0)
    BY <1>4, <2>2, <2>3, EmitsMoves
  <2>4. CASE l < Level(e) /\ Asks(e, d, <<CAPTURE(expr.ident, l + 1, symbol)>>)
    <3> DEFINE t == CAPTURE(expr.ident, l + 1, symbol)
    <3>1. Moves(c, d, <<t>> \o <<LEAVE>>)
      BY <2>2, <2>4, AsksMoves, MovesTwice
    <3>2. <<t>> \o <<LEAVE>> = <<t, LEAVE>>
      <4>1. t \in Tasks /\ LEAVE \in Tasks
        <5>1. <<t>> \in Seq(Tasks)
          BY <2>4 DEF Asks
        <5>2. LEAVE \in Tasks
          BY TasksAre, Zenon DEF LEAVE
        <5> HIDE DEF t
        <5>3. <<t>>[1] \in Tasks
          BY <5>1
        <5> QED
          BY <5>2, <5>3
      <4> HIDE DEF t
      <4> QED
        BY <4>1, TaskLists, Zenon
    <3>3. Level(d) = Level(e) /\ Level(e) \in Nat
      BY <2>4, CurrentScope DEF Asks, SameBelow
    <3>4. Plain(t) /\ Fits(Emitted(d), Level(d), t)
      BY <2>4, <3>3 DEF Plain, Fits, CAPTURE
    <3> HIDE DEF t
    <3>5. Right(d, <<t, LEAVE>>)
      BY <1>2, <3>4, EasyFits DEF Right
    <3> QED
      BY <3>1, <3>2, <3>5 DEF Goes
  <2> QED
    BY <2>1, <2>3, <2>4 DEF Resolves
<1>6. CASE \E e, f \in Compilers :
             /\ Asks(c, e, <<LEAVE>>)
             /\ Adds(e, f, IntegerValue(expr.integer))
             /\ Emits(f, d, "CONSTANT", Len(e.constants), 0)
  <2>1. PICK e \in Compilers, f \in Compilers :
             /\ Asks(c, e, <<LEAVE>>)
             /\ Adds(e, f, IntegerValue(expr.integer))
             /\ Emits(f, d, "CONSTANT", Len(e.constants), 0)
    BY <1>6
  <2>2. ~Failed(e)
    BY <2>1 DEF Asks
  <2>3. Moves(e, d, << >> \o << >>)
    BY <2>1, <2>2, AddsMoves, EmitsMoves, MovesTwice
  <2>4. Moves(e, d, << >>)
    BY <2>3
  <2> QED
    BY <1>3, <1>4, <2>1, <2>4
<1>7. CASE \E e \in Compilers :
             /\ Asks(c, e, <<LEAVE>>)
             /\ Emits(e, d, "TRUE", 0, 0) \/ Emits(e, d, "FALSE", 0, 0)
  BY <1>3, <1>4, <1>7, EmitsMoves
<1>8. CASE \E a, b : /\ Easy(a) /\ Easy(b)
                     /\ Asks(c, d, <<a, b, LEAVE>>)
  <2>1. PICK a, b : Easy(a) /\ Easy(b) /\ Asks(c, d, <<a, b, LEAVE>>)
    BY <1>8
  <2> DEFINE tasks == <<a, b, LEAVE>>
  <2>2. \A k \in 1 .. Len(tasks) : Easy(tasks[k])
    BY <1>2, <2>1
  <2> HIDE DEF tasks
  <2> QED
    BY <2>1, <2>2, JustAsks DEF tasks
<1>9. CASE \E a, b, o : /\ Easy(a) /\ Easy(b) /\ Easy(o)
                        /\ Asks(c, d, <<a, b, o, LEAVE>>)
  <2>1. PICK a, b, o : Easy(a) /\ Easy(b) /\ Easy(o) /\ Asks(c, d, <<a, b, o, LEAVE>>)
    BY <1>9
  <2> DEFINE tasks == <<a, b, o, LEAVE>>
  <2>2. \A k \in 1 .. Len(tasks) : Easy(tasks[k])
    BY <1>2, <2>1
  <2> HIDE DEF tasks
  <2> QED
    BY <2>1, <2>2, JustAsks DEF tasks
<1>10. CASE /\ expr.type = "FUNCTION"
            /\ \E e \in Compilers :
                 /\ Asks(c, e, <<FUNCTION(Len(expr.parameters)), LEAVE>>)
                 /\ Opens(e, d, expr, function_name)
  BY <1>10, AsksMoves
<1>11. /\ Easy(Evaluation(expr.left, NoName)) /\ Easy(Evaluation(expr.right, NoName))
       /\ Easy(Evaluation(expr.condition, NoName))
       /\ Easy(Evaluation(expr.function, NoName))
       /\ Easy(Emission(expr.op, 0)) /\ Easy(Emission(InfixOp[expr.op], 0))
       /\ Easy(CONSEQUENCE(expr.consequence, expr.alternative))
       /\ Easy(ARGUMENTS(expr.arguments))
  BY DEF Easy, Evaluation, Emission, CONSEQUENCE, ARGUMENTS
<1>12. \/ \E e \in Compilers : \E l \in 1 .. Level(e) :
            /\ Asks(c, e, <<LEAVE>>)
            /\ Resolves(e, d, expr.ident, l, e.scopes[l].entries[expr.ident])
       \/ \E e, f \in Compilers :
            /\ Asks(c, e, <<LEAVE>>)
            /\ Adds(e, f, IntegerValue(expr.integer))
            /\ Emits(f, d, "CONSTANT", Len(e.constants), 0)
       \/ \E e \in Compilers :
            /\ Asks(c, e, <<LEAVE>>)
            /\ Emits(e, d, "TRUE", 0, 0) \/ Emits(e, d, "FALSE", 0, 0)
       \/ Asks(c, d, <<Evaluation(expr.right, NoName), Emission(expr.op, 0), LEAVE>>)
       \/ Asks(c, d, <<Evaluation(expr.left, NoName), Evaluation(expr.right, NoName),
                       Emission(InfixOp[expr.op], 0), LEAVE>>)
       \/ Asks(c, d, <<Evaluation(expr.condition, NoName),
                       CONSEQUENCE(expr.consequence, expr.alternative), LEAVE>>)
       \/ /\ expr.type = "FUNCTION"
          /\ \E e \in Compilers :
               /\ Asks(c, e, <<FUNCTION(Len(expr.parameters)), LEAVE>>)
               /\ Opens(e, d, expr, function_name)
       \/ Asks(c, d, <<Evaluation(expr.function, NoName), ARGUMENTS(expr.arguments),
                       LEAVE>>)
  BY Zenon DEF Evaluates
<1> QED
  BY <1>5, <1>6, <1>7, <1>8, <1>9, <1>10, <1>11, <1>12

-----------------------------------------------------------------------------
(* What moving keeps *)

(* Waiting jumps are found where they were. *)
LEMMA FitsMoves ==
  ASSUME NEW c \in Compilers, NEW d, NEW tasks, Moves(c, d, tasks), NEW l, NEW t \in Tasks,
         Fits(Emitted(c), l, t)
  PROVE  Fits(Emitted(d), l, t)
<1>1. CASE t.do = "ALTERNATIVE"
  <2>1. t.jump_if_false \in Nat
    BY <1>1, TaskKinds
  <2>2. JumpAt(c, t.jump_if_false, "JUMP_NOT_TRUTHY")
    BY <1>1, <2>1 DEF Fits, JumpAt
  <2>3. JumpAt(d, t.jump_if_false, "JUMP_NOT_TRUTHY")
    BY <2>1, <2>2 DEF Moves, JumpOps
  <2> QED
    BY <1>1, <2>3 DEF Fits, JumpAt
<1>2. CASE t.do = "END_IF"
  <2>1. t.jump_end \in Nat
    BY <1>2, TaskKinds
  <2>2. JumpAt(c, t.jump_end, "JUMP")
    BY <1>2, <2>1 DEF Fits, JumpAt
  <2>3. JumpAt(d, t.jump_end, "JUMP")
    BY <2>1, <2>2 DEF Moves, JumpOps
  <2> QED
    BY <1>2, <2>3 DEF Fits, JumpAt
<1>3. CASE t.do # "ALTERNATIVE" /\ t.do # "END_IF"
  BY <1>3 DEF Fits
<1> QED
  BY <1>1, <1>2, <1>3

(* Everything that is to be done can be done, also after a move. *)
LEMMA PlacedMoves ==
  ASSUME NEW c \in Compilers, Placed(c), NEW d, NEW tasks, Moves(c, d, tasks),
         Right(d, tasks),
         tasks = << >> \/ \A k \in 1 .. Len(Todo(c)) : Plain(Todo(c)[k])
  PROVE  Placed(d)
<1>1. /\ d \in Compilers
      /\ Level(d) = Level(c)
      /\ tasks \in Seq(Tasks)
      /\ Todo(d) = tasks \o Todo(c)
      /\ \A k \in 1 .. Level(c) - 1 :
           /\ d.scopes[k].instructions = c.scopes[k].instructions
           /\ d.scopes[k].todo = c.scopes[k].todo
  BY DEF Moves
<1>2. Level(c) \in Nat \ {0} /\ Todo(c) \in Seq(Tasks)
  BY CurrentScope
<1>3. /\ Todo(d) = d.scopes[Level(d)].todo
      /\ Emitted(d) = d.scopes[Level(d)].instructions
      /\ Todo(c) = c.scopes[Level(c)].todo
      /\ Emitted(c) = c.scopes[Level(c)].instructions
  BY DEF Todo, Emitted, Scope
<1>4. ASSUME NEW l \in 1 .. Level(d), NEW k \in 1 .. Len(d.scopes[l].todo)
      PROVE  Fits(d.scopes[l].instructions, l, d.scopes[l].todo[k])
  <2>1. CASE l # Level(d)
    <3>1. l \in 1 .. Level(c) - 1 /\ l \in 1 .. Level(c)
      BY <1>1, <1>2, <2>1
    <3>2. /\ d.scopes[l].instructions = c.scopes[l].instructions
          /\ d.scopes[l].todo = c.scopes[l].todo
      BY <1>1, <3>1
    <3> QED
      BY <3>1, <3>2 DEF Placed
  <2>2. CASE l = Level(d)
    <3>0. /\ d.scopes[l].todo = tasks \o Todo(c)
          /\ k \in 1 .. Len(tasks \o Todo(c))
      BY <1>1, <1>3, <2>2
    <3>1. CASE k <= Len(tasks)
      <4>1. k \in 1 .. Len(tasks) /\ d.scopes[l].todo[k] = tasks[k]
        BY <1>1, <1>2, <3>0, <3>1
      <4> QED
        BY <1>3, <2>2, <4>1 DEF Right
    <3>2. CASE k > Len(tasks)
      <4> DEFINE j == k - Len(tasks)
      <4>1. j \in 1 .. Len(Todo(c)) /\ d.scopes[l].todo[k] = Todo(c)[j]
        BY <1>1, <1>2, <3>0, <3>2, SMTT(30)
      <4>2. Fits(Emitted(c), l, Todo(c)[j])
        BY <1>1, <1>2, <1>3, <2>2, <4>1 DEF Placed
      <4>3. Todo(c)[j] \in Tasks
        BY <1>2, <4>1
      <4> HIDE DEF j
      <4> QED
        BY <1>3, <2>2, <4>1, <4>2, <4>3, FitsMoves
    <3> QED
      BY <1>1, <1>4, <3>1, <3>2
  <2> QED
    BY <2>1, <2>2
<1>5. ASSUME NEW l \in 1 .. Level(d) - 1
      PROVE  Waiting(d.scopes[l].todo)
  BY <1>1, <1>5 DEF Placed
<1>6. Ordered(Todo(d))
  <2>1. CASE tasks = << >>
    BY <1>1, <1>2, <2>1 DEF Placed
  <2>2. CASE \A k \in 1 .. Len(Todo(c)) : Plain(Todo(c)[k])
    <3> SUFFICES ASSUME NEW k \in 1 .. Len(Todo(d))
                 PROVE  Plain(Todo(d)[k])
      BY DEF Ordered, Plain
    <3>1. CASE k <= Len(tasks)
      <4>1. k \in 1 .. Len(tasks) /\ Todo(d)[k] = tasks[k]
        BY <1>1, <1>2, <3>1
      <4> QED
        BY <4>1 DEF Right
    <3>2. CASE k > Len(tasks)
      <4>1. k - Len(tasks) \in 1 .. Len(Todo(c)) /\ Todo(d)[k] = Todo(c)[k - Len(tasks)]
        BY <1>1, <1>2, <3>2
      <4> QED
        BY <2>2, <4>1
    <3> QED
      BY <1>1, <3>1, <3>2
  <2> QED
    BY <2>1, <2>2
<1> QED
  BY <1>4, <1>5, <1>6 DEF Placed

(* The open scopes' code, when only the current one's length changes. *)
LEMMA ScopesTotal ==
  ASSUME NEW c \in Compilers, NEW d \in Compilers, Level(d) = Level(c),
         \A k \in 1 .. Level(c) - 1 : d.scopes[k].instructions = c.scopes[k].instructions
  PROVE  /\ TotalLength(c.scopes) \in Nat
         /\ TotalLength(d.scopes) \in Nat
         /\ TotalLength(d.scopes) + Len(Emitted(c))
              = TotalLength(c.scopes) + Len(Emitted(d))
<1> DEFINE n == Level(c)
           s == SubSeq(c.scopes, 1, n - 1)
<1>1. /\ n \in Nat \ {0}
      /\ c.scopes \in Seq(CompilerScopes) /\ Len(c.scopes) = n
      /\ d.scopes \in Seq(CompilerScopes) /\ Len(d.scopes) = n
  BY CurrentScope DEF Level
<1>2. Coded(c.scopes) /\ Coded(d.scopes)
  <2>1. /\ \A k \in 1 .. n : c.scopes[k] \in CompilerScopes
        /\ \A k \in 1 .. n : d.scopes[k] \in CompilerScopes
    BY <1>1
  <2>2. \A x \in CompilerScopes : Len(x.instructions) \in Nat
    BY DEF CompilerScopes
  <2> QED
    BY <1>1, <2>1, <2>2 DEF Coded
<1>3. /\ Len(s) = n - 1
      /\ \A k \in 1 .. n - 1 : s[k] = c.scopes[k]
  BY <1>1
<1>4. /\ Emitted(c) = c.scopes[n].instructions
      /\ Emitted(d) = d.scopes[n].instructions
  BY DEF Emitted, Scope
<1>5. Len(Emitted(c)) \in Nat /\ Len(Emitted(d)) \in Nat
  BY Counts
<1> HIDE DEF s, n
<1>6. /\ TotalLength(c.scopes) = TotalLength(s) + Len(c.scopes[n].instructions)
      /\ TotalLength(s) \in Nat
      /\ TotalLength(c.scopes) \in Nat
  <2>1. Len(s) \in Nat /\ Len(c.scopes) = Len(s) + 1
    BY <1>1, <1>3
  <2>2. \A k \in 1 .. Len(s) : Len(c.scopes[k].instructions) = Len(s[k].instructions)
    BY <1>3
  <2>3. Coded(c.scopes)
    BY <1>2
  <2>4. /\ TotalLength(c.scopes)
             = TotalLength(s) + Len(c.scopes[Len(c.scopes)].instructions)
        /\ TotalLength(s) \in Nat
        /\ TotalLength(c.scopes) \in Nat
    BY <2>1, <2>2, <2>3, TotalMore, Zenon
  <2> QED
    BY <1>1, <2>4
<1>7. \A k \in 1 .. n - 1 : Len(d.scopes[k].instructions) = Len(s[k].instructions)
  BY <1>3 DEF n
<1>8. /\ TotalLength(d.scopes) = TotalLength(s) + Len(d.scopes[n].instructions)
      /\ TotalLength(d.scopes) \in Nat
  <2>1. Len(s) \in Nat /\ Len(d.scopes) = Len(s) + 1
    BY <1>1, <1>3
  <2>2. \A k \in 1 .. Len(s) : Len(d.scopes[k].instructions) = Len(s[k].instructions)
    BY <1>3, <1>7
  <2>3. Coded(d.scopes)
    BY <1>2
  <2>4. /\ TotalLength(d.scopes)
             = TotalLength(s) + Len(d.scopes[Len(d.scopes)].instructions)
        /\ TotalLength(s) \in Nat
        /\ TotalLength(d.scopes) \in Nat
    BY <2>1, <2>2, <2>3, TotalMore, Zenon
  <2> QED
    BY <1>1, <2>4
<1> QED
  BY <1>4, <1>5, <1>6, <1>8

(* The compiled functions' code has a length. *)
LEMMA FunctionsTotal ==
  ASSUME NEW functions_ \in Seq(CompiledFunctions)
  PROVE  TotalLength(functions_) \in Nat /\ Coded(functions_)
<1>1. Coded(functions_)
  BY DEF Coded, CompiledFunctions
<1>2. Len(functions_) \in Nat
  OBVIOUS
<1> QED
  BY <1>1, <1>2, TotalSame

(* Every instruction is counted, also after a move. *)
LEMMA CountedMoves ==
  ASSUME NEW c \in Compilers, Counted(c), NEW d, NEW tasks, Moves(c, d, tasks),
         Right(d, tasks)
  PROVE  Counted(d)
<1>1. /\ d \in Compilers
      /\ Level(d) = Level(c)
      /\ tasks \in Seq(Tasks)
      /\ Todo(d) = tasks \o Todo(c)
      /\ \A k \in 1 .. Level(c) - 1 : d.scopes[k].instructions = c.scopes[k].instructions
      /\ Len(Emitted(d)) + c.instruction_count <= Len(Emitted(c)) + d.instruction_count
      /\ d.functions = c.functions
  BY DEF Moves
<1>2. Todo(c) \in Seq(Tasks)
  BY CurrentScope
<1> DEFINE f == TotalLength(c.functions)
           t == TotalLength(c.scopes)
           u == TotalLength(d.scopes)
           ci == c.instruction_count
           di == d.instruction_count
           ce == Len(Emitted(c))
           de == Len(Emitted(d))
<1>3. t \in Nat /\ u \in Nat /\ u + ce = t + de
  BY <1>1, ScopesTotal
<1>4. f \in Nat
  BY FunctionsTotal DEF Compilers
<1>5. ci \in Nat /\ di \in Nat /\ ce \in Nat /\ de \in Nat
  BY <1>1, Counts
<1>6. /\ f + t <= ci
      /\ \A k \in 1 .. Len(Todo(c)) : Todo(c)[k].do = "CLOSURE" =>
           f + t + Len(Todo(c)[k].function.instructions) <= ci
  BY DEF Counted
<1>7. de + ci <= ce + di
  BY <1>1
<1> HIDE DEF f, t, u, ci, di, ce, de
<1>8. f + u <= di
  BY <1>3, <1>4, <1>5, <1>6, <1>7
<1>9. ASSUME NEW k \in 1 .. Len(Todo(d)), Todo(d)[k].do = "CLOSURE"
      PROVE  f + u + Len(Todo(d)[k].function.instructions) <= di
  <2>1. ~(k <= Len(tasks))
    <3> SUFFICES ASSUME k <= Len(tasks)
                 PROVE  FALSE
      OBVIOUS
    <3>1. k \in 1 .. Len(tasks) /\ Todo(d)[k] = tasks[k]
      BY <1>1, <1>2, <1>9
    <3> QED
      BY <1>9, <3>1 DEF Right, Plain
  <2> DEFINE j == k - Len(tasks)
  <2>2. j \in 1 .. Len(Todo(c)) /\ Todo(d)[k] = Todo(c)[j]
    BY <1>1, <1>2, <2>1
  <2>3. Todo(c)[j] \in Tasks
    BY <1>2, <2>2
  <2> DEFINE m == Len(Todo(c)[j].function.instructions)
  <2>4. m \in Nat
    <3>1. Todo(c)[j].function \in CompiledFunctions
      BY <1>9, <2>2, <2>3, TaskKinds
    <3> QED
      BY <3>1 DEF CompiledFunctions
  <2>5. f + t + m <= ci
    BY <1>6, <1>9, <2>2
  <2>6. m = Len(Todo(d)[k].function.instructions)
    BY <2>2
  <2> HIDE DEF m, j
  <2>7. f + u + m <= di
    BY <1>3, <1>4, <1>5, <1>7, <2>4, <2>5
  <2> QED
    BY <2>6, <2>7
<1> QED
  BY <1>1, <1>8, <1>9 DEF Counted, f, u, di

-----------------------------------------------------------------------------
(* What every step of the compiler keeps *)

Sane(c) == Placed(c) /\ Counted(c) /\ Globals(c)

(* d has the bytecode and the globals of c, and maybe more. *)
Grows(c, d) ==
  /\ Longer(c.constants, d.constants)
  /\ Longer(c.functions, d.functions)
  /\ SameGlobals(c, d)

(* d is c after a step of it. *)
Steps(c, d) == Stops(d) \/ (d \in Compilers /\ ~Failed(d) /\ Sane(d) /\ Grows(c, d))

(* After a move. *)
LEMMA SaneMoves ==
  ASSUME NEW c \in Compilers, ~Failed(c), Sane(c), NEW d, NEW tasks, Moves(c, d, tasks),
         Right(d, tasks),
         tasks = << >> \/ \A k \in 1 .. Len(Todo(c)) : Plain(Todo(c)[k])
  PROVE  d \in Compilers /\ ~Failed(d) /\ Sane(d) /\ Grows(c, d)
<1>1. Placed(d)
  BY PlacedMoves DEF Sane
<1>2. Counted(d)
  BY CountedMoves DEF Sane
<1>3. Longer(c.functions, d.functions)
  BY DEF Moves, Longer, Compilers
<1> QED
  BY <1>1, <1>2, <1>3 DEF Sane, Moves, Grows

(* What is left when a task is begun. *)
LEMMA BegunSane ==
  ASSUME NEW c \in Compilers, ~Failed(c), Sane(c), Todo(c) # << >>
  PROVE  LET b == Begun(c) IN
         /\ b \in Compilers
         /\ ~Failed(b)
         /\ Sane(b)
         /\ SameBytecode(c, b)
         /\ GlobalEntries(b) = GlobalEntries(c)
         /\ Task(c) \in Tasks
         /\ Task(c).do # "FUNCTION"
         /\ Task(c).do # "LOAD" => \A k \in 1 .. Len(Todo(b)) : Plain(Todo(b)[k])
         /\ Fits(Emitted(b), Level(b), Task(c))
         /\ Task(c).do = "CLOSURE" =>
              TotalLength(b.functions) + TotalLength(b.scopes)
                + Len(Task(c).function.instructions) <= b.instruction_count
<1> DEFINE b == Begun(c)
           old == Todo(c)
           new == Todo(b)
<1>1. /\ b \in Compilers
      /\ ~Failed(b)
      /\ SameBelow(c, b)
      /\ SameNames(c, b)
      /\ SameCode(c, b)
      /\ SameBytecode(c, b)
      /\ new = Tail(old)
      /\ Task(c) = Head(old)
      /\ Task(c) \in Tasks
  BY BegunIs, Zenon
<1>2. old \in Seq(Tasks) /\ Level(c) \in Nat \ {0}
  BY CurrentScope
<1> HIDE DEF b, old, new
<1>3. /\ Len(new) = Len(old) - 1 /\ Len(old) \in Nat \ {0}
      /\ \A k \in 1 .. Len(new) : new[k] = old[k + 1] /\ k + 1 \in 1 .. Len(old)
      /\ Task(c) = old[1] /\ 1 \in 1 .. Len(old)
  BY <1>1, <1>2 DEF old
<1>4. /\ Emitted(b) = Emitted(c)
      /\ b.instruction_count = c.instruction_count
      /\ Level(b) = Level(c)
      /\ \A l \in 1 .. Level(c) - 1 : b.scopes[l] = c.scopes[l]
      /\ b.functions = c.functions
  BY <1>1 DEF SameBelow, SameCode, SameBytecode
<1>5. /\ new = b.scopes[Level(c)].todo
      /\ old = c.scopes[Level(c)].todo
      /\ Emitted(b) = b.scopes[Level(c)].instructions
      /\ Emitted(c) = c.scopes[Level(c)].instructions
  BY <1>4 DEF new, old, Todo, Scope, Emitted
<1>6. TotalLength(b.scopes) = TotalLength(c.scopes) /\ TotalLength(c.scopes) \in Nat
  <2>1. \A k \in 1 .. Level(c) - 1 : b.scopes[k].instructions = c.scopes[k].instructions
    BY <1>4
  <2>2. /\ TotalLength(c.scopes) \in Nat
        /\ TotalLength(b.scopes) \in Nat
        /\ TotalLength(b.scopes) + Len(Emitted(c)) = TotalLength(c.scopes) + Len(Emitted(b))
    BY <1>1, <1>4, <2>1, ScopesTotal
  <2>3. Len(Emitted(c)) \in Nat
    BY Counts
  <2> QED
    BY <1>4, <2>2, <2>3
<1>7. Ordered(old)
  BY DEF Sane, Placed, old
<1>8. Placed(b)
  <2>1. ASSUME NEW l \in 1 .. Level(b), NEW k \in 1 .. Len(b.scopes[l].todo)
        PROVE  Fits(b.scopes[l].instructions, l, b.scopes[l].todo[k])
    <3>1. CASE l = Level(c)
      <4>1. k \in 1 .. Len(new) /\ b.scopes[l].todo[k] = new[k]
        BY <1>5, <2>1, <3>1
      <4>2. new[k] = old[k + 1] /\ k + 1 \in 1 .. Len(old)
        BY <1>3, <4>1
      <4>3. Fits(c.scopes[l].instructions, l, old[k + 1])
        BY <1>2, <1>5, <3>1, <4>2 DEF Sane, Placed
      <4> QED
        BY <1>4, <1>5, <3>1, <4>1, <4>2, <4>3
    <3>2. CASE l # Level(c)
      <4>1. l \in 1 .. Level(c) - 1 /\ l \in 1 .. Level(c)
        BY <1>2, <1>4, <3>2
      <4>2. b.scopes[l] = c.scopes[l]
        BY <1>4, <4>1
      <4> QED
        BY <2>1, <4>1, <4>2 DEF Sane, Placed
    <3> QED
      BY <3>1, <3>2
  <2>2. \A l \in 1 .. Level(b) - 1 : Waiting(b.scopes[l].todo)
    BY <1>4 DEF Sane, Placed
  <2>3. Ordered(new)
    <3> SUFFICES ASSUME NEW k \in 1 .. Len(new)
                 PROVE  /\ new[k].do # "FUNCTION"
                        /\ new[k].do \in {"LOAD", "CLOSURE"} =>
                             \A j \in 1 .. k - 1 : new[j].do = "LOAD"
      BY DEF Ordered
    <3>1. new[k] = old[k + 1] /\ k + 1 \in 1 .. Len(old)
      BY <1>3
    <3>2. \A j \in 1 .. k - 1 : new[j] = old[j + 1] /\ j + 1 \in 1 .. (k + 1) - 1
      BY <1>3
    <3>3. /\ old[k + 1].do # "FUNCTION"
          /\ old[k + 1].do \in {"LOAD", "CLOSURE"} =>
               \A j \in 1 .. (k + 1) - 1 : old[j].do = "LOAD"
      BY <1>7, <3>1 DEF Ordered
    <3> QED
      BY <3>1, <3>2, <3>3
  <2> QED
    BY <2>1, <2>2, <2>3 DEF Placed, new
<1>9. Counted(b)
  <2>1. ASSUME NEW k \in 1 .. Len(new), new[k].do = "CLOSURE"
        PROVE  TotalLength(b.functions) + TotalLength(b.scopes)
                 + Len(new[k].function.instructions) <= b.instruction_count
    <3>1. new[k] = old[k + 1] /\ k + 1 \in 1 .. Len(old)
      BY <1>3
    <3>2. old[k + 1].do = "CLOSURE"
      BY <2>1, <3>1
    <3>3. TotalLength(c.functions) + TotalLength(c.scopes)
            + Len(old[k + 1].function.instructions) <= c.instruction_count
      BY <3>1, <3>2 DEF Sane, Counted, old
    <3> QED
      BY <1>4, <1>6, <3>1, <3>3
  <2>2. TotalLength(b.functions) + TotalLength(b.scopes) <= b.instruction_count
    BY <1>4, <1>6 DEF Sane, Counted
  <2> QED
    BY <2>1, <2>2 DEF Counted, new
<1>10. GlobalEntries(b) = GlobalEntries(c)
       /\ b.scopes[1].definition_count = c.scopes[1].definition_count
  <2>1. CASE Level(c) = 1
    BY <1>1, <1>4, <2>1 DEF SameNames, GlobalEntries, Scope
  <2>2. CASE Level(c) # 1
    BY <1>2, <1>4, <2>2 DEF GlobalEntries
  <2> QED
    BY <2>1, <2>2
<1>11. Globals(b)
  BY <1>10 DEF Sane, Globals
<1>12. Task(c).do # "FUNCTION"
  BY <1>3, <1>7 DEF Ordered
<1>13. ASSUME Task(c).do # "LOAD", NEW k \in 1 .. Len(new)
       PROVE  Plain(new[k])
  <2>1. new[k] = old[k + 1] /\ k + 1 \in 1 .. Len(old) /\ 1 \in 1 .. (k + 1) - 1
    BY <1>3
  <2> QED
    BY <1>3, <1>7, <1>13, <2>1 DEF Ordered, Plain
<1>14. Fits(Emitted(b), Level(b), Task(c))
  <2>1. Level(c) \in 1 .. Level(c) /\ 1 \in 1 .. Len(c.scopes[Level(c)].todo)
    BY <1>2, <1>3, <1>5
  <2>2. Fits(c.scopes[Level(c)].instructions, Level(c), c.scopes[Level(c)].todo[1])
    BY <2>1 DEF Sane, Placed
  <2> QED
    BY <1>3, <1>4, <1>5, <2>2
<1>15. Task(c).do = "CLOSURE" =>
         TotalLength(b.functions) + TotalLength(b.scopes)
           + Len(Task(c).function.instructions) <= b.instruction_count
  <2> SUFFICES ASSUME Task(c).do = "CLOSURE"
               PROVE  TotalLength(b.functions) + TotalLength(b.scopes)
                        + Len(Task(c).function.instructions) <= b.instruction_count
    OBVIOUS
  <2>1. TotalLength(c.functions) + TotalLength(c.scopes)
          + Len(old[1].function.instructions) <= c.instruction_count
    BY <1>3 DEF Sane, Counted, old
  <2> QED
    BY <1>3, <1>4, <1>6, <2>1
<1> QED
  BY <1>1, <1>8, <1>9, <1>10, <1>11, <1>12, <1>13, <1>14, <1>15 DEF Sane, b, new

(* A function literal: the scope around it waits, a new one is opened. *)
LEMMA SaneOpens ==
  ASSUME NEW c \in Compilers, ~Failed(c), Sane(c),
         \A k \in 1 .. Len(Todo(c)) : Plain(Todo(c)[k]),
         NEW expr \in Exprs, expr.type = "FUNCTION", NEW e \in Compilers,
         Moves(c, e, <<FUNCTION(Len(expr.parameters)), LEAVE>>),
         NEW d, NEW function_name, Opens(e, d, expr, function_name)
  PROVE  d \in Compilers /\ ~Failed(d) /\ Sane(d) /\ Grows(c, d)
<1> DEFINE n == Level(c)
           waiting == Todo(e)
           tasks == Definitions(expr.parameters) \o Statements(expr.body)
           names == Definitions(expr.parameters)
           stmts == Statements(expr.body)
<1>1. /\ Level(e) = n
      /\ waiting = <<FUNCTION(Len(expr.parameters)), LEAVE>> \o Todo(c)
      /\ \A k \in 1 .. n - 1 :
           /\ e.scopes[k].instructions = c.scopes[k].instructions
           /\ e.scopes[k].todo = c.scopes[k].todo
      /\ Len(Emitted(e)) + c.instruction_count <= Len(Emitted(c)) + e.instruction_count
      /\ Longer(c.constants, e.constants)
      /\ e.functions = c.functions
      /\ Globals(e) /\ SameGlobals(c, e)
      /\ <<FUNCTION(Len(expr.parameters)), LEAVE>> \in Seq(Tasks)
  BY DEF Moves, Sane
<1>2. /\ d \in Compilers /\ ~Failed(d)
      /\ Level(d) = n + 1
      /\ \A k \in 1 .. n : d.scopes[k] = e.scopes[k]
      /\ d.constants = e.constants /\ d.functions = e.functions
      /\ d.instruction_count = e.instruction_count
      /\ Emitted(d) = << >>
      /\ Todo(d) = tasks
      /\ tasks \in Seq(Tasks)
  BY <1>1 DEF Opens, SameBytecode
<1>3. n \in Nat \ {0} /\ Todo(c) \in Seq(Tasks) /\ c.functions \in Seq(CompiledFunctions)
  BY CurrentScope DEF Compilers
<1>4. /\ waiting = e.scopes[n].todo
      /\ Emitted(e) = e.scopes[n].instructions
      /\ Todo(c) = c.scopes[n].todo
      /\ Todo(d) = d.scopes[n + 1].todo
      /\ Emitted(d) = d.scopes[n + 1].instructions
  BY <1>1, <1>2 DEF Todo, Scope, Emitted
<1>5. \A k \in 1 .. Len(tasks) : Easy(tasks[k])
  <2>1. /\ names \in Seq(Tasks)
        /\ \A k \in 1 .. Len(names) : names[k].do = "DEFINE"
    <3>1. expr.parameters \in Seq(STRING)
      BY ExpressionParts
    <3>2. /\ Definitions(expr.parameters) \in Seq(Tasks)
          /\ Len(Definitions(expr.parameters)) = Len(expr.parameters)
          /\ \A k \in 1 .. Len(expr.parameters) :
               Definitions(expr.parameters)[k].do = "DEFINE"
      BY <3>1, DefinitionTasks
    <3> QED
      BY <3>2
  <2>2. /\ stmts \in Seq(Tasks)
        /\ \A k \in 1 .. Len(stmts) : stmts[k].do = "STATEMENT"
    <3>1. expr.body \in Seq(Stmts)
      BY ExpressionParts
    <3>2. /\ Statements(expr.body) \in Seq(Tasks)
          /\ Len(Statements(expr.body)) = Len(expr.body)
          /\ \A k \in 1 .. Len(expr.body) : Statements(expr.body)[k].do = "STATEMENT"
      BY <3>1, StatementTasks
    <3> QED
      BY <3>2
  <2>3. tasks = names \o stmts
    OBVIOUS
  <2> HIDE DEF tasks, names, stmts
  <2> SUFFICES ASSUME NEW k \in 1 .. Len(tasks)
               PROVE  Easy(tasks[k])
    OBVIOUS
  <2>4. CASE k <= Len(names)
    <3>1. k \in 1 .. Len(names) /\ tasks[k] = names[k]
      BY <2>1, <2>2, <2>3, <2>4
    <3> QED
      BY <2>1, <3>1 DEF Easy
  <2>5. CASE k > Len(names)
    <3>1. k - Len(names) \in 1 .. Len(stmts) /\ tasks[k] = stmts[k - Len(names)]
      BY <2>1, <2>2, <2>3, <2>5
    <3> QED
      BY <2>2, <3>1 DEF Easy
  <2> QED
    BY <2>1, <2>4, <2>5
<1> HIDE DEF tasks, names, stmts, waiting
<1> DEFINE f == FUNCTION(Len(expr.parameters))
<1>6. /\ Len(waiting) = Len(Todo(c)) + 2
      /\ waiting[1] = f
      /\ waiting[2] = LEAVE
      /\ \A k \in 3 .. Len(waiting) : /\ waiting[k] = Todo(c)[k - 2]
                                      /\ k - 2 \in 1 .. Len(Todo(c))
  <2> DEFINE s == <<f, LEAVE>>
  <2>1. s \in Seq(Tasks) /\ Len(s) = 2 /\ s[1] = f /\ s[2] = LEAVE
    BY <1>1
  <2>2. waiting = s \o Todo(c)
    BY <1>1
  <2> HIDE DEF s, f
  <2>3. Todo(c) \in Seq(Tasks)
    BY <1>3
  <2>4. /\ Len(s \o Todo(c)) = Len(Todo(c)) + 2
        /\ (s \o Todo(c))[1] = s[1]
        /\ (s \o Todo(c))[2] = s[2]
        /\ \A k \in 3 .. Len(Todo(c)) + 2 :
             (s \o Todo(c))[k] = Todo(c)[k - 2]
    <3>1. /\ Len(s \o Todo(c)) = Len(s) + Len(Todo(c))
          /\ \A k \in 1 .. Len(s) + Len(Todo(c)) :
               (s \o Todo(c))[k] = IF k <= Len(s) THEN s[k] ELSE Todo(c)[k - Len(s)]
      BY <2>1, <2>3, ConcatProperties
    <3> HIDE DEF n
    <3>2. Len(Todo(c)) \in Nat
      BY <2>3
    <3> QED
      BY <2>1, <3>1, <3>2
  <2>5. \A k \in 3 .. Len(Todo(c)) + 2 : k - 2 \in 1 .. Len(Todo(c))
    BY <2>3
  <2> QED
    BY <2>1, <2>2, <2>4, <2>5
<1>7. f.do = "FUNCTION" /\ LEAVE.do = "LEAVE"
  BY DEF FUNCTION, LEAVE
<1> HIDE DEF f
<1>8. Placed(d)
  <2>1. ASSUME NEW l \in 1 .. Level(d), NEW k \in 1 .. Len(d.scopes[l].todo)
        PROVE  Fits(d.scopes[l].instructions, l, d.scopes[l].todo[k])
    <3>1. CASE l = n + 1
      BY <1>2, <1>4, <1>5, <2>1, <3>1, EasyFits
    <3>2. CASE l = n
      <4>1. /\ d.scopes[l].todo = waiting
            /\ d.scopes[l].instructions = Emitted(e)
            /\ k \in 1 .. Len(waiting)
        BY <1>2, <1>3, <1>4, <2>1, <3>2
      <4>2. CASE k \in {1, 2}
        BY <1>6, <1>7, <4>1, <4>2 DEF Fits
      <4>3. CASE k \in 3 .. Len(waiting)
        <5>1. waiting[k] = Todo(c)[k - 2] /\ k - 2 \in 1 .. Len(Todo(c))
          BY <1>6, <4>3
        <5>2. Todo(c)[k - 2] \in Tasks
          BY <1>3, <5>1
        <5>3. Fits(Emitted(c), l, Todo(c)[k - 2])
          <6>1. l \in 1 .. Level(c)
            BY <1>3, <3>2
          <6>2. Emitted(c) = c.scopes[l].instructions /\ Todo(c) = c.scopes[l].todo
            BY <3>2 DEF Emitted, Scope, Todo
          <6> QED
            BY <5>1, <6>1, <6>2 DEF Sane, Placed
        <5>4. Fits(Emitted(e), l, Todo(c)[k - 2])
          BY <5>2, <5>3, FitsMoves
        <5> QED
          BY <4>1, <5>1, <5>4
      <4> QED
        BY <1>3, <1>6, <4>1, <4>2, <4>3
    <3>3. CASE l \in 1 .. n - 1
      <4>1. l \in 1 .. n /\ l \in 1 .. Level(c)
        BY <1>3, <3>3
      <4>2. /\ d.scopes[l].instructions = c.scopes[l].instructions
            /\ d.scopes[l].todo = c.scopes[l].todo
        BY <1>1, <1>2, <3>3, <4>1
      <4> QED
        BY <2>1, <4>1, <4>2 DEF Sane, Placed
    <3> QED
      BY <1>2, <1>3, <3>1, <3>2, <3>3, SMTT(30)
  <2>2. ASSUME NEW l \in 1 .. Level(d) - 1
        PROVE  Waiting(d.scopes[l].todo)
    <3>1. CASE l = n
      <4>1. d.scopes[l].todo = waiting
        BY <1>2, <1>3, <1>4, <3>1
      <4>2. \A k \in 2 .. Len(waiting) : Plain(waiting[k])
        <5> SUFFICES ASSUME NEW k \in 2 .. Len(waiting)
                     PROVE  Plain(waiting[k])
          OBVIOUS
        <5>1. CASE k = 2
          BY <1>6, <1>7, <5>1 DEF Plain
        <5>2. CASE k \in 3 .. Len(waiting)
          BY <1>6, <5>2
        <5> QED
          BY <1>3, <1>6, <5>1, <5>2
      <4>3. waiting # << >>
        BY <1>3, <1>6
      <4> QED
        BY <1>6, <1>7, <4>1, <4>2, <4>3 DEF Waiting
    <3>2. CASE l \in 1 .. n - 1
      <4>1. l \in 1 .. n
        BY <1>3, <3>2
      <4>2. d.scopes[l].todo = c.scopes[l].todo
        BY <1>1, <1>2, <3>2, <4>1
      <4> QED
        BY <3>2, <4>2 DEF Sane, Placed
    <3> QED
      BY <1>2, <1>3, <3>1, <3>2
  <2>3. Ordered(Todo(d))
    BY <1>2, <1>5 DEF Ordered, Easy
  <2> QED
    BY <2>1, <2>2, <2>3 DEF Placed
<1>9. Counted(d)
  <2>1. \A k \in 1 .. n - 1 : e.scopes[k].instructions = c.scopes[k].instructions
    BY <1>1
  <2>2. /\ TotalLength(c.scopes) \in Nat
        /\ TotalLength(e.scopes) \in Nat
        /\ TotalLength(e.scopes) + Len(Emitted(c)) = TotalLength(c.scopes) + Len(Emitted(e))
    BY <1>1, <2>1, ScopesTotal
  <2>3. TotalLength(d.scopes) = TotalLength(e.scopes)
    <3>1. /\ d.scopes \in Seq(CompilerScopes) /\ Len(d.scopes) = n + 1
          /\ e.scopes \in Seq(CompilerScopes) /\ Len(e.scopes) = n
      BY <1>1, <1>2, CurrentScope DEF Level
    <3>2. Coded(d.scopes)
      <4>1. \A k \in 1 .. n + 1 : d.scopes[k] \in CompilerScopes
        BY <1>3, <3>1
      <4>2. \A x \in CompilerScopes : Len(x.instructions) \in Nat
        BY DEF CompilerScopes
      <4> QED
        BY <3>1, <4>1, <4>2 DEF Coded
    <3>3. \A k \in 1 .. Len(e.scopes) :
            Len(d.scopes[k].instructions) = Len(e.scopes[k].instructions)
      BY <1>2, <3>1
    <3>4. Len(e.scopes) \in Nat /\ Len(d.scopes) = Len(e.scopes) + 1
      BY <1>3, <3>1
    <3>5. TotalLength(d.scopes) = TotalLength(e.scopes)
                                    + Len(d.scopes[Len(d.scopes)].instructions)
      BY <3>2, <3>3, <3>4, TotalMore, Zenon
    <3>6. Len(d.scopes[Len(d.scopes)].instructions) = 0
      BY <1>2, <1>4, <3>1
    <3> QED
      BY <2>2, <3>5, <3>6
  <2>4. TotalLength(c.functions) \in Nat
    BY <1>3, FunctionsTotal
  <2>5. TotalLength(c.functions) + TotalLength(c.scopes) <= c.instruction_count
    BY DEF Sane, Counted
  <2>6. /\ c.instruction_count \in Nat /\ e.instruction_count \in Nat
        /\ Len(Emitted(c)) \in Nat /\ Len(Emitted(e)) \in Nat
    BY Counts
  <2>7. TotalLength(d.functions) + TotalLength(d.scopes) <= d.instruction_count
    <3>1. d.functions = c.functions /\ d.instruction_count = e.instruction_count
      BY <1>1, <1>2
    <3>2. TotalLength(c.functions) + TotalLength(e.scopes) <= e.instruction_count
      BY <1>1, <2>2, <2>4, <2>5, <2>6, SMTT(30)
    <3> QED
      BY <2>3, <3>1, <3>2
  <2>8. \A k \in 1 .. Len(Todo(d)) : Todo(d)[k].do # "CLOSURE"
    BY <1>2, <1>5 DEF Easy
  <2> QED
    BY <2>7, <2>8 DEF Counted
<1>10. /\ GlobalEntries(d) = GlobalEntries(e)
       /\ d.scopes[1].definition_count = e.scopes[1].definition_count
  <2>1. 1 \in 1 .. n
    BY <1>3
  <2>2. d.scopes[1] = e.scopes[1]
    BY <1>2, <2>1
  <2> QED
    BY <2>2 DEF GlobalEntries
<1>11. Globals(d) /\ SameGlobals(c, d)
  BY <1>1, <1>10 DEF Globals, SameGlobals
<1>12. Longer(c.functions, d.functions)
  BY <1>1, <1>2, <1>3 DEF Longer
<1> QED
  BY <1>1, <1>2, <1>8, <1>9, <1>11, <1>12 DEF Sane, Grows

(* Appending makes a sequence longer, and longer still is longer. *)
LEMMA LongerAppend ==
  /\ \A S : \A s \in Seq(S) : \A x : Longer(s, Append(s, x))
  /\ \A s, t, u : (/\ Len(s) \in Nat /\ Len(t) \in Nat /\ Len(u) \in Nat
                  /\ Longer(s, t) /\ Longer(t, u)) => Longer(s, u)
<1>1. \A S : \A s \in Seq(S) : \A x : Longer(s, Append(s, x))
  BY DEF Longer
<1>2. ASSUME NEW s, NEW t, NEW u, Len(s) \in Nat, Len(t) \in Nat, Len(u) \in Nat,
             Longer(s, t), Longer(t, u)
      PROVE  Longer(s, u)
  BY <1>2 DEF Longer
<1> QED
  BY <1>1, <1>2

(* The closure is made: the function's code, counted when it was emitted, is now
   one of the compiler's. *)
LEMMA SaneCloses ==
  ASSUME NEW c \in Compilers, ~Failed(c), Sane(c), NEW function \in CompiledFunctions,
         TotalLength(c.functions) + TotalLength(c.scopes) + Len(function.instructions)
           <= c.instruction_count,
         \A k \in 1 .. Len(Todo(c)) : Plain(Todo(c)[k]),
         NEW e \in Compilers, AddsFunction(c, e, function),
         NEW d, NEW operand, NEW operand2, Emits(e, d, "CLOSURE", operand, operand2)
  PROVE  d \in Compilers /\ ~Failed(d) /\ Sane(d) /\ Grows(c, d)
<1>1. /\ ~Failed(e)
      /\ e.scopes = c.scopes
      /\ e.functions = Append(c.functions, function)
      /\ e.constants = Append(c.constants, [type |-> "COMPILED_FUNCTION",
                                            data |-> Len(c.functions) + 1])
      /\ e.instruction_count = c.instruction_count
  BY DEF AddsFunction
<1>2. c.functions \in Seq(CompiledFunctions) /\ e.functions \in Seq(CompiledFunctions)
  BY DEF Compilers
<1>3. TotalLength(e.functions) = TotalLength(c.functions) + Len(function.instructions)
  <2>1. Coded(e.functions)
    BY <1>2, FunctionsTotal
  <2>2. /\ Len(c.functions) \in Nat
        /\ Len(e.functions) = Len(c.functions) + 1
        /\ e.functions[Len(e.functions)] = function
        /\ \A k \in 1 .. Len(c.functions) : e.functions[k] = c.functions[k]
    BY <1>1, <1>2
  <2>3. \A k \in 1 .. Len(c.functions) :
          Len(e.functions[k].instructions) = Len(c.functions[k].instructions)
    BY <2>2
  <2>4. TotalLength(e.functions) = TotalLength(c.functions)
                                     + Len(e.functions[Len(e.functions)].instructions)
    BY <2>1, <2>2, <2>3, TotalMore, Zenon
  <2> QED
    BY <2>2, <2>4
<1>4. /\ Todo(e) = Todo(c) /\ Emitted(e) = Emitted(c) /\ Level(e) = Level(c)
      /\ GlobalEntries(e) = GlobalEntries(c)
  BY <1>1 DEF Todo, Emitted, Scope, Level, GlobalEntries
<1>5. Placed(e)
  BY <1>1, <1>4 DEF Sane, Placed
<1>6. Counted(e)
  <2>1. /\ TotalLength(c.functions) \in Nat
        /\ TotalLength(c.scopes) \in Nat
        /\ Len(function.instructions) \in Nat
    <3>1. TotalLength(c.functions) \in Nat
      BY <1>2, FunctionsTotal
    <3>2. TotalLength(c.scopes) \in Nat
      BY ScopesTotal
    <3>3. Len(function.instructions) \in Nat
      BY DEF CompiledFunctions
    <3> QED
      BY <3>1, <3>2, <3>3
  <2>2. TotalLength(e.functions) + TotalLength(e.scopes) <= e.instruction_count
    BY <1>1, <1>3, <2>1
  <2>3. \A k \in 1 .. Len(Todo(e)) : Todo(e)[k].do # "CLOSURE"
    BY <1>4 DEF Plain
  <2> QED
    BY <2>2, <2>3 DEF Counted
<1>7. Globals(e)
  BY <1>1, <1>4 DEF Sane, Globals
<1>8. Moves(e, d, << >>)
  BY EmitsMoves
<1>9. Right(d, << >>)
  BY DEF Right
<1>10. d \in Compilers /\ ~Failed(d) /\ Sane(d) /\ Grows(e, d)
  BY <1>1, <1>5, <1>6, <1>7, <1>8, <1>9, SaneMoves DEF Sane
<1>11. Grows(c, d)
  <2>0. /\ c.constants \in Seq(Values) /\ e.constants \in Seq(Values)
        /\ d.constants \in Seq(Values) /\ d.functions \in Seq(CompiledFunctions)
    BY <1>10 DEF Compilers
  <2>1. Longer(c.constants, d.constants)
    <3>1. Longer(c.constants, e.constants) /\ Longer(e.constants, d.constants)
      BY <1>1, <1>10, <2>0, LongerAppend DEF Grows
    <3> QED
      BY <2>0, <3>1, LongerAppend
  <2>2. Longer(c.functions, d.functions)
    <3>1. Longer(c.functions, e.functions) /\ Longer(e.functions, d.functions)
      BY <1>1, <1>2, <1>10, LongerAppend DEF Grows
    <3> QED
      BY <1>2, <2>0, <3>1, LongerAppend
  <2>3. SameGlobals(c, d)
    BY <1>4, <1>10 DEF Grows, SameGlobals
  <2> QED
    BY <2>1, <2>2, <2>3 DEF Grows
<1> QED
  BY <1>10, <1>11

(* A body is compiled: the scope around the function goes on, with what it captured
   to load and the closure to make. *)
LEMMA SaneEnds ==
  ASSUME NEW c \in Compilers, ~Failed(c), Sane(c), Todo(c) = << >>, Level(c) > 1,
         NEW e \in Compilers, Body(c, e), NEW d, Closes(e, d)
  PROVE  d \in Compilers /\ ~Failed(d) /\ Sane(d) /\ Grows(c, d)
<1>1. Moves(c, e, << >>)
  BY BodyMoves
<1>2. ~Failed(e) /\ Sane(e) /\ Grows(c, e) /\ Level(e) = Level(c)
  <2>1. Right(e, << >>)
    BY DEF Right
  <2> QED
    BY <1>1, <2>1, SaneMoves DEF Moves
<1> DEFINE l == Level(c) - 1
           around == e.scopes[l]
           loads == Loads(Scope(e).free_symbols)
           f == FunctionOf(e, around.todo[1].parameter_count)
           last == CLOSURE(f, Len(Scope(e).free_symbols))
           first == Append(loads, last)
           old == around.todo
           new == Todo(d)
<1>3. /\ d \in Compilers /\ ~Failed(d)
      /\ Level(d) = l
      /\ \A k \in 1 .. l - 1 : d.scopes[k] = e.scopes[k]
      /\ Scope(d).instructions = around.instructions
      /\ Scope(d).entries = around.entries
      /\ Scope(d).definition_count = around.definition_count
      /\ f \in CompiledFunctions
      /\ first \in Seq(Tasks)
      /\ new = first \o Tail(old)
      /\ SameBytecode(e, d)
      /\ d.instruction_count = e.instruction_count
  BY <1>2 DEF Closes
<1>4. /\ l \in Nat \ {0} /\ Level(e) = l + 1 /\ l \in 1 .. Level(e)
      /\ Scope(e).free_symbols \in Seq(Symbols)
  BY <1>2, CurrentScope DEF CompilerScopes
<1>5. /\ d.scopes[l] = Scope(d)
      /\ new = d.scopes[l].todo
      /\ Emitted(e) = e.scopes[l + 1].instructions
      /\ Emitted(d) = d.scopes[l].instructions
  BY <1>3, <1>4 DEF Scope, Todo, Emitted
<1>6. old \in Seq(Tasks) /\ Waiting(old)
  BY <1>2, <1>4, OpenScope DEF Sane, Placed
<1>7. /\ Tail(old) \in Seq(Tasks)
      /\ Len(Tail(old)) = Len(old) - 1
      /\ \A k \in 1 .. Len(old) - 1 : Tail(old)[k] = old[k + 1] /\ k + 1 \in 2 .. Len(old)
  BY <1>6 DEF Waiting
<1>8. /\ loads \in Seq(Tasks)
      /\ \A k \in 1 .. Len(loads) : loads[k].do = "LOAD"
  BY <1>4, LoadTasks
<1>9. last.do = "CLOSURE" /\ last.function = f /\ f.instructions = Emitted(e)
  BY DEF CLOSURE, FunctionOf
<1> HIDE DEF loads, last, f
<1>10. /\ Len(first) = Len(loads) + 1
       /\ \A k \in 1 .. Len(loads) : first[k].do = "LOAD"
       /\ first[Len(loads) + 1] = last
       /\ Len(loads) \in Nat
  BY <1>8
<1> HIDE DEF first, old, new, around
<1>11. /\ Len(new) = Len(first) + Len(old) - 1
       /\ \A k \in 1 .. Len(first) : new[k] = first[k]
       /\ \A k \in 1 .. Len(old) - 1 : new[Len(first) + k] = old[k + 1]
       /\ Len(old) \in Nat \ {0}
  BY <1>3, <1>6, <1>7 DEF Waiting
<1>12. Placed(d)
  <2>1. ASSUME NEW k \in 1 .. Level(d), NEW j \in 1 .. Len(d.scopes[k].todo)
        PROVE  Fits(d.scopes[k].instructions, k, d.scopes[k].todo[j])
    <3>1. CASE k \in 1 .. l - 1
      <4>1. d.scopes[k] = e.scopes[k] /\ k \in 1 .. Level(e)
        BY <1>3, <1>4, <3>1
      <4> QED
        BY <1>2, <2>1, <4>1 DEF Sane, Placed
    <3>2. CASE k = l
      <4>1. /\ d.scopes[k].todo = new
            /\ d.scopes[k].instructions = around.instructions
            /\ j \in 1 .. Len(new)
        BY <1>3, <1>5, <2>1, <3>2
      <4>2. CASE j <= Len(first)
        <5>1. new[j].do \in {"LOAD", "CLOSURE"}
          <6>1. j \in 1 .. Len(first) /\ new[j] = first[j]
            BY <1>10, <1>11, <4>1, <4>2
          <6> QED
            BY <1>9, <1>10, <6>1
        <5> QED
          BY <4>1, <5>1 DEF Fits
      <4>3. CASE j > Len(first)
        <5> DEFINE i == j - Len(first)
        <5>1. i \in 1 .. Len(old) - 1 /\ new[j] = old[i + 1] /\ i + 1 \in 1 .. Len(old)
          <6>1. i \in 1 .. Len(old) - 1 /\ Len(first) + i = j
            BY <1>10, <1>11, <4>1, <4>3
          <6> HIDE DEF i
          <6> QED
            BY <1>11, <6>1
        <5>2. Fits(around.instructions, l, old[i + 1])
          <6>1. around = e.scopes[l] /\ old = e.scopes[l].todo
            BY DEF around, old
          <6> HIDE DEF i
          <6> QED
            BY <1>2, <1>4, <5>1, <6>1 DEF Sane, Placed
        <5> QED
          BY <3>2, <4>1, <5>1, <5>2
      <4> QED
        BY <1>10, <4>1, <4>2, <4>3
    <3> QED
      BY <1>3, <1>4, <3>1, <3>2
  <2>2. ASSUME NEW k \in 1 .. Level(d) - 1
        PROVE  Waiting(d.scopes[k].todo)
    <3>1. d.scopes[k] = e.scopes[k] /\ k \in 1 .. Level(e) - 1
      BY <1>3, <1>4, <2>2
    <3> QED
      BY <1>2, <3>1 DEF Sane, Placed
  <2>3. Ordered(new)
    <3> SUFFICES ASSUME NEW k \in 1 .. Len(new)
                 PROVE  /\ new[k].do # "FUNCTION"
                        /\ new[k].do \in {"LOAD", "CLOSURE"} =>
                             \A j \in 1 .. k - 1 : new[j].do = "LOAD"
      BY DEF Ordered
    <3>1. \A j \in 1 .. Len(loads) : new[j].do = "LOAD"
      BY <1>10, <1>11
    <3>2. CASE k <= Len(first)
      <4>1. new[k].do \in {"LOAD", "CLOSURE"}
        <5>1. k \in 1 .. Len(first) /\ new[k] = first[k]
          BY <1>10, <1>11, <3>2
        <5> QED
          BY <1>9, <1>10, <5>1
      <4>2. \A j \in 1 .. k - 1 : j \in 1 .. Len(loads)
        BY <1>10, <3>2
      <4> QED
        BY <3>1, <4>1, <4>2
    <3>3. CASE k > Len(first)
      <4> DEFINE i == k - Len(first)
      <4>1. i \in 1 .. Len(old) - 1 /\ Len(first) + i = k
        BY <1>10, <1>11, <3>3
      <4> HIDE DEF i
      <4>2. new[k] = old[i + 1] /\ i + 1 \in 2 .. Len(old)
        BY <1>11, <4>1
      <4> QED
        BY <1>6, <4>2 DEF Waiting, Plain
    <3> QED
      BY <1>10, <3>2, <3>3
  <2> QED
    BY <2>1, <2>2, <2>3 DEF Placed, new
<1> DEFINE t == TotalLength(d.scopes)
           u == TotalLength(e.scopes)
           m == Len(Emitted(e))
           fs == TotalLength(e.functions)
<1>13. t \in Nat /\ u = t + m /\ m \in Nat
  <2>1. /\ e.scopes \in Seq(CompilerScopes) /\ Len(e.scopes) = l + 1
        /\ d.scopes \in Seq(CompilerScopes) /\ Len(d.scopes) = l
    BY <1>3, <1>4, CurrentScope DEF Level
  <2>2. Coded(e.scopes)
    <3>1. \A k \in 1 .. l + 1 : e.scopes[k] \in CompilerScopes
      BY <1>4, <2>1
    <3>2. \A x \in CompilerScopes : Len(x.instructions) \in Nat
      BY DEF CompilerScopes
    <3> QED
      BY <2>1, <3>1, <3>2 DEF Coded
  <2>3. \A k \in 1 .. Len(d.scopes) :
          Len(e.scopes[k].instructions) = Len(d.scopes[k].instructions)
    <3> SUFFICES ASSUME NEW k \in 1 .. l
                 PROVE  e.scopes[k].instructions = d.scopes[k].instructions
      BY <2>1
    <3>1. CASE k = l
      BY <1>3, <1>5, <3>1 DEF around
    <3>2. CASE k # l
      <4>1. k \in 1 .. l - 1
        BY <1>4, <3>2
      <4> QED
        BY <1>3, <4>1
    <3> QED
      BY <3>1, <3>2
  <2>4. Len(d.scopes) \in Nat /\ Len(e.scopes) = Len(d.scopes) + 1
    BY <1>4, <2>1
  <2>5. /\ TotalLength(e.scopes) = TotalLength(d.scopes)
                                     + Len(e.scopes[Len(e.scopes)].instructions)
        /\ TotalLength(d.scopes) \in Nat
    BY <2>2, <2>3, <2>4, TotalMore, Zenon
  <2> QED
    BY <1>5, <2>1, <2>5, Counts
<1>14. fs \in Nat
  BY FunctionsTotal DEF Compilers
<1>15. fs + u <= e.instruction_count /\ e.instruction_count \in Nat
  BY <1>2, Counts DEF Sane, Counted
<1>16. Counted(d)
  <2>1. d.functions = e.functions /\ d.instruction_count = e.instruction_count
    BY <1>3 DEF SameBytecode
  <2>2. TotalLength(d.functions) + TotalLength(d.scopes) <= d.instruction_count
    BY <1>13, <1>14, <1>15, <2>1
  <2>3. ASSUME NEW k \in 1 .. Len(new), new[k].do = "CLOSURE"
        PROVE  TotalLength(d.functions) + TotalLength(d.scopes)
                 + Len(new[k].function.instructions) <= d.instruction_count
    <3>1. new[k] = last
      <4>1. ~(k > Len(first))
        <5> SUFFICES ASSUME k > Len(first)
                     PROVE  FALSE
          OBVIOUS
        <5> DEFINE i == k - Len(first)
        <5>1. i \in 1 .. Len(old) - 1 /\ Len(first) + i = k
          BY <1>10, <1>11
        <5> HIDE DEF i
        <5>2. new[k] = old[i + 1] /\ i + 1 \in 2 .. Len(old)
          BY <1>11, <5>1
        <5> QED
          BY <1>6, <2>3, <5>2 DEF Waiting, Plain
      <4>2. k \in 1 .. Len(first) /\ new[k] = first[k]
        BY <1>10, <1>11, <4>1
      <4> QED
        BY <1>10, <2>3, <4>2
    <3>2. Len(new[k].function.instructions) = m
      BY <1>9, <3>1
    <3> QED
      BY <1>13, <1>14, <1>15, <2>1, <3>2
  <2> QED
    BY <2>2, <2>3 DEF Counted, new
<1>17. /\ GlobalEntries(d) = GlobalEntries(e)
       /\ d.scopes[1].definition_count = e.scopes[1].definition_count
  <2>1. CASE l = 1
    BY <1>3, <1>5, <2>1 DEF GlobalEntries, around
  <2>2. CASE l # 1
    <3>1. 1 \in 1 .. l - 1
      <4>1. l \in Nat \ {0}
        BY <1>4
      <4> HIDE DEF l
      <4> QED
        BY <2>2, <4>1
    <3> QED
      BY <1>3, <3>1 DEF GlobalEntries
  <2> QED
    BY <2>1, <2>2
<1>18. Globals(d) /\ SameGlobals(c, d)
  BY <1>2, <1>17 DEF Globals, SameGlobals, Sane, Grows
<1>19. Longer(c.constants, d.constants) /\ Longer(c.functions, d.functions)
  BY <1>2, <1>3 DEF Grows, SameBytecode
<1> QED
  BY <1>3, <1>12, <1>16, <1>18, <1>19 DEF Sane, Grows

(* Where a task was begun, and what comes of it is a step. *)
LEMMA GoesSteps ==
  ASSUME NEW c \in Compilers, ~Failed(c), Sane(c), Todo(c) # << >>,
         Task(c).do # "LOAD", NEW d, Goes(Begun(c), d)
  PROVE  Steps(c, d)
<1> DEFINE b == Begun(c)
<1>1. /\ b \in Compilers /\ ~Failed(b) /\ Sane(b)
      /\ SameBytecode(c, b)
      /\ GlobalEntries(b) = GlobalEntries(c)
      /\ \A k \in 1 .. Len(Todo(b)) : Plain(Todo(b)[k])
  BY BegunSane, Zenon
<1> HIDE DEF b
<1>2. PICK tasks : Moves(b, d, tasks) /\ Right(d, tasks)
  BY DEF Goes, b
<1>3. d \in Compilers /\ ~Failed(d) /\ Sane(d) /\ Grows(b, d)
  BY <1>1, <1>2, SaneMoves
<1>4. Grows(c, d)
  BY <1>1, <1>3 DEF Grows, SameBytecode, SameGlobals
<1> QED
  BY <1>3, <1>4 DEF Steps

(* What each step of the compiler makes of it. *)
LEMMA TaskSteps ==
  ASSUME compiler \in Compilers, ~Failed(compiler), Sane(compiler),
         CompileStep
  PROVE  \E d : Becomes(d) /\ Steps(compiler, d)
<1> DEFINE c == compiler
           b == Begun(c)
           task == Task(c)
<1>1. Todo(c) # << >>
  BY DEF CompileStep, Doing, Todo
<1>2. /\ b \in Compilers /\ ~Failed(b) /\ Sane(b)
      /\ SameBytecode(c, b)
      /\ GlobalEntries(b) = GlobalEntries(c)
      /\ task \in Tasks
      /\ task.do # "LOAD" => \A k \in 1 .. Len(Todo(b)) : Plain(Todo(b)[k])
      /\ Fits(Emitted(b), Level(b), task)
      /\ task.do = "CLOSURE" =>
           TotalLength(b.functions) + TotalLength(b.scopes)
             + Len(task.function.instructions) <= b.instruction_count
  BY <1>1, BegunSane, Zenon
<1>3. ASSUME NEW d, task.do # "LOAD", Becomes(d), Stops(d) \/ Goes(b, d)
      PROVE  \E x : Becomes(x) /\ Steps(c, x)
  <2>1. CASE Stops(d)
    BY <1>3, <2>1 DEF Steps
  <2>2. CASE Goes(b, d)
    <3>1. Steps(c, d)
      BY <1>1, <1>3, <2>2, GoesSteps
    <3> QED
      BY <1>3, <3>1
  <2> QED
    BY <1>3, <2>1, <2>2
<1>4. ASSUME NEW d, Becomes(d), d \in Compilers, ~Failed(d), Sane(d), Grows(b, d)
      PROVE  \E x : Becomes(x) /\ Steps(c, x)
  <2>1. Grows(c, d)
    BY <1>2, <1>4 DEF Grows, SameBytecode, SameGlobals
  <2> QED
    BY <1>4, <2>1 DEF Steps
<1> HIDE DEF b, task, c
<1> SUFFICES \E x : Becomes(x) /\ Steps(c, x)
  BY DEF c
<1>5. CASE task.do = "STATEMENT" /\ Becomes(CompileStatement(b, task.stmt))
  BY <1>2, <1>3, <1>5, TaskKinds, StatementGoes
<1>6. CASE task.do = "LET" /\ Becomes(CompileLet(b, task.name))
  BY <1>2, <1>3, <1>6, TaskKinds, LetGoes
<1>7. CASE task.do = "STORE" /\ Becomes(StoreSymbol(b, task.symbol))
  BY <1>2, <1>3, <1>7, TaskKinds, SymbolGoes
<1>8. CASE task.do = "EXPRESSION" /\ Becomes(CompileExpression(b, task.expr, task.name))
  <2>1. task.expr \in Exprs /\ task.name \in STRING \union {NoName}
    BY <1>2, <1>8, TaskKinds
  <2> DEFINE d == CompileExpression(b, task.expr, task.name)
  <2>2. \/ Stops(d)
        \/ Goes(b, d)
        \/ \E e \in Compilers :
             /\ task.expr.type = "FUNCTION"
             /\ Moves(b, e, <<FUNCTION(Len(task.expr.parameters)), LEAVE>>)
             /\ Opens(e, d, task.expr, task.name)
    BY <1>2, <2>1, ExpressionGoes, Zenon
  <2> HIDE DEF d
  <2>3. CASE Stops(d) \/ Goes(b, d)
    BY <1>3, <1>8, <2>3 DEF d
  <2>4. CASE \E e \in Compilers :
               /\ task.expr.type = "FUNCTION"
               /\ Moves(b, e, <<FUNCTION(Len(task.expr.parameters)), LEAVE>>)
               /\ Opens(e, d, task.expr, task.name)
    <3>1. PICK e \in Compilers :
               /\ task.expr.type = "FUNCTION"
               /\ Moves(b, e, <<FUNCTION(Len(task.expr.parameters)), LEAVE>>)
               /\ Opens(e, d, task.expr, task.name)
      BY <2>4
    <3>2. \A k \in 1 .. Len(Todo(b)) : Plain(Todo(b)[k])
      BY <1>2, <1>8
    <3>3. d \in Compilers /\ ~Failed(d) /\ Sane(d) /\ Grows(b, d)
      BY <1>2, <2>1, <3>1, <3>2, SaneOpens
    <3> QED
      BY <1>4, <1>8, <3>3 DEF d
  <2> QED
    BY <2>2, <2>3, <2>4
<1>9. CASE task.do = "LEAVE" /\ Becomes(LeaveExpression(b))
  BY <1>2, <1>3, <1>9, LeaveGoes
<1>10. CASE task.do = "EMIT" /\ Becomes(Emit(b, task.op, task.operand, 0))
  BY <1>2, <1>3, <1>10, TaskKinds, EmitGoes
<1>11. CASE /\ task.do = "CAPTURE"
            /\ Becomes(Capture(b, task.name, task.level, task.symbol))
  <2>1. task.level \in 2 .. Level(b)
    BY <1>2, <1>11 DEF Fits
  <2> QED
    BY <1>2, <1>3, <1>11, <2>1, TaskKinds, CaptureGoes
<1>12. CASE /\ task.do = "CONSEQUENCE"
            /\ Becomes(CompileConsequence(b, task.consequence, task.alternative))
  BY <1>2, <1>3, <1>12, TaskKinds, ConsequenceGoes
<1>13. CASE /\ task.do = "ALTERNATIVE"
            /\ Becomes(CompileAlternative(b, task.stmts, task.jump_if_false))
  <2>1. task.stmts \in Seq(Stmts) /\ task.jump_if_false \in Nat
    BY <1>2, <1>13, TaskKinds
  <2>2. JumpAt(b, task.jump_if_false, "JUMP_NOT_TRUTHY")
    BY <1>2, <1>13, <2>1 DEF Fits, JumpAt
  <2> QED
    BY <1>2, <1>3, <1>13, <2>1, <2>2, AlternativeGoes
<1>14. CASE task.do = "END_IF" /\ Becomes(EndIf(b, task.jump_end))
  <2>1. task.jump_end \in Nat
    BY <1>2, <1>14, TaskKinds
  <2>2. JumpAt(b, task.jump_end, "JUMP")
    BY <1>2, <1>14, <2>1 DEF Fits, JumpAt
  <2> QED
    BY <1>2, <1>3, <1>14, <2>2, EndIfGoes
<1>15. CASE task.do = "ARGUMENTS" /\ Becomes(CompileArguments(b, task.exprs))
  BY <1>2, <1>3, <1>15, TaskKinds, ArgumentsGo
<1>16. CASE task.do = "DEFINE" /\ Becomes(DefineSymbol(b, task.name))
  BY <1>2, <1>3, <1>16, TaskKinds, DefineGoes
<1>17. CASE task.do = "LOAD" /\ Becomes(LoadSymbol(b, task.symbol))
  <2> DEFINE d == LoadSymbol(b, task.symbol)
  <2>1. Stops(d) \/ Moves(b, d, << >>)
    BY <1>2, <1>17, TaskKinds, SymbolGoes
  <2> HIDE DEF d
  <2>2. CASE Stops(d)
    BY <1>17, <2>2 DEF Steps, d
  <2>3. CASE Moves(b, d, << >>)
    <3>1. Right(d, << >>)
      BY DEF Right
    <3>2. d \in Compilers /\ ~Failed(d) /\ Sane(d) /\ Grows(b, d)
      BY <1>2, <2>3, <3>1, SaneMoves
    <3> QED
      BY <1>4, <1>17, <3>2 DEF d
  <2> QED
    BY <2>1, <2>2, <2>3
<1>18. CASE /\ task.do = "CLOSURE"
            /\ Becomes(MakeClosure(b, task.function, task.free_count))
  <2>1. task.function \in CompiledFunctions /\ task.free_count \in Nat
    BY <1>2, <1>18, TaskKinds
  <2> DEFINE d == MakeClosure(b, task.function, task.free_count)
  <2>2. \/ Stops(d)
        \/ \E e \in Compilers :
             /\ AddsFunction(b, e, task.function)
             /\ Emits(e, d, "CLOSURE", Len(b.constants), task.free_count)
    BY <1>2, <2>1, ClosureIs, Zenon
  <2> HIDE DEF d
  <2>3. CASE Stops(d)
    BY <1>18, <2>3 DEF Steps, d
  <2>4. CASE \E e \in Compilers :
               /\ AddsFunction(b, e, task.function)
               /\ Emits(e, d, "CLOSURE", Len(b.constants), task.free_count)
    <3>1. PICK e \in Compilers :
               /\ AddsFunction(b, e, task.function)
               /\ Emits(e, d, "CLOSURE", Len(b.constants), task.free_count)
      BY <2>4
    <3>2. \A k \in 1 .. Len(Todo(b)) : Plain(Todo(b)[k])
      BY <1>2, <1>18
    <3>3. d \in Compilers /\ ~Failed(d) /\ Sane(d) /\ Grows(b, d)
      BY <1>2, <1>18, <2>1, <3>1, <3>2, SaneCloses
    <3> QED
      BY <1>4, <1>18, <3>3 DEF d
  <2> QED
    BY <2>2, <2>3, <2>4
<1>19. \/ task.do = "STATEMENT" /\ Becomes(CompileStatement(b, task.stmt))
       \/ task.do = "LET" /\ Becomes(CompileLet(b, task.name))
       \/ task.do = "STORE" /\ Becomes(StoreSymbol(b, task.symbol))
       \/ task.do = "EXPRESSION" /\ Becomes(CompileExpression(b, task.expr, task.name))
       \/ task.do = "LEAVE" /\ Becomes(LeaveExpression(b))
       \/ task.do = "EMIT" /\ Becomes(Emit(b, task.op, task.operand, 0))
       \/ /\ task.do = "CAPTURE"
          /\ Becomes(Capture(b, task.name, task.level, task.symbol))
       \/ /\ task.do = "CONSEQUENCE"
          /\ Becomes(CompileConsequence(b, task.consequence, task.alternative))
       \/ /\ task.do = "ALTERNATIVE"
          /\ Becomes(CompileAlternative(b, task.stmts, task.jump_if_false))
       \/ task.do = "END_IF" /\ Becomes(EndIf(b, task.jump_end))
       \/ task.do = "ARGUMENTS" /\ Becomes(CompileArguments(b, task.exprs))
       \/ task.do = "DEFINE" /\ Becomes(DefineSymbol(b, task.name))
       \/ task.do = "LOAD" /\ Becomes(LoadSymbol(b, task.symbol))
       \/ /\ task.do = "CLOSURE"
          /\ Becomes(MakeClosure(b, task.function, task.free_count))
  BY DEF CompileStep, Doing, b, c, task
<1> QED
  BY <1>5, <1>6, <1>7, <1>8, <1>9, <1>10, <1>11, <1>12, <1>13, <1>14, <1>15, <1>16,
     <1>17, <1>18, <1>19

(* The end of a function is a step. *)
LEMMA EndSteps ==
  ASSUME compiler \in Compilers, ~Failed(compiler), Sane(compiler),
         CompileEndFunction
  PROVE  \E d : Becomes(d) /\ Steps(compiler, d)
<1> DEFINE c == compiler
           d == EndFunction(c)
<1>1. Todo(c) = << >> /\ ~Compiled(c) /\ Becomes(d)
  BY DEF CompileEndFunction, Todo
<1>2. Level(c) > 1 /\ Level(c) \in Nat
  BY <1>1, CurrentScope DEF Compiled, Todo
<1> HIDE DEF c
<1>3. Waiting(c.scopes[Level(c) - 1].todo)
  <2>1. Level(c) - 1 \in 1 .. Level(c) - 1
    BY <1>2
  <2> QED
    BY <2>1 DEF Sane, Placed, c
<1>4. Stops(d) \/ \E e \in Compilers : Body(c, e) /\ Closes(e, d)
  <2>1. /\ c \in Compilers /\ ~Failed(c)
        /\ c.scopes[Level(c) - 1].todo # << >>
        /\ c.scopes[Level(c) - 1].todo[1].do = "FUNCTION"
    BY <1>3 DEF Waiting, c
  <2> QED
    BY <1>2, <2>1, EndFunctionIs, Zenon
<1> HIDE DEF d
<1>5. CASE Stops(d)
  BY <1>1, <1>5 DEF Steps
<1>6. CASE \E e \in Compilers : Body(c, e) /\ Closes(e, d)
  <2>1. PICK e \in Compilers : Body(c, e) /\ Closes(e, d)
    BY <1>6
  <2>2. c \in Compilers /\ ~Failed(c) /\ Sane(c)
    BY DEF c
  <2>3. d \in Compilers /\ ~Failed(d) /\ Sane(d) /\ Grows(c, d)
    BY <1>1, <1>2, <2>1, <2>2, SaneEnds
  <2> QED
    BY <1>1, <2>3 DEF Steps, c
<1> QED
  BY <1>4, <1>5, <1>6

-----------------------------------------------------------------------------
(* Compiler mode *)

(* Compiling a line begins with no code, and with its statements to do. *)
LEMMA CompileStarts ==
  ASSUME NEW c \in Compilers, ~Failed(c), Sane(c), Compiled(c), NEW stmts \in Lines
  PROVE  Steps(c, Compile(c, stmts)) /\ ~Failed(Compile(c, stmts))
<1> DEFINE a == [Scope(c) EXCEPT !.instructions = << >>]
           v == WithScope(c, a)
           s == [Scope(v) EXCEPT !.todo = Statements(stmts)]
           w == WithScope(v, s)
           d == [w EXCEPT !.compile_depth = 0]
<1>1. Level(c) = 1 /\ Todo(c) = << >> /\ Len(c.scopes) = 1
  BY DEF Compiled, Todo, Level
<1>2. stmts \in Seq(Stmts)
  BY SyntaxAssumption
<1>3. /\ Statements(stmts) \in Seq(Tasks)
      /\ Len(Statements(stmts)) = Len(stmts)
      /\ \A k \in 1 .. Len(stmts) : Statements(stmts)[k].do = "STATEMENT"
  BY <1>2, StatementTasks
<1>4. Scope(c) \in CompilerScopes /\ Scope(c) = c.scopes[1] /\ c.scopes \in Seq(CompilerScopes)
  BY <1>1, CurrentScope
<1>5. /\ v \in Compilers
      /\ SameBelow(c, v)
      /\ SameNames(c, v)
      /\ SameBytecode(c, v)
      /\ Emitted(v) = << >>
      /\ v.panic = c.panic
      /\ v.instruction_count = c.instruction_count
  <2>1. << >> \in Seq(Instructions)
    OBVIOUS
  <2> QED
    BY <2>1, WithCodeIs, Zenon
<1>6. Compile(c, stmts) = d
  <2>1. Level(v) = 1
    BY <1>1, <1>5 DEF SameBelow
  <2>2. [c EXCEPT !.scopes[1].instructions = << >>] = v
    BY <1>1 DEF WithScope, Scope
  <2>3. [v EXCEPT !.scopes[1].todo = Statements(stmts)] = w
    <3> HIDE DEF v
    <3> QED
      BY <2>1 DEF WithScope, Scope
  <2>4. Compile(c, stmts)
          = [[[c EXCEPT !.scopes[1].instructions = << >>]
                EXCEPT !.scopes[1].todo = Statements(stmts)] EXCEPT !.compile_depth = 0]
    BY <1>1 DEF Compile
  <2> HIDE DEF v, w
  <2> QED
    BY <2>2, <2>3, <2>4
<1> HIDE DEF v
<1>7. /\ s \in CompilerScopes
      /\ s.instructions = << >>
      /\ s.todo = Statements(stmts)
      /\ s.entries = Scope(c).entries
      /\ s.free_symbols = Scope(c).free_symbols
      /\ s.definition_count = Scope(c).definition_count
  <2>1. Scope(v) \in CompilerScopes
    BY <1>5, CurrentScope
  <2> QED
    BY <1>3, <1>5, <2>1 DEF CompilerScopes, SameNames, Emitted
<1> HIDE DEF s
<1>8. /\ d \in Compilers /\ ~Failed(d)
      /\ d.scopes = w.scopes
      /\ d.constants = c.constants /\ d.functions = c.functions
      /\ d.instruction_count = c.instruction_count
      /\ Scope(w) = s
      /\ Level(w) = 1
  <2>1. /\ w \in Compilers
        /\ SameBytecode(v, w)
        /\ Scope(w) = s
        /\ w.panic = v.panic
        /\ w.instruction_count = v.instruction_count
        /\ Level(w) = Level(v)
    BY <1>5, <1>7, WithScopeIs DEF SameBelow
  <2> HIDE DEF w
  <2>2. /\ d \in Compilers
        /\ d.panic = w.panic
        /\ d.scopes = w.scopes
        /\ d.constants = w.constants /\ d.functions = w.functions
        /\ d.instruction_count = w.instruction_count
    <3>1. w \in Compilers
      BY <2>1
    <3>2. PICK depth \in Int : depth = 0
      OBVIOUS
    <3>3. d = [w EXCEPT !.compile_depth = depth]
      BY <3>2
    <3> HIDE DEF d
    <3> QED
      BY <3>1, <3>3 DEF Compilers
  <2> HIDE DEF d
  <2> QED
    BY <1>1, <1>5, <2>1, <2>2 DEF Failed, SameBytecode, SameBelow
<1> HIDE DEF d, w
<1>9. /\ Level(d) = 1
      /\ Scope(d) = s
      /\ d.scopes[1] = s
      /\ Todo(d) = Statements(stmts)
      /\ Emitted(d) = << >>
  <2>1. Level(d) = 1 /\ Scope(d) = s
    BY <1>8 DEF Level, Scope
  <2> QED
    BY <1>7, <2>1 DEF Scope, Todo, Emitted
<1>10. \A k \in 1 .. Len(Todo(d)) : Easy(Todo(d)[k])
  BY <1>3, <1>9 DEF Easy
<1>11. Placed(d)
  <2>1. \A l \in 1 .. Level(d) : \A k \in 1 .. Len(d.scopes[l].todo) :
          Fits(d.scopes[l].instructions, l, d.scopes[l].todo[k])
    <3> SUFFICES ASSUME NEW k \in 1 .. Len(d.scopes[1].todo)
                 PROVE  Fits(d.scopes[1].instructions, 1, d.scopes[1].todo[k])
      BY <1>9
    <3>1. d.scopes[1].todo = Todo(d)
      BY <1>7, <1>9
    <3> QED
      BY <1>10, <3>1, EasyFits
  <2>2. Ordered(Todo(d))
    BY <1>10 DEF Ordered, Easy
  <2> QED
    BY <1>9, <2>1, <2>2 DEF Placed
<1>12. Counted(d)
  <2>1. /\ TotalLength(c.scopes) \in Nat
        /\ TotalLength(d.scopes) \in Nat
        /\ TotalLength(d.scopes) + Len(Emitted(c)) = TotalLength(c.scopes) + Len(Emitted(d))
    <3>1. /\ d \in Compilers
          /\ Level(d) = Level(c)
          /\ \A k \in 1 .. Level(c) - 1 :
               d.scopes[k].instructions = c.scopes[k].instructions
      BY <1>1, <1>8, <1>9
    <3> QED
      BY <3>1, ScopesTotal
  <2>2. TotalLength(c.functions) \in Nat
    BY FunctionsTotal DEF Compilers
  <2>3. Len(Emitted(c)) \in Nat /\ c.instruction_count \in Nat
    BY Counts
  <2>4. TotalLength(c.functions) + TotalLength(c.scopes) <= c.instruction_count
    BY DEF Sane, Counted
  <2>5. Len(Emitted(d)) = 0
    BY <1>9
  <2>6. TotalLength(c.functions) + TotalLength(d.scopes) <= c.instruction_count
    BY <2>1, <2>2, <2>3, <2>4, <2>5
  <2>7. TotalLength(d.functions) + TotalLength(d.scopes) <= d.instruction_count
    BY <1>8, <2>6
  <2>8. \A k \in 1 .. Len(Todo(d)) : Todo(d)[k].do # "CLOSURE"
    BY <1>10 DEF Easy
  <2> QED
    BY <2>7, <2>8 DEF Counted
<1>13. /\ GlobalEntries(d) = GlobalEntries(c)
       /\ d.scopes[1].definition_count = c.scopes[1].definition_count
  BY <1>4, <1>7, <1>9 DEF GlobalEntries
<1>14. Globals(d) /\ SameGlobals(c, d)
  BY <1>13 DEF Sane, Globals, SameGlobals
<1>15. Longer(c.constants, d.constants) /\ Longer(c.functions, d.functions)
  BY <1>8 DEF Longer, Compilers
<1> QED
  BY <1>6, <1>8, <1>11, <1>12, <1>14, <1>15 DEF Steps, Sane, Grows

(* A longer sequence has the shorter one as its prefix. *)
LEMMA PrefixIs ==
  ASSUME NEW S, NEW s \in Seq(S), NEW t \in Seq(S), Longer(s, t)
  PROVE  IsPrefix(s, t)
<1>1. Len(s) \in Nat /\ Len(t) \in Nat /\ Len(s) <= Len(t)
  BY DEF Longer
<1>2. SubSeq(s, 1, Len(s)) = SubSeq(t, 1, Len(s))
  <2>1. /\ SubSeq(s, 1, Len(s)) = [k \in 1 .. Len(s) |-> s[k]]
        /\ SubSeq(t, 1, Len(s)) = [k \in 1 .. Len(s) |-> t[k]]
    BY <1>1
  <2> QED
    BY <2>1 DEF Longer
<1> QED
  BY <1>1, <1>2 DEF IsPrefix

(* The machine runs, and leaves the bytecode alone. *)
LEMMA VmStepKeepsBytecode ==
  VmStep => running /\ UNCHANGED <<constants, functions>>
BY DEF VmStep, Load, Pop, ExecuteBinary, ExecuteUnary, Jump, SetGlobal, SetLocal,
       PushClosure, Call, ReturnFromMain, ReturnToCaller, Finish, Abort, Executing

(* The compiler between two steps, and what the machine has of its bytecode. *)
CompilerInv ==
  /\ compiler \in Compilers
  /\ compiler.panic \in CompilerFaults \union {"none"}
  /\ compiling \in BOOLEAN
  /\ constants \in Seq(Values)
  /\ functions \in Seq(CompiledFunctions)
  /\ compiling => ~running
  /\ Failed(compiler) => panic # "none" /\ ~compiling /\ ~running
  /\ ~Failed(compiler) =>
       /\ Sane(compiler)
       /\ ~compiling => Compiled(compiler)
       /\ Longer(constants, compiler.constants)
       /\ Longer(functions, compiler.functions)

(* It is so at the start. *)
LEMMA InitCompiler == CompiledInit => CompilerInv
<1> SUFFICES ASSUME CompiledInit PROVE CompilerInv
  OBVIOUS
<1> DEFINE c == CompilerInit
<1>1. /\ compiler = c /\ compiling = FALSE /\ running = FALSE
      /\ constants = << >> /\ functions = << >>
  BY DEF CompiledInit, VmInit
<1>2. EmptyScope \in CompilerScopes
  <2>1. << >> \in Tables
    <3>1. DOMAIN << >> = {} /\ << >> = [name \in {} |-> << >>[name]]
      OBVIOUS
    <3> QED
      BY <3>1, TableIs
  <2> QED
    BY <2>1 DEF EmptyScope, CompilerScopes
<1>3. c \in Compilers
  BY <1>2, CompilerAssumption DEF CompilerInit, Compilers
<1>4. /\ Level(c) = 1 /\ Scope(c) = EmptyScope /\ c.scopes = <<EmptyScope>>
      /\ c.panic = "none" /\ c.constants = << >> /\ c.functions = << >>
      /\ c.instruction_count = 0
  BY DEF CompilerInit, Level, Scope
<1> HIDE DEF c
<1>5. Todo(c) = << >> /\ Emitted(c) = << >> /\ c.scopes[1] = EmptyScope
  BY <1>4 DEF Todo, Emitted, EmptyScope
<1>6. Placed(c)
  BY <1>4, <1>5 DEF Placed, Ordered, EmptyScope
<1>7. Counted(c)
  <2>1. TotalLength(c.functions) = 0
    <3>1. Coded(<< >>) /\ Len(<< >>) = 0
      BY DEF Coded
    <3>2. PICK f \in [0 .. 0 -> Nat] : Sums(<< >>, f) /\ TotalLength(<< >>) = f[0]
      BY <3>1, TotalIs
    <3>3. f[0] = 0
      BY <3>2 DEF Sums
    <3> QED
      BY <1>4, <3>2, <3>3
  <2>2. TotalLength(c.scopes) = 0
    <3> DEFINE s == <<EmptyScope>>
    <3>1. Coded(s) /\ Len(s) = 1 /\ Len(s[1].instructions) = 0
      BY DEF Coded, EmptyScope
    <3> HIDE DEF s
    <3>2. PICK f \in [0 .. 1 -> Nat] : Sums(s, f) /\ TotalLength(s) = f[1]
      <4>1. Len(s) \in Nat /\ Coded(s)
        BY <3>1
      <4>2. \E f \in [0 .. Len(s) -> Nat] : Sums(s, f) /\ TotalLength(s) = f[Len(s)]
        BY <4>1, TotalIs, Zenon
      <4> QED
        BY <3>1, <4>2
    <3>3. f[0] = 0 /\ f[1] = f[0] + Len(s[1].instructions)
      BY <3>1, <3>2 DEF Sums
    <3> QED
      BY <1>4, <3>1, <3>2, <3>3 DEF s
  <2> QED
    BY <1>4, <1>5, <2>1, <2>2 DEF Counted
<1>8. Globals(c)
  BY <1>5, CompilerAssumption DEF Globals, GlobalEntries, EmptyScope
<1>9. ~Failed(c) /\ Compiled(c)
  BY <1>4, <1>5 DEF Failed, Compiled, Todo
<1>10. c.panic \in CompilerFaults \union {"none"}
  BY <1>4
<1>11. << >> \in Seq(Values) /\ << >> \in Seq(CompiledFunctions)
  OBVIOUS
<1>12. Longer(<< >>, c.constants) /\ Longer(<< >>, c.functions)
  BY <1>4 DEF Longer
<1>13. Sane(c)
  BY <1>6, <1>7, <1>8 DEF Sane
<1> QED
  BY <1>1, <1>3, <1>9, <1>10, <1>11, <1>12, <1>13 DEF CompilerInv

(* It stays so when a step of the compiler is done. *)
LEMMA BecomesInv ==
  ASSUME CompilerInv, compiling, NEW d, Becomes(d), Steps(compiler, d)
  PROVE  CompilerInv'
<1>1. ~Failed(compiler) /\ ~running /\ compiler \in Compilers
  BY DEF CompilerInv
<1>2. /\ compiler' = d
      /\ compiling' = ~Failed(d)
      /\ panic' = d.panic
      /\ running' = running /\ constants' = constants /\ functions' = functions
  BY DEF Becomes
<1>3. CASE Stops(d)
  <2>1. d \in Compilers /\ Failed(d) /\ d.panic \in CompilerFaults
    BY <1>3 DEF Stops
  <2> QED
    BY <1>1, <1>2, <2>1 DEF CompilerInv, Failed
<1>4. CASE d \in Compilers /\ ~Failed(d) /\ Sane(d) /\ Grows(compiler, d)
  <2>1. /\ constants \in Seq(Values) /\ functions \in Seq(CompiledFunctions)
        /\ Longer(constants, compiler.constants)
        /\ Longer(functions, compiler.functions)
    BY <1>1 DEF CompilerInv
  <2>2. /\ Len(constants) \in Nat /\ Len(compiler.constants) \in Nat
        /\ Len(d.constants) \in Nat
        /\ Len(functions) \in Nat /\ Len(compiler.functions) \in Nat
        /\ Len(d.functions) \in Nat
    BY <1>1, <1>4, <2>1, SMTT(30) DEF Compilers
  <2>3. Longer(constants, d.constants) /\ Longer(functions, d.functions)
    BY <1>4, <2>1, <2>2, LongerAppend DEF Grows
  <2>4. d.panic \in CompilerFaults \union {"none"} /\ ~Failed(d)
    BY <1>4 DEF Failed
  <2> QED
    BY <1>1, <1>2, <1>4, <2>1, <2>3, <2>4 DEF CompilerInv
<1> QED
  BY <1>3, <1>4 DEF Steps

(* What one step of compiler mode does to the compiler. *)
LEMMA NextSteps ==
  ASSUME CompilerInv, CompiledNext
  PROVE  \/ ReadLine /\ Steps(compiler, compiler') /\ ~Failed(compiler')
         \/ /\ compiling
            /\ \E d : Becomes(d) /\ Steps(compiler, d)
         \/ RunCompiled
         \/ Execute
<1>1. compiler \in Compilers /\ ~Failed(compiler) => Sane(compiler)
  BY DEF CompilerInv
<1>2. compiling => compiler \in Compilers /\ ~Failed(compiler) /\ Sane(compiler)
  BY DEF CompilerInv
<1>3. CASE ReadLine
  <2>1. PICK stmts \in Lines : Enters(stmts)
    BY <1>3 DEF ReadLine
  <2>2. compiler \in Compilers /\ ~Failed(compiler) /\ Sane(compiler) /\ Compiled(compiler)
    BY <1>3 DEF ReadLine, Ready, CompilerInv
  <2>3. Steps(compiler, Compile(compiler, stmts)) /\ ~Failed(Compile(compiler, stmts))
    BY <2>2, CompileStarts, Zenon
  <2> QED
    BY <1>3, <2>1, <2>3 DEF Enters
<1>4. CASE CompileStep
  <2>1. compiling
    BY <1>4 DEF CompileStep, Doing
  <2> QED
    BY <1>2, <1>4, <2>1, TaskSteps
<1>5. CASE CompileEndFunction
  <2>1. compiling
    BY <1>5 DEF CompileEndFunction
  <2> QED
    BY <1>2, <1>5, <2>1, EndSteps
<1> QED
  BY <1>3, <1>4, <1>5 DEF CompiledNext, GoOn

(* It stays so in every step. *)
LEMMA NextCompiler == CompilerInv /\ [CompiledNext]_compiledVars => CompilerInv'
<1> SUFFICES ASSUME CompilerInv, [CompiledNext]_compiledVars PROVE CompilerInv'
  OBVIOUS
<1>1. CASE ReadLine /\ Steps(compiler, compiler') /\ ~Failed(compiler')
  <2>1. /\ compiling' = TRUE /\ ~running
        /\ running' = running /\ panic' = panic
        /\ constants' = constants /\ functions' = functions
    BY <1>1 DEF ReadLine, Ready, Enters, vmVars
  <2>2. ~Failed(compiler)
    BY <1>1 DEF ReadLine, Ready, CompilerInv
  <2>3. /\ compiler' \in Compilers /\ Sane(compiler') /\ Grows(compiler, compiler')
    BY <1>1 DEF Steps, Stops
  <2>4. /\ constants \in Seq(Values) /\ functions \in Seq(CompiledFunctions)
        /\ compiler \in Compilers
        /\ Longer(constants, compiler.constants)
        /\ Longer(functions, compiler.functions)
    BY <2>2 DEF CompilerInv
  <2>5. /\ Len(constants) \in Nat /\ Len(compiler.constants) \in Nat
        /\ Len(compiler'.constants) \in Nat
        /\ Len(functions) \in Nat /\ Len(compiler.functions) \in Nat
        /\ Len(compiler'.functions) \in Nat
    BY <2>3, <2>4, SMTT(30) DEF Compilers
  <2>6. Longer(constants, compiler'.constants) /\ Longer(functions, compiler'.functions)
    BY <2>3, <2>4, <2>5, LongerAppend DEF Grows
  <2>7. compiler'.panic \in CompilerFaults \union {"none"}
    BY <1>1 DEF Failed
  <2> QED
    BY <1>1, <2>1, <2>3, <2>4, <2>6, <2>7 DEF CompilerInv
<1>2. CASE compiling /\ \E d : Becomes(d) /\ Steps(compiler, d)
  BY <1>2, BecomesInv
<1>3. CASE RunCompiled
  <2>1. /\ compiling /\ compiling' = FALSE /\ Compiled(compiler)
        /\ constants' = compiler.constants /\ functions' = compiler.functions
        /\ running' = TRUE /\ panic' = panic /\ compiler' = compiler
    BY <1>3 DEF RunCompiled, VmRun, BytecodeOf
  <2>2. ~Failed(compiler) /\ compiler \in Compilers /\ Sane(compiler)
    BY <2>1 DEF CompilerInv
  <2>3. /\ compiler.constants \in Seq(Values)
        /\ compiler.functions \in Seq(CompiledFunctions)
    BY <2>2 DEF Compilers
  <2>4. /\ Longer(compiler.constants, compiler.constants)
        /\ Longer(compiler.functions, compiler.functions)
    BY <2>3, LongerSelf
  <2> QED
    BY <2>1, <2>2, <2>3, <2>4 DEF CompilerInv
<1>4. CASE Execute
  <2>1. /\ running /\ constants' = constants /\ functions' = functions
        /\ compiler' = compiler /\ compiling' = compiling
    BY <1>4, VmStepKeepsBytecode DEF Execute
  <2> QED
    BY <2>1 DEF CompilerInv
<1>5. CASE UNCHANGED compiledVars
  BY <1>5 DEF compiledVars, vmVars, CompilerInv
<1> QED
  BY <1>1, <1>2, <1>3, <1>4, <1>5, NextSteps

(* Compiler mode, in every state of every session: the compiler's scopes and tasks fit
   together, a failure of it has ended the process (PANIC aborts), and the bytecode the
   machine runs is the beginning of the compiler's. *)
THEOREM CompilerSane == CompiledSpec => []CompilerInv
BY InitCompiler, NextCompiler, PTL DEF CompiledSpec

(* The counting of instructions is right in every state of every session
   (compiler_emit, compiler.c:139): no array of instructions can be too long, whatever
   compiler_remove_last takes away. *)
THEOREM InstructionsAlwaysCounted == CompiledSpec => []InstructionsCounted
<1>1. CompilerInv => InstructionsCounted
  <2> SUFFICES ASSUME CompilerInv PROVE InstructionsCounted
    OBVIOUS
  <2>1. compiler.instruction_count <= MaxBytecodeInstructions
    <3>1. compiler.instruction_count \in 0 .. MaxBytecodeInstructions
      BY DEF CompilerInv, Compilers
    <3> QED
      BY <3>1, CompilerAssumption
  <2>2. ~Failed(compiler) =>
          TotalLength(compiler.functions) + TotalLength(compiler.scopes)
            <= compiler.instruction_count
    BY DEF CompilerInv, Sane, Counted
  <2> QED
    BY <2>1, <2>2 DEF InstructionsCounted
<1> QED
  BY <1>1, CompilerSane, PTL

(* No PANIC with which compiler.c checks itself is reached: it never removes an
   instruction from an empty scope, patches a jump that is not there, leaves the global
   scope, or begins a line inside a function. *)
THEOREM CompilerNeverBlamesItself ==
  CompiledSpec => [](compiler.panic \notin CompilerInternalFaults)
<1>1. CompilerInv => compiler.panic \notin CompilerInternalFaults
  <2>1. CompilerInv => compiler.panic \in CompilerFaults \union {"none"}
    BY DEF CompilerInv
  <2>2. \A why \in CompilerFaults \union {"none"} : why \notin CompilerInternalFaults
    BY DEF CompilerFaults, CompilerCapacityFaults, CompilerInternalFaults
  <2> QED
    BY <2>1, <2>2, Zenon
<1> QED
  BY <1>1, CompilerSane, PTL

(* Bytecode grows from line to line, and nothing in it changes: a closure of an earlier
   line finds its constants in a later one (add_constant only appends). *)
THEOREM BytecodeOnlyGrows == CompiledSpec => BytecodeGrows
<1> DEFINE Kept == IsPrefix(constants, constants') /\ IsPrefix(functions, functions')
<1>1. CompilerInv /\ [CompiledNext]_compiledVars => [Kept]_compiledVars
  <2> SUFFICES ASSUME CompilerInv, CompiledNext PROVE Kept
    OBVIOUS
  <2>1. constants \in Seq(Values) /\ functions \in Seq(CompiledFunctions)
    BY DEF CompilerInv
  <2>2. /\ constants' \in Seq(Values) /\ functions' \in Seq(CompiledFunctions)
        /\ Longer(constants, constants')
        /\ Longer(functions, functions')
    <3>1. CASE constants' = constants /\ functions' = functions
      BY <2>1, <3>1, LongerSelf
    <3>2. CASE RunCompiled
      <4>1. /\ compiling
            /\ constants' = compiler.constants /\ functions' = compiler.functions
        BY <3>2 DEF RunCompiled, VmRun, BytecodeOf
      <4> QED
        BY <4>1 DEF CompilerInv, Compilers
    <3> QED
      <4>1. ReadLine => constants' = constants /\ functions' = functions
        BY DEF ReadLine, Enters, vmVars
      <4>2. \A d : Becomes(d) => constants' = constants /\ functions' = functions
        BY DEF Becomes
      <4>3. Execute => constants' = constants /\ functions' = functions
        BY VmStepKeepsBytecode DEF Execute
      <4> QED
        BY <3>1, <3>2, <4>1, <4>2, <4>3, NextSteps
  <2> QED
    BY <2>1, <2>2, PrefixIs, Zenon
<1>2. CompiledSpec => [][Kept]_compiledVars
  BY <1>1, CompilerSane, PTL DEF CompiledSpec
<1> QED
  BY <1>2, PTL DEF BytecodeGrows

(* Globals are never forgotten and never moved, no two have the same slot, every slot
   is one of the machine's, and every line ends outside all functions
   (define_symbol, compiler_compile): for any number of lines, names and capacities
   with MAX_COMPILER_SYMBOLS at most MAX_VM_GLOBALS. *)
THEOREM GlobalsAlwaysKeepTheirSlots == CompiledSpec => GlobalsKeepTheirSlots
<1> DEFINE Kept ==
      ~Failed(compiler') =>
        /\ ~compiling' => Level(compiler') = 1
        /\ DOMAIN GlobalEntries(compiler) \subseteq DOMAIN GlobalEntries(compiler')
        /\ \A name \in DOMAIN GlobalEntries(compiler') :
             LET symbol == GlobalEntries(compiler')[name] IN
             /\ symbol.scope = "GLOBAL"
             /\ symbol.index < MaxVmGlobals
             /\ name \in DOMAIN GlobalEntries(compiler) =>
                  symbol = GlobalEntries(compiler)[name]
             /\ \A other \in DOMAIN GlobalEntries(compiler') \ {name} :
                  GlobalEntries(compiler')[other].index # symbol.index
<1>1. CompilerInv /\ CompilerInv' /\ [CompiledNext]_compiledVars => [Kept]_compiledVars
  <2> SUFFICES ASSUME CompilerInv, CompilerInv', CompiledNext, ~Failed(compiler')
               PROVE  Kept
    OBVIOUS
  <2>1. compiler' \in Compilers /\ Sane(compiler') /\ (~compiling' => Compiled(compiler'))
    BY DEF CompilerInv
  <2>2. SameGlobals(compiler, compiler')
    <3>1. ASSUME Steps(compiler, compiler') PROVE SameGlobals(compiler, compiler')
      BY <3>1 DEF Steps, Stops, Grows
    <3>2. CASE compiler' = compiler
      BY <3>2 DEF SameGlobals
    <3> QED
      BY <3>1, <3>2, NextSteps DEF Becomes, RunCompiled, Execute
  <2>3. ~compiling' => Level(compiler') = 1
    BY <2>1 DEF Compiled
  <2>4. DOMAIN GlobalEntries(compiler) \subseteq DOMAIN GlobalEntries(compiler')
    BY <2>2 DEF SameGlobals
  <2>5. ASSUME NEW name \in DOMAIN GlobalEntries(compiler')
        PROVE  /\ GlobalEntries(compiler')[name].scope = "GLOBAL"
               /\ GlobalEntries(compiler')[name].index < MaxVmGlobals
               /\ name \in DOMAIN GlobalEntries(compiler) =>
                    GlobalEntries(compiler')[name] = GlobalEntries(compiler)[name]
               /\ \A other \in DOMAIN GlobalEntries(compiler') \ {name} :
                    GlobalEntries(compiler')[other].index
                      # GlobalEntries(compiler')[name].index
    <3>1. /\ GlobalEntries(compiler')[name].scope = "GLOBAL"
          /\ GlobalEntries(compiler')[name].index
               < compiler'.scopes[1].definition_count
          /\ compiler'.scopes[1].definition_count <= MaxCompilerSymbols
          /\ \A other \in DOMAIN GlobalEntries(compiler') \ {name} :
               GlobalEntries(compiler')[other].index
                 # GlobalEntries(compiler')[name].index
      BY <2>1 DEF Sane, Globals
    <3>2. /\ GlobalEntries(compiler')[name].index \in Nat
          /\ compiler'.scopes[1].definition_count \in Nat
      <4>1. compiler'.scopes \in Seq(CompilerScopes) /\ Len(compiler'.scopes) >= 1
        BY <2>1 DEF Compilers
      <4>2. compiler'.scopes[1] \in CompilerScopes
        BY <4>1
      <4>3. /\ compiler'.scopes[1].entries \in Tables
            /\ compiler'.scopes[1].definition_count \in Nat
        BY <4>2 DEF CompilerScopes
      <4>4. GlobalEntries(compiler')[name] \in Symbols
        BY <4>3, TableIs DEF GlobalEntries
      <4> QED
        BY <4>3, <4>4 DEF Symbols
    <3>3. GlobalEntries(compiler')[name].index < MaxVmGlobals
      BY <3>1, <3>2, CompilerAssumption, VmAssumption, GlobalsAssumption
    <3> QED
      BY <2>2, <3>1, <3>3 DEF SameGlobals
  <2> QED
    BY <2>3, <2>4, <2>5
<1>2. CompiledSpec => [][Kept]_compiledVars
  BY <1>1, CompilerSane, PTL DEF CompiledSpec
<1> QED
  BY <1>2, PTL DEF GlobalsKeepTheirSlots

===============================================================================
