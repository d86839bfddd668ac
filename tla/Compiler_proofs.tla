----------------------------- MODULE Compiler_proofs ---------------------------
(***************************************************************************)
(* Theorems about what the compiler keeps, for any syntax trees, lines and *)
(* capacities: bytecode only grows, instructions are counted, globals keep *)
(* their slots.                                                            *)
(***************************************************************************)
EXTENDS CompiledMode, SequenceTheorems, FiniteSetTheorems, WellFoundedInduction,
        TLAPS

-----------------------------------------------------------------------------
(* What a compiler is made of *)

Symbols == [scope : {"GLOBAL", "LOCAL", "FREE", "FUNCTION"}, index : Nat]
Tables == UNION {[names -> Symbols] : names \in SUBSET STRING}

Tasks ==
  [do : {"STATEMENT"}, stmt : Stmts]
    \union [do : {"LET"}, name : STRING]
    \union [do : {"STORE", "LOAD"}, symbol : Symbols]
    \union [do : {"EXPRESSION"}, expr : Exprs, name : STRING \union {NoName}]
    \union [do : {"LEAVE"}]
    \union [do : {"EMIT"}, op : OpCodes, operand : Nat]
    \union [do : {"CAPTURE"}, name : STRING, level : Nat, symbol : Symbols]
    \union [do : {"CONSEQUENCE"}, consequence : Seq(Stmts), alternative : Seq(Stmts)]
    \union [do : {"ALTERNATIVE"}, stmts : Seq(Stmts), jump_if_false : Nat]
    \union [do : {"END_IF"}, jump_end : Nat]
    \union [do : {"ARGUMENTS"}, exprs : Seq(Exprs)]
    \union [do : {"DEFINE"}, name : STRING]
    \union [do : {"CLOSURE"}, function : CompiledFunctions, free_count : Nat]
    \union [do : {"FUNCTION"}, parameter_count : Nat]

CompilerScopes ==
  [instructions : Seq(Instructions), entries : Tables, free_symbols : Seq(Symbols),
   definition_count : Nat, todo : Seq(Tasks)]

(* The reasons for which compiling a program may stop. *)
CompilerFaults == CompilerCapacityFaults \union {"identifier not found"}

Compilers ==
  [panic : CompilerFaults \union CompilerInternalFaults \union {"none"},
   constants : Seq(Values), functions : Seq(CompiledFunctions),
   scopes : Seq(CompilerScopes) \ {<< >>},
   instruction_count : 0 .. MaxBytecodeInstructions,
   symbol_table_count : Nat, symbol_count : Nat, compile_depth : Int]

Todo(c) == Scope(c).todo

(* A table has symbols for its names. *)
LEMMA TableIs ==
  ASSUME NEW t
  PROVE  t \in Tables <=> /\ t = [name \in DOMAIN t |-> t[name]]
                          /\ DOMAIN t \subseteq STRING
                          /\ \A name \in DOMAIN t : t[name] \in Symbols
<1>1. ASSUME t \in Tables
      PROVE  /\ t = [name \in DOMAIN t |-> t[name]]
             /\ DOMAIN t \subseteq STRING
             /\ \A name \in DOMAIN t : t[name] \in Symbols
  <2>1. PICK names \in SUBSET STRING : t \in [names -> Symbols]
    BY <1>1 DEF Tables
  <2> QED
    BY <2>1
<1>2. ASSUME t = [name \in DOMAIN t |-> t[name]], DOMAIN t \subseteq STRING,
             \A name \in DOMAIN t : t[name] \in Symbols
      PROVE  t \in Tables
  <2>1. t \in [DOMAIN t -> Symbols]
    BY <1>2
  <2> QED
    BY <1>2, <2>1 DEF Tables
<1> QED
  BY <1>1, <1>2

(* Putting a symbol into a table. *)
LEMMA TableWith ==
  ASSUME NEW t \in Tables, NEW name \in STRING, NEW symbol \in Symbols
  PROVE  /\ Put(t, name, symbol) \in Tables
         /\ DOMAIN Put(t, name, symbol) = DOMAIN t \union {name}
         /\ Put(t, name, symbol)[name] = symbol
         /\ \A other \in DOMAIN t :
              other # name => Put(t, name, symbol)[other] = t[other]
<1> DEFINE u == Put(t, name, symbol)
<1>1. /\ DOMAIN t \subseteq STRING
      /\ \A other \in DOMAIN t : t[other] \in Symbols
  BY TableIs
<1>2. u = [other \in {name} \union DOMAIN t |->
             IF other = name THEN symbol ELSE t[other]]
  BY DEF Put
<1>3. u \in Tables
  <2>1. /\ u = [other \in DOMAIN u |-> u[other]]
        /\ DOMAIN u \subseteq STRING
        /\ \A other \in DOMAIN u : u[other] \in Symbols
    BY <1>1, <1>2
  <2> HIDE DEF u
  <2> QED
    BY <2>1, TableIs
<1> QED
  BY <1>2, <1>3

-----------------------------------------------------------------------------
(* What each primitive does *)

(* The scopes around the current one stay as they are. *)
SameBelow(c, d) ==
  /\ Level(d) = Level(c)
  /\ \A k \in 1 .. Level(c) - 1 : d.scopes[k] = c.scopes[k]

SameNames(c, d) ==
  /\ Scope(d).entries = Scope(c).entries
  /\ Scope(d).free_symbols = Scope(c).free_symbols
  /\ Scope(d).definition_count = Scope(c).definition_count

SameCode(c, d) ==
  Emitted(d) = Emitted(c) /\ d.instruction_count = c.instruction_count

SameBytecode(c, d) == d.constants = c.constants /\ d.functions = c.functions

(* The current scope is there. *)
LEMMA CurrentScope ==
  ASSUME NEW c \in Compilers
  PROVE  /\ Level(c) \in Nat \ {0}
         /\ Level(c) \in 1 .. Level(c)
         /\ c.scopes \in Seq(CompilerScopes)
         /\ Scope(c) \in CompilerScopes
         /\ Scope(c) = c.scopes[Level(c)]
         /\ Emitted(c) \in Seq(Instructions)
         /\ Todo(c) \in Seq(Tasks)
         /\ \A k \in 1 .. Level(c) : c.scopes[k] \in CompilerScopes
<1>1. c.scopes \in Seq(CompilerScopes) /\ c.scopes # << >>
  BY DEF Compilers
<1>2. Level(c) \in Nat \ {0}
  BY <1>1 DEF Level
<1>3. \A k \in 1 .. Level(c) : c.scopes[k] \in CompilerScopes
  BY <1>1 DEF Level
<1>4. Scope(c) \in CompilerScopes
  BY <1>2, <1>3 DEF Scope
<1>5. Emitted(c) \in Seq(Instructions) /\ Todo(c) \in Seq(Tasks)
  BY <1>4 DEF CompilerScopes, Emitted, Todo
<1> QED
  BY <1>1, <1>2, <1>3, <1>4, <1>5 DEF Scope

WithScope(c, s) == [c EXCEPT !.scopes[Level(c)] = s]

(* Replacing the current scope. *)
LEMMA WithScopeIs ==
  ASSUME NEW c \in Compilers, NEW s \in CompilerScopes
  PROVE  /\ WithScope(c, s) \in Compilers
         /\ SameBelow(c, WithScope(c, s))
         /\ SameBytecode(c, WithScope(c, s))
         /\ Scope(WithScope(c, s)) = s
         /\ WithScope(c, s).panic = c.panic
         /\ WithScope(c, s).instruction_count = c.instruction_count
<1> DEFINE d == WithScope(c, s)
           scopes == [c.scopes EXCEPT ![Level(c)] = s]
<1>1. /\ Level(c) \in Nat \ {0}
      /\ Level(c) \in 1 .. Len(c.scopes)
      /\ c.scopes \in Seq(CompilerScopes)
      /\ c.scopes # << >>
  BY CurrentScope DEF Level, Compilers
<1>2. /\ scopes \in Seq(CompilerScopes)
      /\ Len(scopes) = Len(c.scopes)
      /\ \A j \in 1 .. Len(c.scopes) :
           scopes[j] = IF j = Level(c) THEN s ELSE c.scopes[j]
  BY <1>1, ExceptSeq
<1> HIDE DEF scopes
<1>3. d = [c EXCEPT !.scopes = scopes]
  BY Zenon DEF WithScope, scopes
<1>4. scopes # << >>
  BY <1>1, <1>2
<1>5. /\ d \in Compilers
      /\ d.scopes = scopes
      /\ d.constants = c.constants
      /\ d.functions = c.functions
      /\ d.panic = c.panic
      /\ d.instruction_count = c.instruction_count
  BY <1>2, <1>3, <1>4 DEF Compilers
<1> HIDE DEF d
<1>6. Level(d) = Level(c) /\ Scope(d) = s
  BY <1>1, <1>2, <1>5 DEF Level, Scope
<1>7. SameBelow(c, d)
  BY <1>1, <1>2, <1>5, <1>6 DEF SameBelow, Level
<1> QED
  BY <1>5, <1>6, <1>7 DEF SameBytecode, d

(* d is c, stopped. *)
Stopped(c, d) ==
  /\ d \in Compilers
  /\ d.panic \in CompilerFaults
  /\ d = [c EXCEPT !.panic = d.panic]

(* Faults are not "none". *)
LEMMA FaultsFail ==
  \A c : c.panic \in CompilerFaults => Failed(c)
BY DEF CompilerFaults, CompilerCapacityFaults, Failed

(* Failing for lack of room. *)
LEMMA FailIs ==
  ASSUME NEW c \in Compilers, ~Failed(c), NEW why \in CompilerFaults
  PROVE  Stopped(c, Fail(c, why)) /\ Failed(Fail(c, why))
<1>1. why # "none"
  BY DEF CompilerFaults, CompilerCapacityFaults
<1>2. Fail(c, why) = [c EXCEPT !.panic = why]
  BY DEF Fail
<1> QED
  BY <1>1, <1>2 DEF Stopped, Compilers, Failed

(* Tasks go before those there are. *)
LEMMA ThenIs ==
  ASSUME NEW c \in Compilers, ~Failed(c), NEW tasks \in Seq(Tasks)
  PROVE  /\ Then(c, tasks) \in Compilers
         /\ ~Failed(Then(c, tasks))
         /\ SameBelow(c, Then(c, tasks))
         /\ SameNames(c, Then(c, tasks))
         /\ SameCode(c, Then(c, tasks))
         /\ SameBytecode(c, Then(c, tasks))
         /\ Todo(Then(c, tasks)) = tasks \o Todo(c)
<1> DEFINE s == [Scope(c) EXCEPT !.todo = tasks \o Todo(c)]
           d == WithScope(c, s)
<1>1. Scope(c) \in CompilerScopes /\ Todo(c) \in Seq(Tasks)
  BY CurrentScope
<1>2. tasks \o Todo(c) \in Seq(Tasks)
  BY <1>1, ConcatProperties
<1>3. /\ s \in CompilerScopes
      /\ s.todo = tasks \o Todo(c)
      /\ s.instructions = Scope(c).instructions
      /\ s.entries = Scope(c).entries
      /\ s.free_symbols = Scope(c).free_symbols
      /\ s.definition_count = Scope(c).definition_count
  BY <1>1, <1>2 DEF CompilerScopes
<1>4. Then(c, tasks) = d
  BY DEF Then, WithScope, Scope, Todo
<1> HIDE DEF s
<1>5. /\ d \in Compilers
      /\ SameBelow(c, d)
      /\ SameBytecode(c, d)
      /\ Scope(d) = s
      /\ d.panic = c.panic
      /\ d.instruction_count = c.instruction_count
  BY <1>3, WithScopeIs
<1> HIDE DEF d
<1> QED
  BY <1>3, <1>4, <1>5 DEF SameNames, SameCode, Emitted, Todo, Failed

(* The next task is begun. *)
LEMMA BegunIs ==
  ASSUME NEW c \in Compilers, ~Failed(c), Todo(c) # << >>
  PROVE  /\ Begun(c) \in Compilers
         /\ ~Failed(Begun(c))
         /\ SameBelow(c, Begun(c))
         /\ SameNames(c, Begun(c))
         /\ SameCode(c, Begun(c))
         /\ SameBytecode(c, Begun(c))
         /\ Todo(Begun(c)) = Tail(Todo(c))
         /\ Task(c) = Head(Todo(c))
         /\ Task(c) \in Tasks
<1> DEFINE s == [Scope(c) EXCEPT !.todo = Tail(Todo(c))]
           d == WithScope(c, s)
<1>1. Scope(c) \in CompilerScopes /\ Todo(c) \in Seq(Tasks)
  BY CurrentScope
<1>2. Tail(Todo(c)) \in Seq(Tasks) /\ Head(Todo(c)) \in Tasks
  BY <1>1, HeadTailProperties
<1>3. /\ s \in CompilerScopes
      /\ s.todo = Tail(Todo(c))
      /\ s.instructions = Scope(c).instructions
      /\ s.entries = Scope(c).entries
      /\ s.free_symbols = Scope(c).free_symbols
      /\ s.definition_count = Scope(c).definition_count
  BY <1>1, <1>2 DEF CompilerScopes
<1>4. Begun(c) = d
  BY DEF Begun, WithScope, Scope, Todo
<1> HIDE DEF s
<1>5. /\ d \in Compilers
      /\ SameBelow(c, d)
      /\ SameBytecode(c, d)
      /\ Scope(d) = s
      /\ d.panic = c.panic
      /\ d.instruction_count = c.instruction_count
  BY <1>3, WithScopeIs
<1> HIDE DEF d
<1> QED
  BY <1>2, <1>3, <1>4, <1>5 DEF SameNames, SameCode, Emitted, Todo, Failed, Task

(* A scope with other instructions. *)
LEMMA WithCodeIs ==
  ASSUME NEW c \in Compilers, NEW code \in Seq(Instructions)
  PROVE  LET s == [Scope(c) EXCEPT !.instructions = code]
             d == WithScope(c, s)
         IN /\ s \in CompilerScopes
            /\ d \in Compilers
            /\ SameBelow(c, d)
            /\ SameNames(c, d)
            /\ SameBytecode(c, d)
            /\ Emitted(d) = code
            /\ Todo(d) = Todo(c)
            /\ d.panic = c.panic
            /\ d.instruction_count = c.instruction_count
<1> DEFINE s == [Scope(c) EXCEPT !.instructions = code]
           d == WithScope(c, s)
<1>1. Scope(c) \in CompilerScopes
  BY CurrentScope
<1>2. /\ s \in CompilerScopes
      /\ s.instructions = code
      /\ s.todo = Scope(c).todo
      /\ s.entries = Scope(c).entries
      /\ s.free_symbols = Scope(c).free_symbols
      /\ s.definition_count = Scope(c).definition_count
  BY <1>1 DEF CompilerScopes
<1> HIDE DEF s
<1>3. /\ d \in Compilers
      /\ SameBelow(c, d)
      /\ SameBytecode(c, d)
      /\ Scope(d) = s
      /\ d.panic = c.panic
      /\ d.instruction_count = c.instruction_count
  BY <1>2, WithScopeIs
<1> HIDE DEF d
<1>4. SameNames(c, d) /\ Emitted(d) = code /\ Todo(d) = Todo(c)
  BY <1>2, <1>3 DEF SameNames, Emitted, Todo
<1> QED
  BY <1>2, <1>3, <1>4 DEF d, s

Instr(op, operand, operand2) ==
  [op |-> op, operand |-> operand, operand2 |-> operand2]

(* Emitting appends an instruction and counts it, or fails. *)
LEMMA EmitIs ==
  ASSUME NEW c \in Compilers, ~Failed(c), NEW op \in OpCodes, NEW operand \in Nat,
         NEW operand2 \in Nat
  PROVE  LET d == Emit(c, op, operand, operand2) IN
         \/ Stopped(c, d) /\ Failed(d)
         \/ /\ d \in Compilers
            /\ ~Failed(d)
            /\ SameBelow(c, d)
            /\ SameNames(c, d)
            /\ SameBytecode(c, d)
            /\ Todo(d) = Todo(c)
            /\ Emitted(d) = Append(Emitted(c), Instr(op, operand, operand2))
            /\ d.instruction_count = c.instruction_count + 1
            /\ Len(Emitted(c)) < MaxBytecodeInstructions
<1> DEFINE i == Instr(op, operand, operand2)
           code == Append(Emitted(c), i)
           e == WithScope(c, [Scope(c) EXCEPT !.instructions = code])
           d == Emit(c, op, operand, operand2)
           full == \/ Len(Emitted(c)) >= MaxBytecodeInstructions
                   \/ c.instruction_count >= MaxBytecodeInstructions
<1>1. CASE full
  <2>1. d = Fail(c, "instruction capacity")
    BY <1>1 DEF Emit
  <2>2. "instruction capacity" \in CompilerFaults
    BY DEF CompilerFaults, CompilerCapacityFaults
  <2> QED
    BY <2>1, <2>2, FailIs
<1>2. CASE ~full
  <2>1. i \in Instructions /\ Emitted(c) \in Seq(Instructions)
    BY CurrentScope DEF Instructions, Instr
  <2>2. code \in Seq(Instructions)
    BY <2>1, AppendProperties
  <2>3. d = [e EXCEPT !.instruction_count = c.instruction_count + 1]
    <3>1. d = [c EXCEPT !.scopes[Level(c)].instructions = code,
                        !.instruction_count = @ + 1]
      BY <1>2 DEF Emit, Failed, Instr, Emitted, Scope
    <3>2. e.instruction_count = c.instruction_count
      BY <2>2, WithCodeIs
    <3> QED
      BY <3>1, <3>2 DEF WithScope, Scope
  <2> HIDE DEF code
  <2>4. /\ e \in Compilers
        /\ SameBelow(c, e)
        /\ SameNames(c, e)
        /\ SameBytecode(c, e)
        /\ Emitted(e) = code
        /\ Todo(e) = Todo(c)
        /\ e.panic = c.panic
        /\ e.instruction_count = c.instruction_count
    BY <2>2, WithCodeIs
  <2> HIDE DEF e, d
  <2>5. /\ Len(Emitted(c)) < MaxBytecodeInstructions
        /\ c.instruction_count + 1 \in 0 .. MaxBytecodeInstructions
    <3>1. Len(Emitted(c)) \in Nat
      BY <2>1
    <3>2. c.instruction_count \in 0 .. MaxBytecodeInstructions
      BY DEF Compilers
    <3> QED
      BY <1>2, <3>1, <3>2, CompilerAssumption DEF CompilerAssumption
  <2>6. /\ d \in Compilers
        /\ d.scopes = e.scopes
        /\ d.panic = e.panic
        /\ d.constants = e.constants
        /\ d.functions = e.functions
        /\ d.instruction_count = c.instruction_count + 1
    BY <2>3, <2>4, <2>5 DEF Compilers
  <2>7. /\ SameBelow(c, d)
        /\ SameNames(c, d)
        /\ SameBytecode(c, d)
        /\ Emitted(d) = code
        /\ Todo(d) = Todo(c)
    BY <2>4, <2>6 DEF SameBelow, SameNames, SameBytecode, Emitted, Todo, Scope, Level
  <2>8. ~Failed(d)
    BY <2>4, <2>6 DEF Failed
  <2> QED
    BY <2>5, <2>6, <2>7, <2>8 DEF code, d
<1> QED
  BY <1>1, <1>2

(* The same scopes are the same in every respect. *)
LEMMA SameScopes ==
  ASSUME NEW c, NEW d, d.scopes = c.scopes
  PROVE  /\ SameBelow(c, d)
         /\ SameNames(c, d)
         /\ Emitted(d) = Emitted(c)
         /\ Todo(d) = Todo(c)
         /\ Scope(d) = Scope(c)
         /\ Level(d) = Level(c)
BY DEF SameBelow, SameNames, Emitted, Todo, Scope, Level

(* A constant is appended, or there is no room for it. *)
LEMMA AddConstantIs ==
  ASSUME NEW c \in Compilers, ~Failed(c), NEW value \in Values
  PROVE  LET d == AddConstant(c, value) IN
         \/ Stopped(c, d) /\ Failed(d)
         \/ /\ d \in Compilers
            /\ ~Failed(d)
            /\ d.scopes = c.scopes
            /\ d.functions = c.functions
            /\ d.constants = Append(c.constants, value)
            /\ d.instruction_count = c.instruction_count
<1> DEFINE d == AddConstant(c, value)
<1>1. CASE Len(c.constants) >= MaxBytecodeConstants
  <2>1. d = Fail(c, "constant capacity")
    BY <1>1 DEF AddConstant
  <2>2. "constant capacity" \in CompilerFaults
    BY DEF CompilerFaults, CompilerCapacityFaults
  <2> QED
    BY <2>1, <2>2, FailIs
<1>2. CASE ~(Len(c.constants) >= MaxBytecodeConstants)
  <2>1. d = [c EXCEPT !.constants = Append(c.constants, value)]
    BY <1>2 DEF AddConstant
  <2>2. Append(c.constants, value) \in Seq(Values)
    BY AppendProperties DEF Compilers
  <2> QED
    BY <2>1, <2>2 DEF Compilers, Failed
<1> QED
  BY <1>1, <1>2

(* A sequence without its last element. *)
LEMMA FrontIs ==
  ASSUME NEW S, NEW s \in Seq(S), s # << >>
  PROVE  /\ Front(s) \in Seq(S)
         /\ Len(Front(s)) = Len(s) - 1
         /\ \A k \in 1 .. Len(s) - 1 : Front(s)[k] = s[k]
         /\ Last(s) = s[Len(s)]
         /\ Last(s) \in S
<1> DEFINE n == Len(s)
<1>1. n \in Nat \ {0} /\ n - 1 \in Int /\ s[n] \in S
  OBVIOUS
<1>2. \A k \in 1 .. n - 1 : s[k] \in S
  OBVIOUS
<1>3. Front(s) = SubSeq(s, 1, n - 1)
  BY DEF Front
<1> HIDE DEF n
<1>4. /\ SubSeq(s, 1, n - 1) \in Seq(S)
      /\ Len(SubSeq(s, 1, n - 1)) = IF 1 <= n - 1 THEN n - 1 - 1 + 1 ELSE 0
      /\ \A k \in 1 .. n - 1 - 1 + 1 : SubSeq(s, 1, n - 1)[k] = s[1 + k - 1]
  BY <1>1, <1>2, SubSeqProperties
<1>5. Len(Front(s)) = n - 1
  BY <1>1, <1>3, <1>4
<1>6. \A k \in 1 .. n - 1 : Front(s)[k] = s[k]
  BY <1>1, <1>3, <1>4
<1> QED
  BY <1>1, <1>3, <1>4, <1>5, <1>6 DEF n, Last

(* The last instruction is removed. *)
LEMMA RemoveLastIs ==
  ASSUME NEW c \in Compilers, ~Failed(c), Emitted(c) # << >>
  PROVE  LET d == RemoveLast(c) IN
         /\ d \in Compilers
         /\ ~Failed(d)
         /\ SameBelow(c, d)
         /\ SameNames(c, d)
         /\ SameBytecode(c, d)
         /\ Todo(d) = Todo(c)
         /\ Emitted(d) = Front(Emitted(c))
         /\ Front(Emitted(c)) \in Seq(Instructions)
         /\ Len(Front(Emitted(c))) = Len(Emitted(c)) - 1
         /\ \A k \in 1 .. Len(Emitted(c)) - 1 : Front(Emitted(c))[k] = Emitted(c)[k]
         /\ d.instruction_count = c.instruction_count
<1> DEFINE code == Front(Emitted(c))
           n == Len(Emitted(c))
<1>1. Emitted(c) \in Seq(Instructions)
  BY CurrentScope
<1>3. /\ code \in Seq(Instructions)
      /\ Len(code) = n - 1
      /\ \A k \in 1 .. n - 1 : code[k] = Emitted(c)[k]
  BY <1>1, FrontIs
<1>4. RemoveLast(c) = WithScope(c, [Scope(c) EXCEPT !.instructions = code])
  BY DEF RemoveLast, WithScope, Scope, Emitted
<1> HIDE DEF code
<1> DEFINE d == WithScope(c, [Scope(c) EXCEPT !.instructions = code])
<1>5. /\ d \in Compilers
      /\ SameBelow(c, d)
      /\ SameNames(c, d)
      /\ SameBytecode(c, d)
      /\ Emitted(d) = code
      /\ Todo(d) = Todo(c)
      /\ d.panic = c.panic
      /\ d.instruction_count = c.instruction_count
  BY <1>3, WithCodeIs
<1> HIDE DEF d
<1>6. ~Failed(d)
  BY <1>5 DEF Failed
<1> QED
  BY <1>3, <1>4, <1>5, <1>6 DEF code, d

(* The last instruction gets another opcode. *)
LEMMA ReplaceLastIs ==
  ASSUME NEW c \in Compilers, ~Failed(c), Emitted(c) # << >>, NEW op \in OpCodes
  PROVE  LET d == ReplaceLast(c, op)
             n == Len(Emitted(c))
         IN /\ d \in Compilers
            /\ ~Failed(d)
            /\ SameBelow(c, d)
            /\ SameNames(c, d)
            /\ SameBytecode(c, d)
            /\ Todo(d) = Todo(c)
            /\ Len(Emitted(d)) = n
            /\ \A k \in 1 .. n - 1 : Emitted(d)[k] = Emitted(c)[k]
            /\ Emitted(d)[n] = [Emitted(c)[n] EXCEPT !.op = op]
            /\ d.instruction_count = c.instruction_count
<1> DEFINE n == Len(Emitted(c))
           i == [Emitted(c)[n] EXCEPT !.op = op]
           code == [Emitted(c) EXCEPT ![n] = i]
           d == WithScope(c, [Scope(c) EXCEPT !.instructions = code])
<1>1. Emitted(c) \in Seq(Instructions)
  BY CurrentScope
<1>2. n \in Nat \ {0} /\ n \in 1 .. Len(Emitted(c)) /\ Emitted(c)[n] \in Instructions
  BY <1>1
<1>3. i \in Instructions
  BY <1>2 DEF Instructions
<1>4. ReplaceLast(c, op) = d
  BY DEF ReplaceLast, WithScope, Scope, Emitted
<1> HIDE DEF i
<1>5. /\ code \in Seq(Instructions)
      /\ Len(code) = n
      /\ \A k \in 1 .. n : code[k] = IF k = n THEN i ELSE Emitted(c)[k]
  BY <1>1, <1>2, <1>3, ExceptSeq
<1> HIDE DEF code
<1>6. /\ d \in Compilers
      /\ SameBelow(c, d)
      /\ SameNames(c, d)
      /\ SameBytecode(c, d)
      /\ Emitted(d) = code
      /\ Todo(d) = Todo(c)
      /\ d.panic = c.panic
      /\ d.instruction_count = c.instruction_count
  BY <1>5, WithCodeIs
<1> HIDE DEF d
<1>7. ~Failed(d)
  BY <1>6 DEF Failed
<1>8. /\ \A k \in 1 .. n - 1 : code[k] = Emitted(c)[k]
      /\ code[n] = i
  BY <1>2, <1>5
<1> QED
  BY <1>4, <1>5, <1>6, <1>7, <1>8 DEF i

(* A jump gets its target. *)
LEMMA PatchJumpIs ==
  ASSUME NEW c \in Compilers, ~Failed(c), NEW p \in Nat, p < Len(Emitted(c))
  PROVE  LET d == PatchJump(c, p)
             n == Len(Emitted(c))
         IN /\ d \in Compilers
            /\ ~Failed(d)
            /\ SameBelow(c, d)
            /\ SameNames(c, d)
            /\ SameBytecode(c, d)
            /\ Todo(d) = Todo(c)
            /\ Len(Emitted(d)) = n
            /\ \A k \in 1 .. n : k # p + 1 => Emitted(d)[k] = Emitted(c)[k]
            /\ Emitted(d)[p + 1] = [Emitted(c)[p + 1] EXCEPT !.operand = n]
            /\ d.instruction_count = c.instruction_count
<1> DEFINE n == Len(Emitted(c))
           i == [Emitted(c)[p + 1] EXCEPT !.operand = n]
           code == [Emitted(c) EXCEPT ![p + 1] = i]
           d == WithScope(c, [Scope(c) EXCEPT !.instructions = code])
<1>1. Emitted(c) \in Seq(Instructions)
  BY CurrentScope
<1>2. n \in Nat /\ p + 1 \in 1 .. n /\ Emitted(c)[p + 1] \in Instructions
  BY <1>1
<1>3. i \in Instructions
  BY <1>2 DEF Instructions
<1>4. ~ (p >= Len(Emitted(c)))
  BY <1>2
<1>5. PatchJump(c, p) = d
  BY <1>4 DEF PatchJump, WithScope, Scope, Emitted
<1> HIDE DEF i
<1>6. /\ code \in Seq(Instructions)
      /\ Len(code) = n
      /\ \A k \in 1 .. n : code[k] = IF k = p + 1 THEN i ELSE Emitted(c)[k]
  BY <1>1, <1>2, <1>3, ExceptSeq
<1> HIDE DEF code
<1>7. /\ d \in Compilers
      /\ SameBelow(c, d)
      /\ SameNames(c, d)
      /\ SameBytecode(c, d)
      /\ Emitted(d) = code
      /\ Todo(d) = Todo(c)
      /\ d.panic = c.panic
      /\ d.instruction_count = c.instruction_count
  BY <1>6, WithCodeIs
<1> HIDE DEF d
<1>8. ~Failed(d)
  BY <1>7 DEF Failed
<1>9. /\ \A k \in 1 .. n : k # p + 1 => code[k] = Emitted(c)[k]
      /\ code[p + 1] = i
  BY <1>2, <1>6
<1> QED
  BY <1>5, <1>6, <1>7, <1>8, <1>9 DEF i

(* Entering a function opens an empty scope, or there is no room for it. *)
LEMMA EnterScopeIs ==
  ASSUME NEW c \in Compilers, ~Failed(c)
  PROVE  LET d == EnterScope(c) IN
         \/ Stopped(c, d) /\ Failed(d)
         \/ /\ d \in Compilers
            /\ ~Failed(d)
            /\ Level(d) = Level(c) + 1
            /\ \A k \in 1 .. Level(c) : d.scopes[k] = c.scopes[k]
            /\ Scope(d) = EmptyScope
            /\ SameBytecode(c, d)
            /\ d.instruction_count = c.instruction_count
<1> DEFINE d == EnterScope(c)
           scopes == Append(c.scopes, EmptyScope)
<1>1. CASE Level(c) >= MaxCompilerScopes
  <2>1. d = Fail(c, "scope capacity")
    BY <1>1 DEF EnterScope
  <2>2. "scope capacity" \in CompilerFaults
    BY DEF CompilerFaults, CompilerCapacityFaults
  <2> QED
    BY <2>1, <2>2, FailIs
<1>2. CASE ~(Level(c) >= MaxCompilerScopes)
           /\ c.symbol_table_count >= MaxCompilerSymbolTables
  <2>1. d = Fail(c, "symbol table capacity")
    BY <1>2 DEF EnterScope
  <2>2. "symbol table capacity" \in CompilerFaults
    BY DEF CompilerFaults, CompilerCapacityFaults
  <2> QED
    BY <2>1, <2>2, FailIs
<1>3. CASE ~(Level(c) >= MaxCompilerScopes)
           /\ ~(c.symbol_table_count >= MaxCompilerSymbolTables)
  <2>1. d = [c EXCEPT !.scopes = scopes, !.symbol_table_count = @ + 1]
    BY <1>3 DEF EnterScope
  <2>2. EmptyScope \in CompilerScopes
    <3>1. << >> \in Tables
      <4>1. << >> \in [1 .. Len(<< >>) -> Symbols]
        BY EmptySeq, LenProperties
      <4>2. 1 .. Len(<< >>) = {}
        OBVIOUS
      <4>3. << >> \in [{} -> Symbols]
        BY <4>1, <4>2, Zenon
      <4> QED
        BY <4>3, Zenon DEF Tables
    <3>2. << >> \in Seq(Instructions) /\ << >> \in Seq(Symbols) /\ << >> \in Seq(Tasks)
      OBVIOUS
    <3> QED
      BY <3>1, <3>2 DEF EmptyScope, CompilerScopes
  <2>3. c.scopes \in Seq(CompilerScopes) /\ Level(c) \in Nat
    BY CurrentScope
  <2>4. /\ scopes \in Seq(CompilerScopes)
        /\ scopes # << >>
        /\ Len(scopes) = Len(c.scopes) + 1
        /\ \A k \in 1 .. Len(c.scopes) : scopes[k] = c.scopes[k]
        /\ scopes[Len(c.scopes) + 1] = EmptyScope
    BY <2>2, <2>3, AppendProperties
  <2> HIDE DEF scopes
  <2>5. /\ d \in Compilers
        /\ ~Failed(d)
        /\ d.scopes = scopes
        /\ SameBytecode(c, d)
        /\ d.instruction_count = c.instruction_count
    <3>1. c.symbol_table_count + 1 \in Nat
      BY DEF Compilers
    <3>2. d \in Compilers /\ d.scopes = scopes /\ d.panic = c.panic
      BY <2>1, <2>4, <3>1 DEF Compilers
    <3>3. /\ d.constants = c.constants
          /\ d.functions = c.functions
          /\ d.instruction_count = c.instruction_count
      BY <2>1 DEF Compilers
    <3> HIDE DEF d
    <3> QED
      BY <3>2, <3>3 DEF Failed, SameBytecode
  <2> HIDE DEF d
  <2>6. Level(d) = Level(c) + 1 /\ Scope(d) = EmptyScope
    BY <2>4, <2>5 DEF Level, Scope
  <2>7. \A k \in 1 .. Level(c) : d.scopes[k] = c.scopes[k]
    BY <2>4, <2>5 DEF Level
  <2> QED
    BY <2>5, <2>6, <2>7 DEF d
<1> QED
  BY <1>1, <1>2, <1>3

(* Leaving a function goes back to the scope around it. *)
LEMMA LeaveScopeIs ==
  ASSUME NEW c \in Compilers, ~Failed(c), Level(c) > 1
  PROVE  LET d == LeaveScope(c) IN
         /\ d \in Compilers
         /\ ~Failed(d)
         /\ Level(d) = Level(c) - 1
         /\ \A k \in 1 .. Level(c) - 1 : d.scopes[k] = c.scopes[k]
         /\ SameBytecode(c, d)
         /\ d.instruction_count = c.instruction_count
<1> DEFINE d == LeaveScope(c)
           scopes == Front(c.scopes)
<1>1. c.scopes \in Seq(CompilerScopes) /\ c.scopes # << >> /\ Level(c) \in Nat
  BY CurrentScope DEF Compilers
<1>2. Level(c) # 1
  BY <1>1
<1>3. d = [c EXCEPT !.scopes = scopes]
  BY <1>2 DEF LeaveScope
<1>4. /\ scopes \in Seq(CompilerScopes)
      /\ Len(scopes) = Len(c.scopes) - 1
      /\ \A k \in 1 .. Len(c.scopes) - 1 : scopes[k] = c.scopes[k]
  BY <1>1, FrontIs
<1> HIDE DEF scopes
<1>5. scopes # << >>
  BY <1>1, <1>4 DEF Level
<1>6. /\ d \in Compilers
      /\ ~Failed(d)
      /\ d.scopes = scopes
      /\ SameBytecode(c, d)
      /\ d.instruction_count = c.instruction_count
  BY <1>3, <1>4, <1>5 DEF Compilers, Failed, SameBytecode
<1> HIDE DEF d
<1>7. Level(d) = Level(c) - 1 /\ \A k \in 1 .. Level(c) - 1 : d.scopes[k] = c.scopes[k]
  BY <1>4, <1>6 DEF Level
<1> QED
  BY <1>6, <1>7 DEF d

(* The scopes that are open, at any level. *)
LEMMA OpenScope ==
  ASSUME NEW c \in Compilers, NEW l \in 1 .. Level(c)
  PROVE  /\ c.scopes[l] \in CompilerScopes
         /\ c.scopes[l].entries \in Tables
         /\ c.scopes[l].free_symbols \in Seq(Symbols)
         /\ c.scopes[l].definition_count \in Nat
         /\ c.scopes[l].instructions \in Seq(Instructions)
         /\ c.scopes[l].todo \in Seq(Tasks)
<1>1. c.scopes[l] \in CompilerScopes
  BY CurrentScope
<1> QED
  BY <1>1 DEF CompilerScopes

(* Replacing the scope of any level, and counting a symbol. *)
LEMMA NamesChanged ==
  ASSUME NEW c \in Compilers, ~Failed(c), NEW l \in 1 .. Level(c),
         NEW s \in CompilerScopes,
         s.instructions = c.scopes[l].instructions, s.todo = c.scopes[l].todo
  PROVE  LET d == [c EXCEPT !.scopes = [c.scopes EXCEPT ![l] = s],
                            !.symbol_count = c.symbol_count + 1]
         IN /\ d \in Compilers
            /\ ~Failed(d)
            /\ Level(d) = Level(c)
            /\ \A k \in 1 .. Level(c) : d.scopes[k] = IF k = l THEN s ELSE c.scopes[k]
            /\ SameCode(c, d)
            /\ SameBytecode(c, d)
            /\ Todo(d) = Todo(c)
<1> DEFINE scopes == [c.scopes EXCEPT ![l] = s]
           d == [c EXCEPT !.scopes = scopes, !.symbol_count = c.symbol_count + 1]
<1>1. c.scopes \in Seq(CompilerScopes) /\ c.scopes # << >> /\ l \in 1 .. Len(c.scopes)
  BY CurrentScope DEF Compilers, Level
<1>2. /\ scopes \in Seq(CompilerScopes)
      /\ Len(scopes) = Len(c.scopes)
      /\ \A k \in 1 .. Len(c.scopes) : scopes[k] = IF k = l THEN s ELSE c.scopes[k]
  BY <1>1, ExceptSeq
<1> HIDE DEF scopes
<1>3. scopes # << >>
  BY <1>1, <1>2
<1>4. c.symbol_count + 1 \in Nat
  BY DEF Compilers
<1>5. d \in Compilers /\ d.scopes = scopes /\ d.panic = c.panic
  BY <1>2, <1>3, <1>4 DEF Compilers
<1>6. /\ d.constants = c.constants
      /\ d.functions = c.functions
      /\ d.instruction_count = c.instruction_count
  BY DEF Compilers
<1> HIDE DEF d
<1>7. /\ Level(d) = Level(c)
      /\ \A k \in 1 .. Level(c) : d.scopes[k] = IF k = l THEN s ELSE c.scopes[k]
  BY <1>2, <1>5 DEF Level
<1>8. Emitted(d) = Emitted(c) /\ Todo(d) = Todo(c)
  BY <1>7, CurrentScope DEF Emitted, Todo, Scope
<1> QED
  BY <1>5, <1>6, <1>7, <1>8 DEF d, scopes, Failed, SameCode, SameBytecode

(* The scope symbols are defined in at a level. *)
ScopeOf(level) == IF level = 1 THEN "GLOBAL" ELSE "LOCAL"

Known(c, name) ==
  name \in DOMAIN Scope(c).entries /\ Scope(c).entries[name].scope # "FUNCTION"

(* Defining a name makes a symbol, unless there is one, or no room. *)
LEMMA DefineSymbolIs ==
  ASSUME NEW c \in Compilers, ~Failed(c), NEW name \in STRING
  PROVE  LET d == DefineSymbol(c, name)
             count == Scope(c).definition_count
         IN \/ Stopped(c, d) /\ Failed(d)
            \/ Known(c, name) /\ d = c
            \/ /\ ~Known(c, name)
               /\ d \in Compilers
               /\ ~Failed(d)
               /\ SameBelow(c, d)
               /\ SameCode(c, d)
               /\ SameBytecode(c, d)
               /\ Todo(d) = Todo(c)
               /\ Scope(d).entries = Put(Scope(c).entries, name,
                                         [scope |-> ScopeOf(Level(c)), index |-> count])
               /\ Scope(d).free_symbols = Scope(c).free_symbols
               /\ Scope(d).definition_count = count + 1
               /\ Level(c) = 1 => count < MaxCompilerSymbols
<1> DEFINE d == DefineSymbol(c, name)
           count == Scope(c).definition_count
           capacity == IF Level(c) = 1 THEN MaxCompilerSymbols ELSE MaxFunctionLocals
           symbol == [scope |-> ScopeOf(Level(c)), index |-> count]
           table == Put(Scope(c).entries, name, symbol)
           s == [[Scope(c) EXCEPT !.definition_count = count + 1] EXCEPT !.entries = table]
<1>1. CASE Known(c, name)
  BY <1>1 DEF DefineSymbol, Known
<1>2. CASE ~Known(c, name) /\ c.symbol_count >= MaxCompilerSymbols
  <2>1. d = Fail(c, "symbol capacity")
    BY <1>2 DEF DefineSymbol, Known
  <2>2. "symbol capacity" \in CompilerFaults
    BY DEF CompilerFaults, CompilerCapacityFaults
  <2> QED
    BY <2>1, <2>2, FailIs
<1>3. CASE ~Known(c, name) /\ ~(c.symbol_count >= MaxCompilerSymbols)
           /\ count >= capacity
  <2>1. d = Fail(c, "local capacity")
    BY <1>3 DEF DefineSymbol, Known
  <2>2. "local capacity" \in CompilerFaults
    BY DEF CompilerFaults, CompilerCapacityFaults
  <2> QED
    BY <2>1, <2>2, FailIs
<1>4. CASE ~Known(c, name) /\ ~(c.symbol_count >= MaxCompilerSymbols)
           /\ ~(count >= capacity)
  <2>1. /\ Level(c) \in 1 .. Level(c)
        /\ Scope(c) = c.scopes[Level(c)]
        /\ Scope(c) \in CompilerScopes
    BY CurrentScope
  <2>2. Scope(c).entries \in Tables /\ count \in Nat
    BY <2>1 DEF CompilerScopes
  <2>3. symbol \in Symbols
    BY <2>2 DEF Symbols, ScopeOf
  <2>4. table \in Tables
    BY <2>2, <2>3, TableWith
  <2>5. d = [c EXCEPT !.scopes = [c.scopes EXCEPT ![Level(c)] = s],
                      !.symbol_count = c.symbol_count + 1]
    <3>1. d = Enter([c EXCEPT !.scopes[Level(c)].definition_count = @ + 1],
                    Level(c), name, symbol)
      BY <1>4 DEF DefineSymbol, Known, ScopeOf
    <3> DEFINE inner == [Scope(c) EXCEPT !.definition_count = count + 1]
               e == [c EXCEPT !.scopes = [c.scopes EXCEPT ![Level(c)] = inner]]
    <3>2. d = Enter(e, Level(c), name, symbol)
      BY <3>1, <2>1 DEF Scope
    <3>3. /\ e.scopes = [c.scopes EXCEPT ![Level(c)] = inner]
          /\ e.scopes[Level(c)] = inner
          /\ inner.entries = Scope(c).entries
          /\ e.symbol_count = c.symbol_count
      <4>1. inner \in CompilerScopes /\ inner.entries = Scope(c).entries
        <5>1. count + 1 \in Nat
          BY <2>2
        <5> QED
          BY <2>1, <5>1 DEF CompilerScopes
      <4>2. c.scopes \in Seq(CompilerScopes) /\ Level(c) \in 1 .. Len(c.scopes)
        BY <2>1, CurrentScope DEF Level
      <4>3. e.scopes = [c.scopes EXCEPT ![Level(c)] = inner]
            /\ e.symbol_count = c.symbol_count
        BY DEF Compilers
      <4> HIDE DEF inner, e
      <4>4. e.scopes[Level(c)] = inner
        BY <4>2, <4>3
      <4> QED
        BY <4>1, <4>3, <4>4
    <3>4. d = [[e EXCEPT !.scopes = [e.scopes EXCEPT ![Level(c)] = s]]
                 EXCEPT !.symbol_count = c.symbol_count + 1]
      BY <3>2, <3>3 DEF Enter
    <3>5. [e.scopes EXCEPT ![Level(c)] = s] = [c.scopes EXCEPT ![Level(c)] = s]
      BY <3>3
    <3> QED
      BY <3>4, <3>5
  <2> HIDE DEF table, symbol
  <2>6. /\ s \in CompilerScopes
        /\ s.entries = table
        /\ s.definition_count = count + 1
        /\ s.free_symbols = Scope(c).free_symbols
        /\ s.instructions = Scope(c).instructions
        /\ s.todo = Scope(c).todo
    <3> DEFINE inner == [Scope(c) EXCEPT !.definition_count = count + 1]
    <3>1. count + 1 \in Nat
      BY <2>2
    <3>2. /\ inner \in CompilerScopes
          /\ inner.definition_count = count + 1
          /\ inner.free_symbols = Scope(c).free_symbols
          /\ inner.instructions = Scope(c).instructions
          /\ inner.todo = Scope(c).todo
      BY <2>1, <3>1 DEF CompilerScopes
    <3>3. s = [inner EXCEPT !.entries = table]
      OBVIOUS
    <3> HIDE DEF inner
    <3> QED
      BY <2>4, <3>2, <3>3 DEF CompilerScopes
  <2> HIDE DEF s, d
  <2>7. /\ d \in Compilers
        /\ ~Failed(d)
        /\ Level(d) = Level(c)
        /\ \A k \in 1 .. Level(c) :
             d.scopes[k] = IF k = Level(c) THEN s ELSE c.scopes[k]
        /\ SameCode(c, d)
        /\ SameBytecode(c, d)
        /\ Todo(d) = Todo(c)
    <3>1. /\ s.instructions = c.scopes[Level(c)].instructions
          /\ s.todo = c.scopes[Level(c)].todo
      BY <2>1, <2>6
    <3>2. PICK l \in 1 .. Level(c) : l = Level(c)
      BY <2>1
    <3> QED
      BY <2>5, <2>6, <3>1, <3>2, NamesChanged, ZenonT(30)
  <2>8. Scope(d) = s
    BY <2>1, <2>7 DEF Scope
  <2>9. SameBelow(c, d)
    BY <2>1, <2>7, CurrentScope DEF SameBelow
  <2>10. Level(c) = 1 => count < MaxCompilerSymbols
    BY <1>4, <2>2, CompilerAssumption DEF CompilerAssumption
  <2> QED
    BY <1>4, <2>6, <2>7, <2>8, <2>9, <2>10 DEF d, table, symbol
<1> QED
  BY <1>1, <1>2, <1>3, <1>4

(* The function being compiled is known by its name in its own scope. *)
LEMMA DefineFunctionNameIs ==
  ASSUME NEW c \in Compilers, ~Failed(c), NEW name \in STRING
  PROVE  LET d == DefineFunctionName(c, name)
         IN \/ Stopped(c, d) /\ Failed(d)
            \/ /\ d \in Compilers
               /\ ~Failed(d)
               /\ SameBelow(c, d)
               /\ SameCode(c, d)
               /\ SameBytecode(c, d)
               /\ Todo(d) = Todo(c)
               /\ Scope(d).entries = Put(Scope(c).entries, name,
                                         [scope |-> "FUNCTION", index |-> 0])
               /\ Scope(d).free_symbols = Scope(c).free_symbols
               /\ Scope(d).definition_count = Scope(c).definition_count
<1> DEFINE d == DefineFunctionName(c, name)
           symbol == [scope |-> "FUNCTION", index |-> 0]
           table == Put(Scope(c).entries, name, symbol)
           s == [Scope(c) EXCEPT !.entries = table]
<1>1. CASE c.symbol_count >= MaxCompilerSymbols
  <2>1. d = Fail(c, "symbol capacity")
    BY <1>1 DEF DefineFunctionName
  <2>2. "symbol capacity" \in CompilerFaults
    BY DEF CompilerFaults, CompilerCapacityFaults
  <2> QED
    BY <2>1, <2>2, FailIs
<1>2. CASE ~(c.symbol_count >= MaxCompilerSymbols)
  <2>1. /\ Level(c) \in 1 .. Level(c)
        /\ Scope(c) = c.scopes[Level(c)]
        /\ Scope(c) \in CompilerScopes
    BY CurrentScope
  <2>2. Scope(c).entries \in Tables
    BY <2>1 DEF CompilerScopes
  <2>3. table \in Tables
    <3>1. symbol \in Symbols
      BY DEF Symbols
    <3> QED
      BY <2>2, <3>1, TableWith
  <2>4. d = [c EXCEPT !.scopes = [c.scopes EXCEPT ![Level(c)] = s],
                      !.symbol_count = c.symbol_count + 1]
    BY <1>2, <2>1 DEF DefineFunctionName, Enter, Compilers
  <2> HIDE DEF table
  <2>5. /\ s \in CompilerScopes
        /\ s.entries = table
        /\ s.definition_count = Scope(c).definition_count
        /\ s.free_symbols = Scope(c).free_symbols
        /\ s.instructions = Scope(c).instructions
        /\ s.todo = Scope(c).todo
    BY <2>1, <2>3 DEF CompilerScopes
  <2> HIDE DEF s, d
  <2>6. /\ d \in Compilers
        /\ ~Failed(d)
        /\ Level(d) = Level(c)
        /\ \A k \in 1 .. Level(c) :
             d.scopes[k] = IF k = Level(c) THEN s ELSE c.scopes[k]
        /\ SameCode(c, d)
        /\ SameBytecode(c, d)
        /\ Todo(d) = Todo(c)
    <3>1. /\ s.instructions = c.scopes[Level(c)].instructions
          /\ s.todo = c.scopes[Level(c)].todo
      BY <2>1, <2>5
    <3>2. PICK l \in 1 .. Level(c) : l = Level(c)
      BY <2>1
    <3> QED
      BY <2>4, <2>5, <3>1, <3>2, NamesChanged, ZenonT(30)
  <2>7. Scope(d) = s
    BY <2>1, <2>6 DEF Scope
  <2>8. SameBelow(c, d)
    BY <2>1, <2>6, CurrentScope DEF SameBelow
  <2> QED
    BY <2>5, <2>6, <2>7, <2>8 DEF d, table
<1> QED
  BY <1>1, <1>2

(* A function at any level captures a symbol, or there is no room for it. *)
LEMMA DefineFreeIs ==
  ASSUME NEW c \in Compilers, ~Failed(c), NEW l \in 1 .. Level(c),
         NEW name \in STRING, NEW original \in Symbols
  PROVE  LET d == DefineFree(c, l, name, original)
             old == c.scopes[l]
             new == d.scopes[l]
         IN \/ Stopped(c, d) /\ Failed(d)
            \/ /\ d \in Compilers
               /\ ~Failed(d)
               /\ Level(d) = Level(c)
               /\ \A k \in 1 .. Level(c) : k # l => d.scopes[k] = c.scopes[k]
               /\ SameCode(c, d)
               /\ SameBytecode(c, d)
               /\ Todo(d) = Todo(c)
               /\ new.instructions = old.instructions
               /\ new.todo = old.todo
               /\ new.definition_count = old.definition_count
               /\ new.free_symbols = Append(old.free_symbols, original)
               /\ new.entries = Put(old.entries, name, FreeSymbol(c, l))
<1> DEFINE d == DefineFree(c, l, name, original)
           old == c.scopes[l]
           symbol == FreeSymbol(c, l)
           table == Put(old.entries, name, symbol)
           captured == Append(old.free_symbols, original)
           inner == [old EXCEPT !.free_symbols = captured]
           s == [inner EXCEPT !.entries = table]
<1>1. CASE Len(old.free_symbols) >= MaxFreeValues
  <2>1. d = Fail(c, "free variable capacity")
    BY <1>1 DEF DefineFree
  <2>2. "free variable capacity" \in CompilerFaults
    BY DEF CompilerFaults, CompilerCapacityFaults
  <2> QED
    BY <2>1, <2>2, FailIs
<1>2. CASE ~(Len(old.free_symbols) >= MaxFreeValues)
           /\ c.symbol_count >= MaxCompilerSymbols
  <2>1. d = Fail(c, "symbol capacity")
    BY <1>2 DEF DefineFree
  <2>2. "symbol capacity" \in CompilerFaults
    BY DEF CompilerFaults, CompilerCapacityFaults
  <2> QED
    BY <2>1, <2>2, FailIs
<1>3. CASE ~(Len(old.free_symbols) >= MaxFreeValues)
           /\ ~(c.symbol_count >= MaxCompilerSymbols)
  <2>1. /\ old \in CompilerScopes
        /\ old.entries \in Tables
        /\ old.free_symbols \in Seq(Symbols)
    BY OpenScope
  <2>2. symbol \in Symbols
    BY <2>1 DEF FreeSymbol, Symbols
  <2>3. table \in Tables /\ captured \in Seq(Symbols)
    BY <2>1, <2>2, TableWith, AppendProperties
  <2>4. /\ inner \in CompilerScopes
        /\ inner.entries = old.entries
        /\ inner.free_symbols = captured
        /\ inner.definition_count = old.definition_count
        /\ inner.instructions = old.instructions
        /\ inner.todo = old.todo
    BY <2>1, <2>3 DEF CompilerScopes
  <2>5. d = [c EXCEPT !.scopes = [c.scopes EXCEPT ![l] = s],
                      !.symbol_count = c.symbol_count + 1]
    <3> DEFINE e == [c EXCEPT !.scopes = [c.scopes EXCEPT ![l] = inner]]
    <3>1. d = Enter(e, l, name, symbol)
      BY <1>3 DEF DefineFree
    <3>2. e.scopes = [c.scopes EXCEPT ![l] = inner] /\ e.symbol_count = c.symbol_count
      BY DEF Compilers
    <3>3. c.scopes \in Seq(CompilerScopes) /\ l \in 1 .. Len(c.scopes)
      BY CurrentScope DEF Level
    <3> HIDE DEF inner, e
    <3>4. e.scopes[l] = inner
      BY <3>2, <3>3
    <3>5. d = [[e EXCEPT !.scopes = [e.scopes EXCEPT ![l] = s]]
                 EXCEPT !.symbol_count = c.symbol_count + 1]
      BY <2>4, <3>1, <3>2, <3>4 DEF Enter
    <3>6. [e.scopes EXCEPT ![l] = s] = [c.scopes EXCEPT ![l] = s]
      BY <3>2
    <3> QED
      BY <3>5, <3>6 DEF e
  <2> HIDE DEF table, captured, symbol, inner
  <2>6. /\ s \in CompilerScopes
        /\ s.entries = table
        /\ s.definition_count = old.definition_count
        /\ s.free_symbols = captured
        /\ s.instructions = c.scopes[l].instructions
        /\ s.todo = c.scopes[l].todo
    BY <2>3, <2>4 DEF CompilerScopes
  <2> HIDE DEF s, d
  <2>7. /\ d \in Compilers
        /\ ~Failed(d)
        /\ Level(d) = Level(c)
        /\ \A k \in 1 .. Level(c) : d.scopes[k] = IF k = l THEN s ELSE c.scopes[k]
        /\ SameCode(c, d)
        /\ SameBytecode(c, d)
        /\ Todo(d) = Todo(c)
    BY <2>5, <2>6, NamesChanged, ZenonT(30)
  <2>8. d.scopes[l] = s
    BY <2>7
  <2> QED
    BY <2>6, <2>7, <2>8 DEF d, table, captured, symbol
<1> QED
  BY <1>1, <1>2, <1>3

-----------------------------------------------------------------------------
(* Tasks *)

Evaluation(expr, name) == [do |-> "EXPRESSION", expr |-> expr, name |-> name]
Emission(op, operand) == [do |-> "EMIT", op |-> op, operand |-> operand]
Store(symbol) == [do |-> "STORE", symbol |-> symbol]

(* Statements become tasks in their order. *)
LEMMA StatementTasks ==
  ASSUME NEW stmts \in Seq(Stmts)
  PROVE  /\ Statements(stmts) \in Seq(Tasks)
         /\ Len(Statements(stmts)) = Len(stmts)
         /\ \A k \in 1 .. Len(stmts) :
              /\ Statements(stmts)[k] = [do |-> "STATEMENT", stmt |-> stmts[k]]
              /\ Statements(stmts)[k].do = "STATEMENT"
<1> DEFINE task(k) == [do |-> "STATEMENT", stmt |-> stmts[k]]
<1>1. \A k \in 1 .. Len(stmts) : task(k) \in Tasks
  BY DEF Tasks
<1>2. Len(stmts) \in Nat /\ DOMAIN stmts = 1 .. Len(stmts)
  OBVIOUS
<1>3. Statements(stmts) = [k \in 1 .. Len(stmts) |-> task(k)]
  BY <1>2 DEF Statements
<1>4. \A k \in 1 .. Len(stmts) : task(k).do = "STATEMENT"
  OBVIOUS
<1> HIDE DEF task
<1>5. [k \in 1 .. Len(stmts) |-> task(k)] \in Seq(Tasks)
  BY <1>1, <1>2, IsASeq
<1>6. Len([k \in 1 .. Len(stmts) |-> task(k)]) = Len(stmts)
  BY <1>2
<1> QED
  BY <1>3, <1>4, <1>5, <1>6 DEF task

(* Expressions become tasks in their order. *)
LEMMA ExpressionTasks ==
  ASSUME NEW exprs \in Seq(Exprs)
  PROVE  /\ Expressions(exprs) \in Seq(Tasks)
         /\ Len(Expressions(exprs)) = Len(exprs)
         /\ \A k \in 1 .. Len(exprs) :
              /\ Expressions(exprs)[k] = Evaluation(exprs[k], NoName)
              /\ Expressions(exprs)[k].do = "EXPRESSION"
<1> DEFINE task(k) == Evaluation(exprs[k], NoName)
<1>1. \A k \in 1 .. Len(exprs) : task(k) \in Tasks
  BY DEF Tasks, Evaluation
<1>2. Len(exprs) \in Nat /\ DOMAIN exprs = 1 .. Len(exprs)
  OBVIOUS
<1>3. Expressions(exprs) = [k \in 1 .. Len(exprs) |-> task(k)]
  BY <1>2 DEF Expressions, Evaluation
<1>4. \A k \in 1 .. Len(exprs) : task(k).do = "EXPRESSION"
  BY DEF Evaluation
<1> HIDE DEF task
<1>5. [k \in 1 .. Len(exprs) |-> task(k)] \in Seq(Tasks)
  BY <1>1, <1>2, IsASeq
<1>6. Len([k \in 1 .. Len(exprs) |-> task(k)]) = Len(exprs)
  BY <1>2
<1> QED
  BY <1>3, <1>4, <1>5, <1>6 DEF task

(* What a task is for and what it carries. *)
LEMMA TaskKinds ==
  ASSUME NEW t \in Tasks
  PROVE  /\ t.do = "STATEMENT" => t.stmt \in Stmts
         /\ t.do = "LET" => t.name \in STRING
         /\ t.do \in {"STORE", "LOAD"} => t.symbol \in Symbols
         /\ t.do = "EXPRESSION" => t.expr \in Exprs /\ t.name \in STRING \union {NoName}
         /\ t.do = "EMIT" => t.op \in OpCodes /\ t.operand \in Nat
         /\ t.do = "CAPTURE" => /\ t.name \in STRING
                                /\ t.level \in Nat
                                /\ t.symbol \in Symbols
         /\ t.do = "CONSEQUENCE" => /\ t.consequence \in Seq(Stmts)
                                    /\ t.alternative \in Seq(Stmts)
         /\ t.do = "ALTERNATIVE" => t.stmts \in Seq(Stmts) /\ t.jump_if_false \in Nat
         /\ t.do = "END_IF" => t.jump_end \in Nat
         /\ t.do = "ARGUMENTS" => t.exprs \in Seq(Exprs)
         /\ t.do = "DEFINE" => t.name \in STRING
         /\ t.do = "CLOSURE" => t.function \in CompiledFunctions /\ t.free_count \in Nat
         /\ t.do = "FUNCTION" => t.parameter_count \in Nat
BY DEF Tasks

-----------------------------------------------------------------------------
(* What each handler does *)

(* d is c with tasks to do first. *)
Asks(c, d, tasks) ==
  /\ d \in Compilers
  /\ ~Failed(d)
  /\ tasks \in Seq(Tasks)
  /\ SameBelow(c, d)
  /\ SameNames(c, d)
  /\ SameCode(c, d)
  /\ SameBytecode(c, d)
  /\ Todo(d) = tasks \o Todo(c)

(* d is c with another instruction. *)
Emits(c, d, op, operand, operand2) ==
  /\ d \in Compilers
  /\ ~Failed(d)
  /\ SameBelow(c, d)
  /\ SameNames(c, d)
  /\ SameBytecode(c, d)
  /\ Todo(d) = Todo(c)
  /\ op \in OpCodes
  /\ Emitted(d) = Append(Emitted(c), Instr(op, operand, operand2))
  /\ d.instruction_count = c.instruction_count + 1
  /\ Len(Emitted(c)) < MaxBytecodeInstructions

(* d is c with a name defined. *)
Defines(c, d, name) ==
  LET count == Scope(c).definition_count IN
  \/ Known(c, name) /\ d = c
  \/ /\ ~Known(c, name)
     /\ d \in Compilers
     /\ ~Failed(d)
     /\ SameBelow(c, d)
     /\ SameCode(c, d)
     /\ SameBytecode(c, d)
     /\ Todo(d) = Todo(c)
     /\ Scope(d).entries = Put(Scope(c).entries, name,
                               [scope |-> ScopeOf(Level(c)), index |-> count])
     /\ Scope(d).free_symbols = Scope(c).free_symbols
     /\ Scope(d).definition_count = count + 1
     /\ Level(c) = 1 => count < MaxCompilerSymbols

(* A step that stops the compiler, for lack of room or of a name. *)
Stops(d) == d \in Compilers /\ Failed(d) /\ d.panic \in CompilerFaults

(* Stopping in a part of a handler is stopping. *)
LEMMA StoppedStops == \A c, d : Stopped(c, d) /\ Failed(d) => Stops(d)
BY DEF Stopped, Stops

(* Tasks to do first. *)
LEMMA ThenAsks ==
  ASSUME NEW c \in Compilers, ~Failed(c), NEW tasks \in Seq(Tasks)
  PROVE  Asks(c, Then(c, tasks), tasks)
BY ThenIs DEF Asks

(* Tasks to do before tasks to do first. *)
LEMMA AsksTwice ==
  ASSUME NEW c \in Compilers, NEW d, NEW e, NEW first, NEW more,
         Asks(c, d, first), Asks(d, e, more)
  PROVE  Asks(c, e, more \o first)
<1>1. Todo(c) \in Seq(Tasks) /\ first \in Seq(Tasks) /\ more \in Seq(Tasks)
  BY CurrentScope DEF Asks
<1>2. Todo(e) = (more \o first) \o Todo(c)
  <2>1. Todo(e) = more \o (first \o Todo(c))
    BY DEF Asks
  <2> QED
    BY <1>1, <2>1, ConcatAssociative
<1>3. more \o first \in Seq(Tasks)
  BY <1>1, ConcatProperties
<1>4. SameBelow(c, e) /\ SameNames(c, e) /\ SameCode(c, e) /\ SameBytecode(c, e)
  BY DEF Asks, SameBelow, SameNames, SameCode, SameBytecode, Level, Scope
<1> QED
  BY <1>2, <1>3, <1>4 DEF Asks

(* Emitting is emitting, or stopping. *)
LEMMA EmitEmits ==
  ASSUME NEW c \in Compilers, ~Failed(c), NEW op \in OpCodes, NEW operand \in Nat,
         NEW operand2 \in Nat
  PROVE  LET d == Emit(c, op, operand, operand2) IN
         Stops(d) \/ Emits(c, d, op, operand, operand2)
BY EmitIs, StoppedStops DEF Emits

(* The opcodes that load and store a symbol. *)
LoadOp(symbol) ==
  CASE symbol.scope = "GLOBAL"   -> "GET_GLOBAL"
    [] symbol.scope = "LOCAL"    -> "GET_LOCAL"
    [] symbol.scope = "FREE"     -> "GET_FREE"
    [] symbol.scope = "FUNCTION" -> "CURRENT_CLOSURE"
StoreOp(symbol) == IF symbol.scope = "GLOBAL" THEN "SET_GLOBAL" ELSE "SET_LOCAL"

(* Loading and storing a symbol have an opcode each. *)
LEMMA SymbolOps ==
  ASSUME NEW symbol \in Symbols
  PROVE  /\ LoadOp(symbol) \in LoadOps \ {"CONSTANT", "NULL", "TRUE", "FALSE"}
         /\ LoadOp(symbol) \in OpCodes
         /\ StoreOp(symbol) \in {"SET_GLOBAL", "SET_LOCAL"}
         /\ StoreOp(symbol) \in OpCodes
         /\ symbol.index \in Nat
         /\ LoadOp(symbol) = "GET_GLOBAL" <=> symbol.scope = "GLOBAL"
         /\ LoadOp(symbol) = "GET_LOCAL" <=> symbol.scope = "LOCAL"
         /\ LoadOp(symbol) = "GET_FREE" <=> symbol.scope = "FREE"
         /\ LoadOp(symbol) = "CURRENT_CLOSURE" <=> symbol.scope = "FUNCTION"
BY DEF LoadOp, StoreOp, Symbols, OpCodes, LoadOps

(* Loading and storing a symbol. *)
LEMMA SymbolMoved ==
  ASSUME NEW c \in Compilers, ~Failed(c), NEW symbol \in Symbols
  PROVE  /\ \/ Stops(LoadSymbol(c, symbol))
            \/ Emits(c, LoadSymbol(c, symbol), LoadOp(symbol), symbol.index, 0)
         /\ \/ Stops(StoreSymbol(c, symbol))
            \/ Emits(c, StoreSymbol(c, symbol), StoreOp(symbol), symbol.index, 0)
<1>1. /\ LoadSymbol(c, symbol) = Emit(c, LoadOp(symbol), symbol.index, 0)
      /\ StoreSymbol(c, symbol) = Emit(c, StoreOp(symbol), symbol.index, 0)
  BY DEF LoadSymbol, StoreSymbol, LoadOp, StoreOp
<1>2. /\ LoadOp(symbol) \in OpCodes
      /\ StoreOp(symbol) \in OpCodes
      /\ symbol.index \in Nat
      /\ 0 \in Nat
  BY SymbolOps
<1> QED
  BY <1>1, <1>2, EmitEmits

(* The expression is left. *)
LEMMA ExpressionLeft ==
  ASSUME NEW c \in Compilers, ~Failed(c)
  PROVE  Asks(c, LeaveExpression(c), << >>)
<1> DEFINE d == LeaveExpression(c)
<1>1. /\ d \in Compilers
      /\ d.scopes = c.scopes
      /\ d.panic = c.panic
      /\ d.instruction_count = c.instruction_count
      /\ d.constants = c.constants
      /\ d.functions = c.functions
  <2>1. PICK depth \in Int : depth = c.compile_depth - 1
    BY DEF Compilers
  <2>2. d = [c EXCEPT !.compile_depth = depth]
    BY <2>1 DEF LeaveExpression
  <2> QED
    BY <2>2 DEF Compilers
<1>2. Todo(c) \in Seq(Tasks) /\ << >> \in Seq(Tasks)
  BY CurrentScope, EmptySeq
<1>3. << >> \o Todo(c) = Todo(c)
  BY <1>2, ConcatEmptySeq
<1> HIDE DEF d
<1>4. Asks(c, d, << >>)
  BY <1>1, <1>2, <1>3, SameScopes DEF Asks, SameCode, SameBytecode, Failed
<1> QED
  BY <1>4 DEF d

(* A defined name has a symbol. *)
LEMMA DefinedIs ==
  ASSUME NEW c \in Compilers, ~Failed(c), NEW name \in STRING
  PROVE  LET d == DefineSymbol(c, name) IN
         \/ Stops(d)
         \/ /\ Defines(c, d, name)
            /\ d \in Compilers
            /\ ~Failed(d)
            /\ name \in DOMAIN Scope(d).entries
            /\ SymbolOf(d, name) \in Symbols
            /\ SymbolOf(d, name).scope # "FUNCTION"
<1> DEFINE d == DefineSymbol(c, name)
<1>1. CASE Stopped(c, d) /\ Failed(d)
  BY <1>1, StoppedStops
<1>2. CASE Known(c, name) /\ d = c
  <2>1. Scope(c).entries \in Tables
    BY CurrentScope DEF CompilerScopes
  <2> HIDE DEF d
  <2> QED
    BY <1>2, <2>1, TableIs DEF Known, SymbolOf, Defines, d
<1>3. CASE Defines(c, d, name) /\ ~Known(c, name)
  <2> DEFINE symbol == [scope |-> ScopeOf(Level(c)), index |-> Scope(c).definition_count]
  <2>1. Scope(c).entries \in Tables /\ Scope(c).definition_count \in Nat
    BY CurrentScope DEF CompilerScopes
  <2>2. symbol \in Symbols /\ symbol.scope # "FUNCTION"
    BY <2>1 DEF Symbols, ScopeOf
  <2>3. Scope(d).entries = Put(Scope(c).entries, name, symbol)
        /\ d \in Compilers /\ ~Failed(d)
    BY <1>3, Zenon DEF Defines
  <2> HIDE DEF symbol, d
  <2>4. /\ name \in DOMAIN Scope(d).entries
        /\ Scope(d).entries[name] = symbol
    <3> DEFINE table == Put(Scope(c).entries, name, symbol)
    <3>1. /\ DOMAIN table = DOMAIN Scope(c).entries \union {name}
          /\ table[name] = symbol
      BY <2>1, <2>2, TableWith, ZenonT(30)
    <3>2. Scope(d).entries = table
      BY <2>3
    <3> HIDE DEF table
    <3> QED
      BY <3>1, <3>2
  <2> QED
    BY <1>3, <2>2, <2>3, <2>4 DEF SymbolOf, d
<1>4. \/ Stopped(c, d) /\ Failed(d)
      \/ Known(c, name) /\ d = c
      \/ Defines(c, d, name) /\ ~Known(c, name)
  <2>1. \/ Stopped(c, d) /\ Failed(d)
        \/ Known(c, name) /\ d = c
        \/ /\ ~Known(c, name)
           /\ d \in Compilers
           /\ ~Failed(d)
           /\ SameBelow(c, d)
           /\ SameCode(c, d)
           /\ SameBytecode(c, d)
           /\ Todo(d) = Todo(c)
           /\ Scope(d).entries =
                Put(Scope(c).entries, name,
                    [scope |-> ScopeOf(Level(c)), index |-> Scope(c).definition_count])
           /\ Scope(d).free_symbols = Scope(c).free_symbols
           /\ Scope(d).definition_count = Scope(c).definition_count + 1
           /\ Level(c) = 1 => Scope(c).definition_count < MaxCompilerSymbols
    BY DefineSymbolIs, Zenon
  <2> HIDE DEF d
  <2> QED
    BY <2>1, Zenon DEF Defines
<1> QED
  BY <1>1, <1>2, <1>3, <1>4

(* The name of a let is defined, and the value stored in its place. *)
LEMMA LetIs ==
  ASSUME NEW c \in Compilers, ~Failed(c), NEW name \in STRING
  PROVE  LET d == CompileLet(c, name) IN
         \/ Stops(d)
         \/ \E e \in Compilers :
              /\ Defines(c, e, name)
              /\ name \in DOMAIN Scope(e).entries
              /\ SymbolOf(e, name) \in Symbols
              /\ Emits(e, d, StoreOp(SymbolOf(e, name)), SymbolOf(e, name).index, 0)
<1> DEFINE e == DefineSymbol(c, name)
<1>1. CompileLet(c, name) = StoreSymbol(e, SymbolOf(e, name))
  BY DEF CompileLet
<1>2. CASE Stops(e)
  <2>1. StoreSymbol(e, SymbolOf(e, name)) = e
    BY <1>2 DEF StoreSymbol, Emit, Stops
  <2> QED
    BY <1>1, <1>2, <2>1
<1>3. CASE ~Stops(e)
  <2>1. /\ Defines(c, e, name)
        /\ e \in Compilers
        /\ ~Failed(e)
        /\ name \in DOMAIN Scope(e).entries
        /\ SymbolOf(e, name) \in Symbols
    BY <1>3, DefinedIs
  <2> HIDE DEF e
  <2> QED
    BY <1>1, <2>1, SymbolMoved
<1> QED
  BY <1>2, <1>3

(* The tasks there are. *)
LEMMA TasksAre ==
  /\ \A expr \in Exprs, name \in STRING \union {NoName} :
       Evaluation(expr, name) \in Tasks
  /\ \A op \in OpCodes, operand \in Nat : Emission(op, operand) \in Tasks
  /\ \A symbol \in Symbols :
       /\ Store(symbol) \in Tasks
       /\ [do |-> "LOAD", symbol |-> symbol] \in Tasks
  /\ \A name \in STRING :
       /\ [do |-> "LET", name |-> name] \in Tasks
       /\ [do |-> "DEFINE", name |-> name] \in Tasks
  /\ \A symbol \in Symbols, name \in STRING, level \in Nat :
       [do |-> "CAPTURE", name |-> name, level |-> level, symbol |-> symbol] \in Tasks
  /\ [do |-> "LEAVE"] \in Tasks
  /\ \A n \in Nat :
       /\ [do |-> "END_IF", jump_end |-> n] \in Tasks
       /\ [do |-> "FUNCTION", parameter_count |-> n] \in Tasks
       /\ \A f \in CompiledFunctions :
            [do |-> "CLOSURE", function |-> f, free_count |-> n] \in Tasks
       /\ \A stmts \in Seq(Stmts) :
            [do |-> "ALTERNATIVE", stmts |-> stmts, jump_if_false |-> n] \in Tasks
  /\ \A exprs \in Seq(Exprs) : [do |-> "ARGUMENTS", exprs |-> exprs] \in Tasks
  /\ \A yes, no \in Seq(Stmts) :
       [do |-> "CONSEQUENCE", consequence |-> yes, alternative |-> no] \in Tasks
BY DEF Tasks, Evaluation, Emission, Store

(* Short lists of tasks. *)
LEMMA FewTasks ==
  ASSUME NEW a \in Tasks, NEW b \in Tasks
  PROVE  <<a>> \in Seq(Tasks) /\ <<a, b>> \in Seq(Tasks)
OBVIOUS

(* What a statement asks for: its value, and what is done with it. *)
LEMMA StatementIs ==
  ASSUME NEW c \in Compilers, ~Failed(c), NEW stmt \in Stmts
  PROVE  LET d == CompileStatement(c, stmt) IN
         /\ stmt.value \in Exprs
         /\ \/ Stops(d)
            \/ /\ stmt.type = "LET"
               /\ stmt.value.type = "FUNCTION"
               /\ stmt.name \in STRING
               /\ \E e \in Compilers :
                    /\ Defines(c, e, stmt.name)
                    /\ stmt.name \in DOMAIN Scope(e).entries
                    /\ SymbolOf(e, stmt.name) \in Symbols
                    /\ Asks(e, d, <<Evaluation(stmt.value, stmt.name),
                                    Store(SymbolOf(e, stmt.name))>>)
            \/ /\ stmt.type = "LET"
               /\ stmt.value.type # "FUNCTION"
               /\ stmt.name \in STRING
               /\ Asks(c, d, <<Evaluation(stmt.value, NoName),
                               [do |-> "LET", name |-> stmt.name]>>)
            \/ /\ stmt.type = "RETURN"
               /\ Asks(c, d, <<Evaluation(stmt.value, NoName),
                               Emission("RETURN_VALUE", 0)>>)
            \/ /\ stmt.type = "EXPR"
               /\ Asks(c, d, <<Evaluation(stmt.value, NoName), Emission("POP", 0)>>)
<1> DEFINE d == CompileStatement(c, stmt)
<1>1. /\ stmt.type \in {"LET", "RETURN", "EXPR"}
      /\ stmt.value \in Exprs
      /\ stmt.type = "LET" => stmt.name \in STRING
  BY SyntaxAssumption DEF SyntaxAssumption, IsStmt
<1>2. /\ NoName \in STRING \union {NoName}
      /\ 0 \in Nat
      /\ {"RETURN_VALUE", "POP"} \subseteq OpCodes
  BY DEF OpCodes, ReturnOps
<1>3. /\ Evaluation(stmt.value, NoName) \in Tasks
      /\ Emission("RETURN_VALUE", 0) \in Tasks
      /\ Emission("POP", 0) \in Tasks
  BY <1>1, <1>2, TasksAre, Zenon
<1>4. CASE stmt.type = "LET" /\ stmt.value.type = "FUNCTION"
  <2> DEFINE e == DefineSymbol(c, stmt.name)
             tasks == <<Evaluation(stmt.value, stmt.name), Store(SymbolOf(e, stmt.name))>>
  <2>1. d = Then(e, tasks)
    BY <1>4 DEF CompileStatement, Evaluation, Store
  <2>2. CASE Stops(e)
    BY <1>1, <2>1, <2>2 DEF Then, Stops
  <2>3. CASE ~Stops(e)
    <3>1. /\ Defines(c, e, stmt.name)
          /\ e \in Compilers
          /\ ~Failed(e)
          /\ stmt.name \in DOMAIN Scope(e).entries
          /\ SymbolOf(e, stmt.name) \in Symbols
      BY <1>1, <1>4, <2>3, DefinedIs
    <3>2. tasks \in Seq(Tasks)
      BY <1>1, <1>4, <3>1, TasksAre, FewTasks
    <3> HIDE DEF e
    <3>3. Asks(e, d, tasks)
      BY <2>1, <3>1, <3>2, ThenAsks
    <3> QED
      BY <1>1, <1>4, <3>1, <3>3
  <2> QED
    BY <2>2, <2>3
<1>5. CASE stmt.type = "LET" /\ stmt.value.type # "FUNCTION"
  <2> DEFINE tasks == <<Evaluation(stmt.value, NoName), [do |-> "LET", name |-> stmt.name]>>
  <2>1. d = Then(c, tasks)
    BY <1>5 DEF CompileStatement, Evaluation
  <2>2. tasks \in Seq(Tasks)
    BY <1>1, <1>3, <1>5, TasksAre, FewTasks
  <2>3. Asks(c, d, tasks)
    BY <2>1, <2>2, ThenAsks
  <2> QED
    BY <1>1, <1>5, <2>3
<1>6. CASE stmt.type = "RETURN"
  <2> DEFINE tasks == <<Evaluation(stmt.value, NoName), Emission("RETURN_VALUE", 0)>>
  <2>1. d = Then(c, tasks)
    BY <1>6 DEF CompileStatement, Evaluation, Emission
  <2>2. tasks \in Seq(Tasks)
    BY <1>3, FewTasks
  <2>3. Asks(c, d, tasks)
    BY <2>1, <2>2, ThenAsks
  <2> QED
    BY <1>1, <1>6, <2>3
<1>7. CASE stmt.type = "EXPR"
  <2> DEFINE tasks == <<Evaluation(stmt.value, NoName), Emission("POP", 0)>>
  <2>1. d = Then(c, tasks)
    BY <1>7 DEF CompileStatement, Evaluation, Emission
  <2>2. tasks \in Seq(Tasks)
    BY <1>3, FewTasks
  <2>3. Asks(c, d, tasks)
    BY <2>1, <2>2, ThenAsks
  <2> QED
    BY <1>1, <1>7, <2>3
<1> QED
  BY <1>1, <1>4, <1>5, <1>6, <1>7

-----------------------------------------------------------------------------
(* Branches *)

ALTERNATIVE(stmts, position) ==
  [do |-> "ALTERNATIVE", stmts |-> stmts, jump_if_false |-> position]
END_IF(position) == [do |-> "END_IF", jump_end |-> position]

(* d is c without its last instruction. *)
Removes(c, d) ==
  /\ Emitted(c) # << >>
  /\ d \in Compilers
  /\ ~Failed(d)
  /\ SameBelow(c, d)
  /\ SameNames(c, d)
  /\ SameBytecode(c, d)
  /\ Todo(d) = Todo(c)
  /\ Len(Emitted(d)) = Len(Emitted(c)) - 1
  /\ \A k \in 1 .. Len(Emitted(c)) - 1 : Emitted(d)[k] = Emitted(c)[k]
  /\ d.instruction_count = c.instruction_count

(* d is c with the jump at position p going to the end. *)
Patches(c, d, p) ==
  LET n == Len(Emitted(c)) IN
  /\ p < n
  /\ d \in Compilers
  /\ ~Failed(d)
  /\ SameBelow(c, d)
  /\ SameNames(c, d)
  /\ SameBytecode(c, d)
  /\ Todo(d) = Todo(c)
  /\ Len(Emitted(d)) = n
  /\ \A k \in 1 .. n : k # p + 1 => Emitted(d)[k] = Emitted(c)[k]
  /\ Emitted(d)[p + 1] = [Emitted(c)[p + 1] EXCEPT !.operand = n]
  /\ d.instruction_count = c.instruction_count

(* e is c at the end of a branch. *)
Branch(c, e) ==
  \/ LastIs(c, "POP") /\ Removes(c, e)
  \/ LastIs(c, "RETURN_VALUE") /\ e = c
  \/ ~LastIs(c, "POP") /\ ~LastIs(c, "RETURN_VALUE") /\ Emits(c, e, "NULL", 0, 0)

(* The end of a branch. *)
LEMMA BranchIs ==
  ASSUME NEW c \in Compilers, ~Failed(c)
  PROVE  \/ Stops(EndBranch(c))
         \/ /\ Branch(c, EndBranch(c))
            /\ EndBranch(c) \in Compilers
            /\ ~Failed(EndBranch(c))
<1>1. CASE LastIs(c, "POP")
  <2>1. Emitted(c) # << >> /\ EndBranch(c) = RemoveLast(c)
    BY <1>1 DEF LastIs, EndBranch
  <2>2. Removes(c, RemoveLast(c))
    BY <2>1, RemoveLastIs DEF Removes
  <2> QED
    BY <1>1, <2>1, <2>2 DEF Branch, Removes
<1>2. CASE LastIs(c, "RETURN_VALUE")
  <2>1. ~LastIs(c, "POP")
    BY <1>2 DEF LastIs
  <2>2. EndBranch(c) = c
    BY <1>2, <2>1 DEF EndBranch
  <2> QED
    BY <1>2, <2>2 DEF Branch
<1>3. CASE ~LastIs(c, "POP") /\ ~LastIs(c, "RETURN_VALUE")
  <2>1. EndBranch(c) = Emit(c, "NULL", 0, 0)
    BY <1>3 DEF EndBranch
  <2>2. "NULL" \in OpCodes /\ 0 \in Nat
    BY DEF OpCodes, LoadOps
  <2>3. Stops(EndBranch(c)) \/ Emits(c, EndBranch(c), "NULL", 0, 0)
    BY <2>1, <2>2, EmitEmits
  <2> QED
    BY <1>3, <2>3 DEF Branch, Emits
<1> QED
  BY <1>1, <1>2, <1>3

(* A jump gets its target when there is such an instruction. *)
LEMMA PatchPatches ==
  ASSUME NEW c \in Compilers, ~Failed(c), NEW p \in Nat, p < Len(Emitted(c))
  PROVE  Patches(c, PatchJump(c, p), p)
BY PatchJumpIs DEF Patches

(* The consequence: a jump around it, its statements. *)
LEMMA ConsequenceIs ==
  ASSUME NEW c \in Compilers, ~Failed(c), NEW yes \in Seq(Stmts), NEW no \in Seq(Stmts)
  PROVE  LET d == CompileConsequence(c, yes, no) IN
         \/ Stops(d)
         \/ \E e \in Compilers :
              /\ Emits(c, e, "JUMP_NOT_TRUTHY", Unpatched, 0)
              /\ Asks(e, d, Append(Statements(yes), ALTERNATIVE(no, Len(Emitted(c)))))
<1> DEFINE e == Emit(c, "JUMP_NOT_TRUTHY", Unpatched, 0)
           tasks == Append(Statements(yes), ALTERNATIVE(no, Len(Emitted(c))))
<1>1. CompileConsequence(c, yes, no) = Then(e, tasks)
  BY DEF CompileConsequence, ALTERNATIVE
<1>2. "JUMP_NOT_TRUTHY" \in OpCodes /\ Unpatched \in Nat /\ 0 \in Nat
  BY DEF OpCodes, JumpOps, Unpatched
<1>3. Stops(e) \/ Emits(c, e, "JUMP_NOT_TRUTHY", Unpatched, 0)
  BY <1>2, EmitEmits
<1>4. tasks \in Seq(Tasks)
  <2>1. Len(Emitted(c)) \in Nat
    BY CurrentScope
  <2>2. ALTERNATIVE(no, Len(Emitted(c))) \in Tasks
    BY <2>1, TasksAre DEF ALTERNATIVE
  <2> QED
    BY <2>2, StatementTasks, AppendProperties
<1> HIDE DEF e, tasks
<1>5. CASE Stops(e)
  BY <1>1, <1>5 DEF Then, Stops
<1>6. CASE Emits(c, e, "JUMP_NOT_TRUTHY", Unpatched, 0)
  <2>1. e \in Compilers /\ ~Failed(e)
    BY <1>6 DEF Emits
  <2> QED
    BY <1>1, <1>4, <1>6, <2>1, ThenAsks DEF tasks
<1> QED
  BY <1>3, <1>5, <1>6

(* A jump that waits for its target, at position p. *)
JumpAt(c, p, op) ==
  p \in Nat /\ p < Len(Emitted(c)) /\ Emitted(c)[p + 1].op = op

(* A jump that waits is still there after the branch. *)
LEMMA JumpStays ==
  ASSUME NEW c \in Compilers, ~Failed(c), NEW p, NEW op \in JumpOps, JumpAt(c, p, op),
         NEW e, Branch(c, e)
  PROVE  JumpAt(e, p, op) /\ Emitted(e)[p + 1] = Emitted(c)[p + 1]
<1>1. Emitted(c) \in Seq(Instructions) /\ Len(Emitted(c)) \in Nat
  BY CurrentScope
<1>2. CASE LastIs(c, "POP") /\ Removes(c, e)
  <2>1. Last(Emitted(c)) = Emitted(c)[Len(Emitted(c))] /\ Emitted(c) # << >>
    BY <1>1, <1>2, FrontIs DEF LastIs
  <2>2. p + 1 # Len(Emitted(c))
    BY <1>2, <2>1 DEF LastIs, JumpAt, JumpOps
  <2>3. p + 1 \in 1 .. Len(Emitted(c)) - 1
    BY <1>1, <2>2 DEF JumpAt
  <2> QED
    BY <1>1, <1>2, <2>3 DEF JumpAt, Removes
<1>3. CASE e = c
  BY <1>3
<1>4. CASE Emits(c, e, "NULL", 0, 0)
  <2> DEFINE i == Instr("NULL", 0, 0)
  <2>1. i \in Instructions
    BY <1>4 DEF Instr, Instructions, Emits
  <2>2. Emitted(e) = Append(Emitted(c), i)
    BY <1>4 DEF Emits
  <2> HIDE DEF i
  <2>3. p + 1 \in 1 .. Len(Emitted(c))
    BY <1>1 DEF JumpAt
  <2> QED
    BY <1>1, <2>1, <2>2, <2>3, AppendProperties DEF JumpAt
<1> QED
  BY <1>2, <1>3, <1>4 DEF Branch

(* The alternative: the branch before it ends, with a jump around this one. *)
LEMMA AlternativeIs ==
  ASSUME NEW c \in Compilers, ~Failed(c), NEW stmts \in Seq(Stmts), NEW p,
         JumpAt(c, p, "JUMP_NOT_TRUTHY")
  PROVE  LET d == CompileAlternative(c, stmts, p) IN
         \/ Stops(d)
         \/ \E e, f, g \in Compilers :
              /\ Branch(c, e)
              /\ Emits(e, f, "JUMP", Unpatched, 0)
              /\ Patches(f, g, p)
              /\ Asks(g, d, Append(Statements(stmts), END_IF(Len(Emitted(e)))))
<1> DEFINE e == EndBranch(c)
           f == Emit(e, "JUMP", Unpatched, 0)
           g == PatchJump(f, p)
           tasks == Append(Statements(stmts), END_IF(Len(Emitted(e))))
<1>1. CompileAlternative(c, stmts, p) = Then(g, tasks)
  BY DEF CompileAlternative, END_IF
<1>2. CASE Stops(e)
  <2>1. f = e
    BY <1>2 DEF Emit, Stops
  <2>2. g = f
    BY <1>2, <2>1 DEF PatchJump, Stops
  <2>3. Then(g, tasks) = g
    BY <1>2, <2>1, <2>2 DEF Then, Stops
  <2> QED
    BY <1>1, <1>2, <2>1, <2>2, <2>3
<1>3. CASE ~Stops(e)
  <2>1. Branch(c, e) /\ e \in Compilers /\ ~Failed(e)
    BY <1>3, BranchIs
  <2>2. JumpAt(e, p, "JUMP_NOT_TRUTHY")
    BY <2>1, JumpStays DEF JumpOps
  <2>3. "JUMP" \in OpCodes /\ Unpatched \in Nat /\ 0 \in Nat
    BY DEF OpCodes, JumpOps, Unpatched
  <2>4. tasks \in Seq(Tasks)
    <3>1. Len(Emitted(e)) \in Nat
      BY <2>1, CurrentScope
    <3>2. END_IF(Len(Emitted(e))) \in Tasks
      BY <3>1, TasksAre DEF END_IF
    <3> QED
      BY <3>2, StatementTasks, AppendProperties
  <2> HIDE DEF e
  <2>5. Stops(f) \/ Emits(e, f, "JUMP", Unpatched, 0)
    BY <2>1, <2>3, EmitEmits
  <2>6. CASE Stops(f)
    <3>1. g = f
      BY <2>6 DEF PatchJump, Stops
    <3>2. Then(g, tasks) = g
      BY <2>6, <3>1 DEF Then, Stops
    <3> QED
      BY <1>1, <2>6, <3>1, <3>2
  <2>7. CASE Emits(e, f, "JUMP", Unpatched, 0)
    <3>1. f \in Compilers /\ ~Failed(f) /\ Len(Emitted(f)) = Len(Emitted(e)) + 1
      <4>1. Emitted(e) \in Seq(Instructions)
        BY <2>1, CurrentScope
      <4>2. Instr("JUMP", Unpatched, 0) \in Instructions
        BY <2>3 DEF Instr, Instructions
      <4> HIDE DEF f
      <4> QED
        BY <2>7, <4>1, <4>2, AppendProperties DEF Emits
    <3> HIDE DEF f
    <3>2. p \in Nat /\ p < Len(Emitted(f))
      <4>1. Len(Emitted(e)) \in Nat
        BY <2>1, CurrentScope
      <4> QED
        BY <2>2, <3>1, <4>1 DEF JumpAt
    <3>3. Patches(f, g, p)
      BY <3>1, <3>2, PatchPatches
    <3>4. g \in Compilers /\ ~Failed(g)
      BY <3>3 DEF Patches
    <3> HIDE DEF g, tasks
    <3>5. Asks(g, Then(g, tasks), tasks)
      BY <2>4, <3>4, ThenAsks
    <3> QED
      BY <1>1, <2>1, <2>7, <3>1, <3>3, <3>4, <3>5 DEF tasks
  <2> QED
    BY <2>5, <2>6, <2>7
<1> QED
  BY <1>2, <1>3

(* The end of an if: the second branch ends, the jump around it goes here. *)
LEMMA EndIfIs ==
  ASSUME NEW c \in Compilers, ~Failed(c), NEW p, JumpAt(c, p, "JUMP")
  PROVE  LET d == EndIf(c, p) IN
         \/ Stops(d)
         \/ \E e \in Compilers : Branch(c, e) /\ Patches(e, d, p)
<1> DEFINE e == EndBranch(c)
<1>1. EndIf(c, p) = PatchJump(e, p)
  BY DEF EndIf
<1>2. CASE Stops(e)
  BY <1>1, <1>2 DEF PatchJump, Stops
<1>3. CASE ~Stops(e)
  <2>1. Branch(c, e) /\ e \in Compilers /\ ~Failed(e)
    BY <1>3, BranchIs
  <2>2. JumpAt(e, p, "JUMP")
    BY <2>1, JumpStays DEF JumpOps
  <2> HIDE DEF e
  <2>3. Patches(e, PatchJump(e, p), p)
    BY <2>1, <2>2, PatchPatches DEF JumpAt
  <2> QED
    BY <1>1, <2>1, <2>3
<1> QED
  BY <1>2, <1>3

-----------------------------------------------------------------------------
(* Functions *)

CLOSURE(function, free_count) ==
  [do |-> "CLOSURE", function |-> function, free_count |-> free_count]
LOAD(symbol) == [do |-> "LOAD", symbol |-> symbol]
Loads(symbols) == [k \in DOMAIN symbols |-> LOAD(symbols[k])]

(* e is c at the end of a body. *)
Body(c, e) ==
  \/ /\ LastIs(c, "POP")
     /\ e \in Compilers
     /\ ~Failed(e)
     /\ SameBelow(c, e)
     /\ SameNames(c, e)
     /\ SameBytecode(c, e)
     /\ Todo(e) = Todo(c)
     /\ Emitted(c) # << >>
     /\ Len(Emitted(e)) = Len(Emitted(c))
     /\ \A k \in 1 .. Len(Emitted(c)) - 1 : Emitted(e)[k] = Emitted(c)[k]
     /\ Emitted(e)[Len(Emitted(c))] =
          [Emitted(c)[Len(Emitted(c))] EXCEPT !.op = "RETURN_VALUE"]
     /\ e.instruction_count = c.instruction_count
  \/ (LastIs(c, "RETURN_VALUE") \/ LastIs(c, "RETURN")) /\ e = c
  \/ /\ ~LastIs(c, "POP") /\ ~LastIs(c, "RETURN_VALUE") /\ ~LastIs(c, "RETURN")
     /\ Emits(c, e, "RETURN", 0, 0)

(* The end of a body. *)
LEMMA BodyIs ==
  ASSUME NEW c \in Compilers, ~Failed(c)
  PROVE  \/ Stops(EndBody(c))
         \/ /\ Body(c, EndBody(c))
            /\ EndBody(c) \in Compilers
            /\ ~Failed(EndBody(c))
<1>1. CASE LastIs(c, "POP")
  <2> DEFINE e == ReplaceLast(c, "RETURN_VALUE")
  <2>1. Emitted(c) # << >> /\ "RETURN_VALUE" \in OpCodes
    BY <1>1 DEF LastIs, OpCodes, ReturnOps
  <2>2. /\ e \in Compilers
        /\ ~Failed(e)
        /\ SameBelow(c, e)
        /\ SameNames(c, e)
        /\ SameBytecode(c, e)
        /\ Todo(e) = Todo(c)
        /\ Len(Emitted(e)) = Len(Emitted(c))
        /\ \A k \in 1 .. Len(Emitted(c)) - 1 : Emitted(e)[k] = Emitted(c)[k]
        /\ Emitted(e)[Len(Emitted(c))] =
             [Emitted(c)[Len(Emitted(c))] EXCEPT !.op = "RETURN_VALUE"]
        /\ e.instruction_count = c.instruction_count
    BY <2>1, ReplaceLastIs
  <2>3. LastIs(e, "RETURN_VALUE")
    <3>1. /\ Emitted(c) \in Seq(Instructions)
          /\ Emitted(e) \in Seq(Instructions)
      BY <2>2, CurrentScope
    <3>2. Emitted(e) # << >>
      BY <2>1, <2>2, <3>1
    <3>3. Last(Emitted(e)) = Emitted(e)[Len(Emitted(c))]
      BY <2>2, <3>1, <3>2, FrontIs, ZenonT(30)
    <3>4. Emitted(c)[Len(Emitted(c))] \in Instructions
      BY <2>1, <3>1
    <3> HIDE DEF e
    <3>5. Last(Emitted(e)).op = "RETURN_VALUE"
      BY <2>2, <3>3, <3>4 DEF Instructions
    <3> QED
      BY <3>2, <3>5 DEF LastIs
  <2>4. EndBody(c) = e
    BY <1>1, <2>3 DEF EndBody
  <2> HIDE DEF e
  <2> QED
    BY <1>1, <2>1, <2>2, <2>4 DEF Body
<1>2. CASE LastIs(c, "RETURN_VALUE") \/ LastIs(c, "RETURN")
  <2>1. ~LastIs(c, "POP")
    BY <1>2 DEF LastIs
  <2>2. EndBody(c) = c
    BY <1>2, <2>1 DEF EndBody
  <2> QED
    BY <1>2, <2>2 DEF Body
<1>3. CASE ~LastIs(c, "POP") /\ ~LastIs(c, "RETURN_VALUE") /\ ~LastIs(c, "RETURN")
  <2>1. EndBody(c) = Emit(c, "RETURN", 0, 0)
    BY <1>3 DEF EndBody
  <2>2. "RETURN" \in OpCodes /\ 0 \in Nat
    BY DEF OpCodes, ReturnOps
  <2>3. Stops(EndBody(c)) \/ Emits(c, EndBody(c), "RETURN", 0, 0)
    BY <2>1, <2>2, EmitEmits
  <2> QED
    BY <1>3, <2>3 DEF Body, Emits
<1> QED
  BY <1>1, <1>2, <1>3

(* A compiled body does nothing to the scopes around it. *)
LEMMA BodyKeeps ==
  ASSUME NEW c \in Compilers, ~Failed(c), NEW e, Body(c, e)
  PROVE  /\ SameBelow(c, e)
         /\ SameNames(c, e)
         /\ SameBytecode(c, e)
         /\ Todo(e) = Todo(c)
<1>1. SameBelow(c, c) /\ SameNames(c, c) /\ SameBytecode(c, c)
  BY DEF SameBelow, SameNames, SameBytecode
<1> QED
  BY <1>1 DEF Body, Emits

(* The function made of the code of a scope. *)
FunctionOf(e, parameter_count) ==
  [instructions |-> Emitted(e), local_count |-> Scope(e).definition_count,
   parameter_count |-> parameter_count]

(* Loading what a function captures becomes tasks. *)
LEMMA LoadTasks ==
  ASSUME NEW symbols \in Seq(Symbols)
  PROVE  /\ Loads(symbols) \in Seq(Tasks)
         /\ Len(Loads(symbols)) = Len(symbols)
         /\ \A k \in 1 .. Len(symbols) : /\ Loads(symbols)[k] = LOAD(symbols[k])
                                         /\ Loads(symbols)[k].do = "LOAD"
<1> DEFINE task(k) == LOAD(symbols[k])
<1>1. \A k \in 1 .. Len(symbols) : task(k) \in Tasks
  BY TasksAre DEF LOAD
<1>2. Len(symbols) \in Nat /\ DOMAIN symbols = 1 .. Len(symbols)
  OBVIOUS
<1>3. Loads(symbols) = [k \in 1 .. Len(symbols) |-> task(k)]
  BY <1>2 DEF Loads
<1>4. \A k \in 1 .. Len(symbols) : task(k).do = "LOAD"
  BY DEF LOAD
<1> HIDE DEF task
<1>5. [k \in 1 .. Len(symbols) |-> task(k)] \in Seq(Tasks)
  BY <1>1, <1>2, IsASeq
<1>6. Len([k \in 1 .. Len(symbols) |-> task(k)]) = Len(symbols)
  BY <1>2
<1> QED
  BY <1>3, <1>4, <1>5, <1>6 DEF task

(* d is where e, at the end of a function's body, goes on: in the scope around
   it, with what the function captured to load and the closure to make. *)
Closes(e, d) ==
  LET l == Level(e) - 1
      around == e.scopes[l]
      count == Len(Scope(e).free_symbols)
      function == FunctionOf(e, around.todo[1].parameter_count)
  IN /\ d \in Compilers
     /\ ~Failed(d)
     /\ Level(d) = l
     /\ \A k \in 1 .. l - 1 : d.scopes[k] = e.scopes[k]
     /\ Scope(d).instructions = around.instructions
     /\ Scope(d).entries = around.entries
     /\ Scope(d).free_symbols = around.free_symbols
     /\ Scope(d).definition_count = around.definition_count
     /\ function \in CompiledFunctions
     /\ Append(Loads(Scope(e).free_symbols), CLOSURE(function, count)) \in Seq(Tasks)
     /\ Todo(d) = Append(Loads(Scope(e).free_symbols), CLOSURE(function, count))
                    \o Tail(around.todo)
     /\ SameBytecode(e, d)
     /\ d.instruction_count = e.instruction_count

(* The end of a function. *)
LEMMA EndFunctionIs ==
  ASSUME NEW c \in Compilers, ~Failed(c), Level(c) > 1,
         c.scopes[Level(c) - 1].todo # << >>,
         c.scopes[Level(c) - 1].todo[1].do = "FUNCTION"
  PROVE  LET d == EndFunction(c) IN
         \/ Stops(d)
         \/ \E e \in Compilers : Body(c, e) /\ Closes(e, d)
<1> DEFINE e == EndBody(c)
           outer == LeaveScope(e)
           scope == Scope(e)
           function == [instructions |-> scope.instructions,
                        local_count |-> scope.definition_count,
                        parameter_count |-> Task(outer).parameter_count]
           tasks == Append(Loads(scope.free_symbols),
                           CLOSURE(function, Len(scope.free_symbols)))
<1>1. EndFunction(c) = IF Failed(outer) THEN outer ELSE Then(Begun(outer), tasks)
  BY DEF EndFunction, CLOSURE, Loads, LOAD
<1>2. CASE Stops(e)
  <2>1. outer = e
    BY <1>2 DEF LeaveScope, Stops
  <2> QED
    BY <1>1, <1>2, <2>1 DEF Stops
<1>3. CASE ~Stops(e)
  <2> DEFINE l == Level(c) - 1
  <2>1. /\ Body(c, e)
        /\ e \in Compilers
        /\ ~Failed(e)
    BY <1>3, BodyIs
  <2>2. /\ Level(c) \in Nat
        /\ Level(e) = Level(c)
        /\ l \in 1 .. Level(c) - 1
        /\ \A k \in 1 .. l : e.scopes[k] = c.scopes[k]
    BY <2>1, BodyKeeps, CurrentScope DEF SameBelow
  <2> HIDE DEF e
  <2>3. /\ outer \in Compilers
        /\ ~Failed(outer)
        /\ Level(outer) = l
        /\ \A k \in 1 .. l : outer.scopes[k] = e.scopes[k]
        /\ SameBytecode(e, outer)
        /\ outer.instruction_count = e.instruction_count
    BY <2>1, <2>2, LeaveScopeIs
  <2> HIDE DEF outer
  <2>4. /\ Scope(outer) = e.scopes[l]
        /\ Scope(outer) = c.scopes[l]
    BY <2>2, <2>3 DEF Scope
  <2>5. /\ Todo(outer) = e.scopes[l].todo
        /\ Todo(outer) \in Seq(Tasks)
        /\ Todo(outer) # << >>
        /\ Todo(outer)[1].do = "FUNCTION"
        /\ Head(Todo(outer)) = Todo(outer)[1]
    BY <2>3, <2>4, CurrentScope DEF Todo
  <2> DEFINE b == Begun(outer)
  <2>6. /\ b \in Compilers
        /\ ~Failed(b)
        /\ SameBelow(outer, b)
        /\ SameNames(outer, b)
        /\ SameCode(outer, b)
        /\ SameBytecode(outer, b)
        /\ Todo(b) = Tail(Todo(outer))
        /\ Task(outer) = Todo(outer)[1]
        /\ Task(outer) \in Tasks
    BY <2>3, <2>5, BegunIs
  <2>7. Task(outer).parameter_count \in Nat
    BY <2>5, <2>6, TaskKinds
  <2>8. /\ function \in CompiledFunctions
        /\ function = FunctionOf(e, e.scopes[l].todo[1].parameter_count)
    <3>1. scope \in CompilerScopes
      BY <2>1, CurrentScope
    <3>2. Task(outer) = e.scopes[l].todo[1]
      BY <2>5, <2>6
    <3> QED
      BY <2>7, <3>1, <3>2 DEF CompiledFunctions, CompilerScopes, FunctionOf, Emitted
  <2>9. tasks \in Seq(Tasks)
    <3>1. scope.free_symbols \in Seq(Symbols)
      BY <2>1, CurrentScope DEF CompilerScopes
    <3>2. function \in CompiledFunctions /\ Len(scope.free_symbols) \in Nat
      BY <2>8, <3>1
    <3> HIDE DEF function
    <3>3. CLOSURE(function, Len(scope.free_symbols)) \in Tasks
      BY <3>2, TasksAre, Zenon DEF CLOSURE
    <3> QED
      BY <3>1, <3>3, LoadTasks, AppendProperties
  <2> HIDE DEF b, tasks, function
  <2>10. Asks(b, Then(b, tasks), tasks)
    BY <2>6, <2>9, ThenAsks
  <2> DEFINE d == Then(b, tasks)
  <2>11. EndFunction(c) = d
    BY <1>1, <2>3 DEF b
  <2> HIDE DEF d
  <2>12. /\ d \in Compilers
         /\ ~Failed(d)
         /\ Level(d) = l
         /\ \A k \in 1 .. l - 1 : d.scopes[k] = e.scopes[k]
    <3>1. \A k \in 1 .. l - 1 : k \in 1 .. l
      BY <2>2
    <3> QED
      BY <2>3, <2>6, <2>10, <3>1 DEF Asks, SameBelow, d
  <2>13. /\ Scope(d).instructions = e.scopes[l].instructions
         /\ Scope(d).entries = e.scopes[l].entries
         /\ Scope(d).free_symbols = e.scopes[l].free_symbols
         /\ Scope(d).definition_count = e.scopes[l].definition_count
         /\ SameBytecode(e, d)
         /\ d.instruction_count = e.instruction_count
    BY <2>3, <2>4, <2>6, <2>10
       DEF Asks, SameNames, SameCode, SameBytecode, Emitted, d
  <2>14. Todo(d) = tasks \o Tail(e.scopes[l].todo)
    BY <2>5, <2>6, <2>10 DEF Asks, d
  <2>15. l = Level(e) - 1
    BY <2>2
  <2> HIDE DEF l
  <2>16. tasks = Append(Loads(Scope(e).free_symbols),
                        CLOSURE(FunctionOf(e, e.scopes[l].todo[1].parameter_count),
                                Len(Scope(e).free_symbols)))
    BY <2>8 DEF tasks
  <2>17. Closes(e, d)
    BY <2>8, <2>9, <2>12, <2>13, <2>14, <2>15, <2>16 DEF Closes
  <2> QED
    BY <2>1, <2>11, <2>17
<1> QED
  BY <1>2, <1>3

(* e is c with another compiled function and its constant. *)
AddsFunction(c, e, function) ==
  /\ e \in Compilers
  /\ ~Failed(e)
  /\ e.scopes = c.scopes
  /\ e.functions = Append(c.functions, function)
  /\ e.constants = Append(c.constants, [type |-> "COMPILED_FUNCTION",
                                        data |-> Len(c.functions) + 1])
  /\ e.instruction_count = c.instruction_count

(* The closure: the function becomes a constant. *)
LEMMA ClosureIs ==
  ASSUME NEW c \in Compilers, ~Failed(c), NEW function \in CompiledFunctions,
         NEW free_count \in Nat
  PROVE  LET d == MakeClosure(c, function, free_count) IN
         \/ Stops(d)
         \/ \E e \in Compilers :
              /\ AddsFunction(c, e, function)
              /\ Emits(e, d, "CLOSURE", Len(c.constants), free_count)
<1> DEFINE b == [c EXCEPT !.functions = Append(@, function)]
           value == [type |-> "COMPILED_FUNCTION", data |-> Len(c.functions) + 1]
           e == AddConstant(b, value)
<1>1. MakeClosure(c, function, free_count) = Emit(e, "CLOSURE", Len(c.constants), free_count)
  BY DEF MakeClosure
<1>2. /\ c.functions \in Seq(CompiledFunctions)
      /\ c.constants \in Seq(Values)
      /\ Append(c.functions, function) \in Seq(CompiledFunctions)
      /\ Len(c.functions) \in Nat
      /\ Len(c.constants) \in Nat
  BY AppendProperties DEF Compilers
<1>3. /\ b \in Compilers
      /\ ~Failed(b)
      /\ b.scopes = c.scopes
      /\ b.functions = Append(c.functions, function)
      /\ b.constants = c.constants
      /\ b.instruction_count = c.instruction_count
  BY <1>2 DEF Compilers, Failed
<1>4. value \in Values
  BY <1>2 DEF Values, ValueTypes
<1> HIDE DEF b, value
<1>5. \/ Stopped(b, e) /\ Failed(e)
      \/ /\ e \in Compilers
         /\ ~Failed(e)
         /\ e.scopes = b.scopes
         /\ e.functions = b.functions
         /\ e.constants = Append(b.constants, value)
         /\ e.instruction_count = b.instruction_count
  BY <1>3, <1>4, AddConstantIs
<1>6. CASE Stopped(b, e) /\ Failed(e)
  <2>1. Stops(e)
    BY <1>6, StoppedStops
  <2>2. Emit(e, "CLOSURE", Len(c.constants), free_count) = e
    BY <2>1 DEF Emit, Stops
  <2> QED
    BY <1>1, <2>1, <2>2
<1>7. CASE ~(Stopped(b, e) /\ Failed(e))
  <2>1. AddsFunction(c, e, function)
    BY <1>3, <1>5, <1>7 DEF AddsFunction, value
  <2>2. "CLOSURE" \in OpCodes
    BY DEF OpCodes
  <2>3. e \in Compilers /\ ~Failed(e)
    BY <2>1 DEF AddsFunction
  <2> HIDE DEF e
  <2> QED
    BY <1>1, <1>2, <2>1, <2>2, <2>3, EmitEmits
<1> QED
  BY <1>6, <1>7

(* The arguments of a call, and the call. *)
LEMMA ArgumentsAre ==
  ASSUME NEW c \in Compilers, ~Failed(c), NEW exprs \in Seq(Exprs)
  PROVE  LET d == CompileArguments(c, exprs) IN
         \/ Stops(d)
         \/ Asks(c, d, Append(Expressions(exprs), Emission("CALL", Len(exprs))))
<1> DEFINE tasks == Append(Expressions(exprs), Emission("CALL", Len(exprs)))
<1>1. CASE Len(exprs) > MaxFunctionParameters
  <2>1. CompileArguments(c, exprs) = Fail(c, "argument capacity")
    BY <1>1 DEF CompileArguments
  <2>2. "argument capacity" \in CompilerFaults
    BY DEF CompilerFaults, CompilerCapacityFaults
  <2> QED
    BY <2>1, <2>2, FailIs, StoppedStops
<1>2. CASE ~(Len(exprs) > MaxFunctionParameters)
  <2>1. CompileArguments(c, exprs) = Then(c, tasks)
    BY <1>2 DEF CompileArguments, Emission
  <2>2. Emission("CALL", Len(exprs)) \in Tasks
    BY TasksAre DEF OpCodes
  <2>3. tasks \in Seq(Tasks)
    BY <2>2, ExpressionTasks, AppendProperties
  <2> QED
    BY <2>1, <2>3, ThenAsks
<1> QED
  BY <1>1, <1>2

-----------------------------------------------------------------------------
(* Names *)

CAPTURE(name, level, symbol) ==
  [do |-> "CAPTURE", name |-> name, level |-> level, symbol |-> symbol]

(* e is c where the function at level l has captured a symbol. *)
Captures(c, e, l, name, original) ==
  LET old == c.scopes[l]
      new == e.scopes[l]
  IN /\ e \in Compilers
     /\ ~Failed(e)
     /\ Level(e) = Level(c)
     /\ \A k \in 1 .. Level(c) : k # l => e.scopes[k] = c.scopes[k]
     /\ SameCode(c, e)
     /\ SameBytecode(c, e)
     /\ Todo(e) = Todo(c)
     /\ new.instructions = old.instructions
     /\ new.todo = old.todo
     /\ new.definition_count = old.definition_count
     /\ new.free_symbols = Append(old.free_symbols, original)
     /\ new.entries = Put(old.entries, name, FreeSymbol(c, l))

(* What a name was found to be at a level is loaded, or captured from there on. *)
Resolves(c, d, name, l, symbol) ==
  \/ /\ l = Level(c) \/ symbol.scope = "GLOBAL"
     /\ Emits(c, d, LoadOp(symbol), symbol.index, 0)
  \/ /\ l < Level(c) /\ symbol.scope # "GLOBAL"
     /\ Asks(c, d, <<CAPTURE(name, l + 1, symbol)>>)

(* Resolved does one of the two, or fails. *)
LEMMA ResolvedIs ==
  ASSUME NEW c \in Compilers, ~Failed(c), NEW name \in STRING, NEW symbol \in Symbols,
         NEW l \in 1 .. Level(c)
  PROVE  LET d == Resolved(c, name, l, symbol) IN
         Stops(d) \/ Resolves(c, d, name, l, symbol)
<1> DEFINE d == Resolved(c, name, l, symbol)
<1>1. CASE l = Level(c) \/ symbol.scope = "GLOBAL"
  <2>1. d = LoadSymbol(c, symbol)
    BY <1>1 DEF Resolved
  <2> QED
    BY <1>1, <2>1, SymbolMoved DEF Resolves
<1>2. CASE ~(l = Level(c) \/ symbol.scope = "GLOBAL")
  <2>1. d = Then(c, <<CAPTURE(name, l + 1, symbol)>>)
    BY <1>2 DEF Resolved, CAPTURE
  <2>2. l + 1 \in Nat /\ l < Level(c)
    BY <1>2, CurrentScope
  <2>3. CAPTURE(name, l + 1, symbol) \in Tasks
    BY <2>2, TasksAre, Zenon DEF CAPTURE
  <2>4. <<CAPTURE(name, l + 1, symbol)>> \in Seq(Tasks)
    BY <2>3, FewTasks
  <2>5. Asks(c, d, <<CAPTURE(name, l + 1, symbol)>>)
    BY <2>1, <2>4, ThenAsks
  <2> QED
    BY <1>2, <2>2, <2>5 DEF Resolves
<1> QED
  BY <1>1, <1>2

(* The function at a level captures what the level around it knows. *)
LEMMA CaptureIs ==
  ASSUME NEW c \in Compilers, ~Failed(c), NEW name \in STRING, NEW symbol \in Symbols,
         NEW l \in 1 .. Level(c)
  PROVE  LET d == Capture(c, name, l, symbol) IN
         \/ Stops(d)
         \/ \E e \in Compilers : /\ Captures(c, e, l, name, symbol)
                                 /\ Resolves(e, d, name, l, FreeSymbol(c, l))
<1> DEFINE e == DefineFree(c, l, name, symbol)
<1>1. Capture(c, name, l, symbol) = Resolved(e, name, l, FreeSymbol(c, l))
  BY DEF Capture
<1>2. FreeSymbol(c, l) \in Symbols /\ FreeSymbol(c, l).scope = "FREE"
  <2>1. c.scopes[l].free_symbols \in Seq(Symbols)
    BY OpenScope
  <2> QED
    BY <2>1 DEF FreeSymbol, Symbols
<1>3. (Stopped(c, e) /\ Failed(e)) \/ Captures(c, e, l, name, symbol)
  BY DefineFreeIs DEF Captures
<1> HIDE DEF e
<1>4. CASE Stopped(c, e) /\ Failed(e)
  <2>1. Stops(e)
    BY <1>4, StoppedStops
  <2>2. Resolved(e, name, l, FreeSymbol(c, l)) = e
    BY <2>1 DEF Resolved, LoadSymbol, Emit, Then, Stops
  <2> QED
    BY <1>1, <2>1, <2>2
<1>5. CASE Captures(c, e, l, name, symbol)
  <2>1. e \in Compilers /\ ~Failed(e) /\ l \in 1 .. Level(e)
    BY <1>5 DEF Captures
  <2> QED
    BY <1>1, <1>2, <1>5, <2>1, ResolvedIs
<1> QED
  BY <1>3, <1>4, <1>5

(* A set of natural numbers has a least element. *)
LEMMA LeastOf ==
  ASSUME NEW T \in SUBSET Nat, T # {}
  PROVE  \E n \in T : \A m \in T : n <= m
<1>1. PICK n \in T : \A m \in T : ~ (<<m, n>> \in OpToRel(<, Nat))
  BY WFMin, NatLessThanWellFounded, Zenon
<1>2. \A m \in T : ~ (m < n)
  BY <1>1 DEF OpToRel
<1> QED
  BY <1>2

(* The innermost of some levels. *)
LEMMA Innermost ==
  ASSUME NEW n \in Nat, NEW T \in SUBSET (1 .. n), T # {}
  PROVE  Max(T) \in T /\ \A m \in T : Max(T) >= m
<1> DEFINE D == {n - x : x \in T}
<1>1. D \in SUBSET Nat /\ D # {}
  <2>1. \A x \in T : x \in 1 .. n /\ n - x \in Nat
    OBVIOUS
  <2> QED
    BY <2>1
<1>2. PICK d \in D : \A e \in D : d <= e
  BY <1>1, LeastOf, Zenon
<1>3. PICK l \in T : d = n - l
  OBVIOUS
<1>4. ASSUME NEW m \in T PROVE l >= m
  <2>1. n - m \in D
    OBVIOUS
  <2> HIDE DEF D
  <2>2. d <= n - m
    BY <1>2, <2>1
  <2> QED
    BY <1>3, <2>2
<1>5. \E x \in T : \A m \in T : x >= m
  BY <1>3, <1>4
<1> QED
  BY <1>5 DEF Max

(* A name is what the innermost scope around it says. *)
LEMMA IdentIs ==
  ASSUME NEW c \in Compilers, ~Failed(c), NEW name \in STRING
  PROVE  LET d == CompileIdent(c, name) IN
         \/ Stops(d)
         \/ \E l \in 1 .. Level(c) :
              /\ name \in DOMAIN c.scopes[l].entries
              /\ \A k \in l + 1 .. Level(c) : name \notin DOMAIN c.scopes[k].entries
              /\ c.scopes[l].entries[name] \in Symbols
              /\ Resolves(c, d, name, l, c.scopes[l].entries[name])
<1> DEFINE levels == {l \in 1 .. Level(c) : name \in DOMAIN c.scopes[l].entries}
<1>1. CASE levels = {}
  <2>1. CompileIdent(c, name) = Fail(c, "identifier not found")
    BY <1>1 DEF CompileIdent
  <2>2. "identifier not found" \in CompilerFaults
    BY DEF CompilerFaults
  <2> QED
    BY <2>1, <2>2, FailIs, StoppedStops
<1>2. CASE levels # {}
  <2> DEFINE l == Max(levels)
  <2>1. CompileIdent(c, name) = Resolved(c, name, l, c.scopes[l].entries[name])
    BY <1>2 DEF CompileIdent
  <2>2. l \in levels /\ \A k \in levels : l >= k
    <3>1. levels \in SUBSET (1 .. Level(c)) /\ Level(c) \in Nat
      BY CurrentScope
    <3> HIDE DEF levels
    <3> QED
      BY <1>2, <3>1, Innermost
  <2> HIDE DEF l
  <2>3. l \in 1 .. Level(c) /\ name \in DOMAIN c.scopes[l].entries
    BY <2>2
  <2>4. \A k \in l + 1 .. Level(c) : name \notin DOMAIN c.scopes[k].entries
    BY <2>2, <2>3, CurrentScope
  <2>5. c.scopes[l].entries[name] \in Symbols
    BY <2>3, OpenScope, TableIs
  <2>6. \/ Stops(CompileIdent(c, name))
        \/ Resolves(c, CompileIdent(c, name), name, l, c.scopes[l].entries[name])
    BY <2>1, <2>3, <2>5, ResolvedIs
  <2> QED
    BY <2>3, <2>4, <2>5, <2>6
<1> QED
  BY <1>1, <1>2

-----------------------------------------------------------------------------
(* Expressions *)

LEAVE == [do |-> "LEAVE"]
FUNCTION(count) == [do |-> "FUNCTION", parameter_count |-> count]
CONSEQUENCE(yes, no) ==
  [do |-> "CONSEQUENCE", consequence |-> yes, alternative |-> no]
ARGUMENTS(exprs) == [do |-> "ARGUMENTS", exprs |-> exprs]

(* e is c with another constant. *)
Adds(c, e, value) ==
  /\ e \in Compilers
  /\ ~Failed(e)
  /\ e.scopes = c.scopes
  /\ e.functions = c.functions
  /\ e.constants = Append(c.constants, value)
  /\ e.instruction_count = c.instruction_count

Definitions(names) == [k \in DOMAIN names |-> [do |-> "DEFINE", name |-> names[k]]]

(* d is e with the scope of a function opened, whose parameters are to be defined
   and whose body is to be compiled. *)
Opens(e, d, expr, function_name) ==
  /\ d \in Compilers
  /\ ~Failed(d)
  /\ Level(d) = Level(e) + 1
  /\ \A k \in 1 .. Level(e) : d.scopes[k] = e.scopes[k]
  /\ SameBytecode(e, d)
  /\ d.instruction_count = e.instruction_count
  /\ Emitted(d) = << >>
  /\ Scope(d).free_symbols = << >>
  /\ Scope(d).definition_count = 0
  /\ \/ Scope(d).entries = << >>
     \/ Scope(d).entries = Put(<< >>, function_name, [scope |-> "FUNCTION", index |-> 0])
  /\ Definitions(expr.parameters) \o Statements(expr.body) \in Seq(Tasks)
  /\ Todo(d) = Definitions(expr.parameters) \o Statements(expr.body)

(* Parameters become tasks in their order. *)
LEMMA DefinitionTasks ==
  ASSUME NEW names \in Seq(STRING)
  PROVE  /\ Definitions(names) \in Seq(Tasks)
         /\ Len(Definitions(names)) = Len(names)
         /\ \A k \in 1 .. Len(names) :
              /\ Definitions(names)[k] = [do |-> "DEFINE", name |-> names[k]]
              /\ Definitions(names)[k].do = "DEFINE"
<1> DEFINE task(k) == [do |-> "DEFINE", name |-> names[k]]
<1>1. \A k \in 1 .. Len(names) : task(k) \in Tasks
  <2>1. \A k \in 1 .. Len(names) : names[k] \in STRING
    BY ElementOfSeq
  <2> QED
    BY <2>1, TasksAre, Zenon
<1>2. Len(names) \in Nat /\ DOMAIN names = 1 .. Len(names)
  OBVIOUS
<1>3. Definitions(names) = [k \in 1 .. Len(names) |-> task(k)]
  BY <1>2 DEF Definitions
<1>4. \A k \in 1 .. Len(names) : task(k).do = "DEFINE"
  OBVIOUS
<1> HIDE DEF task
<1>5. [k \in 1 .. Len(names) |-> task(k)] \in Seq(Tasks)
  BY <1>1, <1>2, IsASeq
<1>6. Len([k \in 1 .. Len(names) |-> task(k)]) = Len(names)
  BY <1>2
<1> QED
  BY <1>3, <1>4, <1>5, <1>6 DEF task

(* A function literal: its scope is opened, the one around it waits. *)
LEMMA FunctionIs ==
  ASSUME NEW c \in Compilers, ~Failed(c), NEW expr \in Exprs, expr.type = "FUNCTION",
         NEW function_name \in STRING \union {NoName}
  PROVE  LET d == CompileFunction(c, expr, function_name) IN
         \/ Stops(d)
         \/ \E e \in Compilers :
              /\ Asks(c, e, <<FUNCTION(Len(expr.parameters))>>)
              /\ Opens(e, d, expr, function_name)
<1> DEFINE count == Len(expr.parameters)
           e == Then(c, <<FUNCTION(count)>>)
           entered == EnterScope(e)
           named == IF function_name = NoName THEN entered
                    ELSE DefineFunctionName(entered, function_name)
           tasks == Definitions(expr.parameters) \o Statements(expr.body)
<1>1. expr.parameters \in Seq(STRING) /\ expr.body \in Seq(Stmts) /\ count \in Nat
  BY SyntaxAssumption DEF SyntaxAssumption, IsExpr
<1>2. Asks(c, e, <<FUNCTION(count)>>)
  <2>1. FUNCTION(count) \in Tasks
    BY <1>1, TasksAre DEF FUNCTION
  <2>2. <<FUNCTION(count)>> \in Seq(Tasks)
    BY <2>1, FewTasks
  <2> QED
    BY <2>2, ThenAsks
<1>3. tasks \in Seq(Tasks)
  BY <1>1, DefinitionTasks, StatementTasks, ConcatProperties
<1>4. CompileFunction(c, expr, function_name) =
        IF count > MaxFunctionParameters THEN Fail(named, "parameter capacity")
        ELSE Then(named, tasks)
  <2>1. DOMAIN expr.parameters = 1 .. count
    BY <1>1
  <2> QED
    BY <2>1 DEF CompileFunction, Definitions, FUNCTION
<1>5. e \in Compilers /\ ~Failed(e)
  BY <1>2 DEF Asks
<1> HIDE DEF e
<1>6. \/ Stops(entered)
      \/ /\ entered \in Compilers
         /\ ~Failed(entered)
         /\ Level(entered) = Level(e) + 1
         /\ \A k \in 1 .. Level(e) : entered.scopes[k] = e.scopes[k]
         /\ Scope(entered) = EmptyScope
         /\ SameBytecode(e, entered)
         /\ entered.instruction_count = e.instruction_count
  BY <1>5, EnterScopeIs, StoppedStops
<1> HIDE DEF entered
<1>7. CASE Stops(entered)
  <2>1. named = entered
    BY <1>7 DEF DefineFunctionName, Stops
  <2>2. Fail(named, "parameter capacity") = named /\ Then(named, tasks) = named
    BY <1>7, <2>1 DEF Fail, Then, Stops
  <2> QED
    BY <1>4, <1>7, <2>1, <2>2
<1>8. CASE ~Stops(entered)
  <2> DEFINE Named ==
        /\ named \in Compilers
        /\ ~Failed(named)
        /\ SameBelow(entered, named)
        /\ SameCode(entered, named)
        /\ SameBytecode(entered, named)
        /\ Todo(named) = Todo(entered)
        /\ \/ Scope(named).entries = Scope(entered).entries
           \/ Scope(named).entries = Put(Scope(entered).entries, function_name,
                                         [scope |-> "FUNCTION", index |-> 0])
        /\ Scope(named).free_symbols = Scope(entered).free_symbols
        /\ Scope(named).definition_count = Scope(entered).definition_count
  <2>1. Stops(named) \/ Named
    <3>1. CASE function_name = NoName
      BY <1>6, <1>8, <3>1 DEF SameBelow, SameCode, SameBytecode
    <3>2. CASE function_name # NoName
      <4>1. function_name \in STRING /\ named = DefineFunctionName(entered, function_name)
        BY <3>2
      <4> HIDE DEF named
      <4> QED
        BY <1>6, <1>8, <4>1, DefineFunctionNameIs, StoppedStops
    <3> QED
      BY <3>1, <3>2
  <2> HIDE DEF named
  <2>2. CASE Stops(named)
    <3>1. Fail(named, "parameter capacity") = named /\ Then(named, tasks) = named
      BY <2>2 DEF Fail, Then, Stops
    <3> QED
      BY <1>4, <2>2, <3>1
  <2>3. CASE Named /\ count > MaxFunctionParameters
    <3>1. "parameter capacity" \in CompilerFaults
      BY DEF CompilerFaults, CompilerCapacityFaults
    <3>2. Stops(Fail(named, "parameter capacity"))
      BY <2>3, <3>1, FailIs, StoppedStops
    <3> QED
      BY <1>4, <2>3, <3>2
  <2>4. CASE Named /\ ~(count > MaxFunctionParameters)
    <3> DEFINE d == Then(named, tasks)
    <3>1. Asks(named, d, tasks)
      BY <1>3, <2>4, ThenAsks
    <3>2. /\ Scope(entered).entries = << >>
          /\ Scope(entered).free_symbols = << >>
          /\ Scope(entered).definition_count = 0
          /\ Emitted(entered) = << >>
          /\ Todo(entered) = << >>
      BY <1>6, <1>8 DEF EmptyScope, Emitted, Todo
    <3>3. tasks \o << >> = tasks
      BY <1>3, ConcatEmptySeq
    <3> HIDE DEF d, tasks
    <3>4. /\ d \in Compilers
          /\ ~Failed(d)
          /\ SameNames(named, d)
          /\ SameBytecode(e, d)
          /\ d.instruction_count = e.instruction_count
          /\ Todo(d) = tasks
          /\ Emitted(d) = << >>
      BY <1>6, <1>8, <2>4, <3>1, <3>2, <3>3 DEF Asks, SameBytecode, SameCode
    <3>5. Level(d) = Level(e) + 1 /\ \A k \in 1 .. Level(e) : d.scopes[k] = e.scopes[k]
      <4>1. Level(e) \in Nat
        BY <1>5, CurrentScope
      <4> QED
        BY <1>6, <1>8, <2>4, <3>1, <4>1 DEF Asks, SameBelow
    <3>6. Opens(e, d, expr, function_name)
      BY <1>3, <2>4, <3>2, <3>4, <3>5 DEF Opens, SameNames, tasks
    <3> QED
      BY <1>2, <1>4, <1>5, <2>4, <3>6 DEF d
  <2> QED
    BY <2>1, <2>2, <2>3, <2>4
<1> QED
  BY <1>7, <1>8

(* What an expression is made of. *)
LEMMA ExpressionParts ==
  ASSUME NEW expr \in Exprs
  PROVE  /\ expr.type \in {"IDENT", "INT", "BOOL", "PREFIX", "INFIX", "IF", "FUNCTION",
                           "CALL"}
         /\ expr.type = "IDENT" => expr.ident \in STRING
         /\ expr.type = "INT" => expr.integer \in 0 .. MaxInt
         /\ expr.type = "PREFIX" => /\ expr.op \in UnaryOps
                                    /\ expr.op \in OpCodes
                                    /\ expr.right \in Exprs
         /\ expr.type = "INFIX" => /\ InfixOp[expr.op] \in BinaryOps
                                   /\ InfixOp[expr.op] \in OpCodes
                                   /\ expr.left \in Exprs
                                   /\ expr.right \in Exprs
         /\ expr.type = "IF" => /\ expr.condition \in Exprs
                                /\ expr.consequence \in Seq(Stmts)
                                /\ expr.alternative \in Seq(Stmts)
         /\ expr.type = "FUNCTION" => /\ expr.parameters \in Seq(STRING)
                                      /\ expr.body \in Seq(Stmts)
         /\ expr.type = "CALL" => expr.function \in Exprs /\ expr.arguments \in Seq(Exprs)
<1>1. IsExpr(expr)
  BY SyntaxAssumption DEF SyntaxAssumption
<1>2. \A op \in DOMAIN InfixOp : InfixOp[op] \in BinaryOps
  BY DEF InfixOp, BinaryOps, ArithmeticOps, ComparisonOps
<1>3. BinaryOps \subseteq OpCodes /\ UnaryOps \subseteq OpCodes
  BY DEF OpCodes
<1> QED
  BY <1>1, <1>2, <1>3 DEF IsExpr, UnaryOps

(* The way out of an expression is asked for on the way in. *)
LEMMA ExpressionEntered ==
  ASSUME NEW c \in Compilers, ~Failed(c)
  PROVE  Asks(c, Then([c EXCEPT !.compile_depth = @ + 1], <<LEAVE>>), <<LEAVE>>)
<1> DEFINE b == [c EXCEPT !.compile_depth = @ + 1]
<1>1. /\ b \in Compilers
      /\ b.scopes = c.scopes
      /\ b.panic = c.panic
      /\ b.instruction_count = c.instruction_count
      /\ b.constants = c.constants
      /\ b.functions = c.functions
  <2>1. PICK depth \in Int : depth = c.compile_depth + 1
    BY DEF Compilers
  <2>2. b = [c EXCEPT !.compile_depth = depth]
    BY <2>1
  <2> QED
    BY <2>2 DEF Compilers
<1> HIDE DEF b
<1>2. ~Failed(b)
  BY <1>1 DEF Failed
<1>3. <<LEAVE>> \in Seq(Tasks)
  <2>1. LEAVE \in Tasks
    BY TasksAre, Zenon DEF LEAVE
  <2> QED
    BY <2>1, FewTasks
<1>4. Asks(b, Then(b, <<LEAVE>>), <<LEAVE>>)
  BY <1>1, <1>2, <1>3, ThenAsks
<1>5. Asks(c, Then(b, <<LEAVE>>), <<LEAVE>>)
  BY <1>1, <1>4, SameScopes
     DEF Asks, SameBelow, SameNames, SameCode, SameBytecode, Level, Scope, Todo, Emitted
<1> QED
  BY <1>5 DEF b

(* Short lists of tasks grow at their end. *)
LEMMA TaskLists ==
  /\ \A a, b \in Tasks : Append(<<a>>, b) = <<a, b>>
  /\ \A a, b \in Tasks : <<a>> \o <<b>> = <<a, b>>
  /\ \A a, b, f \in Tasks : <<a, b>> \o <<f>> = <<a, b, f>>
  /\ \A a, b, f, g \in Tasks : <<a, b, f>> \o <<g>> = <<a, b, f, g>>
<1>1. ASSUME NEW s \in Seq(Tasks), NEW e \in Tasks, NEW t \in Seq(Tasks),
             Len(t) = Len(s) + 1, \A k \in 1 .. Len(s) : t[k] = s[k],
             t[Len(s) + 1] = e
      PROVE  Append(s, e) = t /\ s \o <<e>> = t
  <2> DEFINE x == Append(s, e)
  <2>1. /\ x \in Seq(Tasks)
        /\ Len(x) = Len(s) + 1
        /\ \A k \in 1 .. Len(s) : x[k] = s[k]
        /\ x[Len(s) + 1] = e
    BY AppendProperties
  <2>2. x = s \o <<e>>
    BY AppendIsConcat
  <2> HIDE DEF x
  <2>3. \A k \in 1 .. Len(x) : x[k] = t[k]
    BY <1>1, <2>1
  <2>4. x = t
    BY <1>1, <2>1, <2>3, SeqEqual
  <2> QED
    BY <2>2, <2>4 DEF x
<1>2. ASSUME NEW a \in Tasks, NEW b \in Tasks
      PROVE  Append(<<a>>, b) = <<a, b>>
  <2> DEFINE s == <<a>>
             t == <<a, b>>
  <2>1. s \in Seq(Tasks) /\ t \in Seq(Tasks) /\ Len(t) = Len(s) + 1
    OBVIOUS
  <2>2. (\A k \in 1 .. Len(s) : t[k] = s[k]) /\ t[Len(s) + 1] = b
    OBVIOUS
  <2> HIDE DEF s, t
  <2>3. Append(s, b) = t /\ s \o <<b>> = t
    BY <1>1, <2>1, <2>2, Zenon
  <2> QED
    BY <2>3 DEF s, t
<1>3. ASSUME NEW a \in Tasks, NEW b \in Tasks
      PROVE  <<a>> \o <<b>> = <<a, b>>
  <2> DEFINE s == <<a>>
             t == <<a, b>>
  <2>1. s \in Seq(Tasks) /\ t \in Seq(Tasks) /\ Len(t) = Len(s) + 1
    OBVIOUS
  <2>2. (\A k \in 1 .. Len(s) : t[k] = s[k]) /\ t[Len(s) + 1] = b
    OBVIOUS
  <2> HIDE DEF s, t
  <2>3. Append(s, b) = t /\ s \o <<b>> = t
    BY <1>1, <2>1, <2>2, Zenon
  <2> QED
    BY <2>3 DEF s, t
<1>4. ASSUME NEW a \in Tasks, NEW b \in Tasks, NEW f \in Tasks
      PROVE  <<a, b>> \o <<f>> = <<a, b, f>>
  <2> DEFINE s == <<a, b>>
             t == <<a, b, f>>
  <2>1. s \in Seq(Tasks) /\ t \in Seq(Tasks) /\ Len(t) = Len(s) + 1
    OBVIOUS
  <2>2. (\A k \in 1 .. Len(s) : t[k] = s[k]) /\ t[Len(s) + 1] = f
    OBVIOUS
  <2> HIDE DEF s, t
  <2>3. Append(s, f) = t /\ s \o <<f>> = t
    BY <1>1, <2>1, <2>2, Zenon
  <2> QED
    BY <2>3 DEF s, t
<1>5. ASSUME NEW a \in Tasks, NEW b \in Tasks, NEW f \in Tasks, NEW g \in Tasks
      PROVE  <<a, b, f>> \o <<g>> = <<a, b, f, g>>
  <2> DEFINE s == <<a, b, f>>
             t == <<a, b, f, g>>
  <2>1. s \in Seq(Tasks) /\ t \in Seq(Tasks) /\ Len(t) = Len(s) + 1
    OBVIOUS
  <2>2. (\A k \in 1 .. Len(s) : t[k] = s[k]) /\ t[Len(s) + 1] = g
    OBVIOUS
  <2> HIDE DEF s, t
  <2>3. Append(s, g) = t /\ s \o <<g>> = t
    BY <1>1, <2>1, <2>2, Zenon
  <2> QED
    BY <2>3 DEF s, t
<1> QED
  BY <1>2, <1>3, <1>4, <1>5, Zenon

(* What each kind of expression emits and asks for. *)
Evaluates(c, d, expr, function_name) ==
  \/ /\ expr.type = "IDENT"
     /\ \E e \in Compilers : \E l \in 1 .. Level(e) :
          /\ Asks(c, e, <<LEAVE>>)
          /\ expr.ident \in DOMAIN e.scopes[l].entries
          /\ \A k \in l + 1 .. Level(e) : expr.ident \notin DOMAIN e.scopes[k].entries
          /\ e.scopes[l].entries[expr.ident] \in Symbols
          /\ Resolves(e, d, expr.ident, l, e.scopes[l].entries[expr.ident])
  \/ /\ expr.type = "INT"
     /\ \E e, f \in Compilers :
          /\ Asks(c, e, <<LEAVE>>)
          /\ Adds(e, f, IntegerValue(expr.integer))
          /\ Emits(f, d, "CONSTANT", Len(e.constants), 0)
  \/ /\ expr.type = "BOOL"
     /\ \E e \in Compilers :
          /\ Asks(c, e, <<LEAVE>>)
          /\ Emits(e, d, "TRUE", 0, 0) \/ Emits(e, d, "FALSE", 0, 0)
  \/ /\ expr.type = "PREFIX"
     /\ Asks(c, d, <<Evaluation(expr.right, NoName), Emission(expr.op, 0), LEAVE>>)
  \/ /\ expr.type = "INFIX"
     /\ Asks(c, d, <<Evaluation(expr.left, NoName), Evaluation(expr.right, NoName),
                     Emission(InfixOp[expr.op], 0), LEAVE>>)
  \/ /\ expr.type = "IF"
     /\ Asks(c, d, <<Evaluation(expr.condition, NoName),
                     CONSEQUENCE(expr.consequence, expr.alternative), LEAVE>>)
  \/ /\ expr.type = "FUNCTION"
     /\ \E e \in Compilers :
          /\ Asks(c, e, <<FUNCTION(Len(expr.parameters)), LEAVE>>)
          /\ Opens(e, d, expr, function_name)
  \/ /\ expr.type = "CALL"
     /\ Asks(c, d, <<Evaluation(expr.function, NoName), ARGUMENTS(expr.arguments),
                     LEAVE>>)

(* CompileExpression evaluates, or fails. *)
LEMMA ExpressionIs ==
  ASSUME NEW c \in Compilers, ~Failed(c), NEW expr \in Exprs,
         NEW function_name \in STRING \union {NoName}
  PROVE  LET d == CompileExpression(c, expr, function_name) IN
         Stops(d) \/ Evaluates(c, d, expr, function_name)
<1> DEFINE d == CompileExpression(c, expr, function_name)
           inner == Then([c EXCEPT !.compile_depth = @ + 1], <<LEAVE>>)
<1>1. CASE c.compile_depth >= MaxCompileDepth
  <2>1. d = Fail(c, "compiler depth")
    BY <1>1 DEF CompileExpression
  <2>2. "compiler depth" \in CompilerFaults
    BY DEF CompilerFaults, CompilerCapacityFaults
  <2> QED
    BY <2>1, <2>2, FailIs, StoppedStops
<1> USE DEF Emission
<1>2. CASE ~(c.compile_depth >= MaxCompileDepth)
  <2>1. Asks(c, inner, <<LEAVE>>)
    BY ExpressionEntered
  <2> DEFINE first(e) == Evaluation(e, NoName)
  <2>2. /\ NoName \in STRING \union {NoName}
        /\ 0 \in Nat
        /\ LEAVE \in Tasks
        /\ <<LEAVE>> \in Seq(Tasks)
    BY <2>1, TasksAre DEF LEAVE, Asks
  <2>3. \A e \in Exprs : first(e) \in Tasks
    BY <2>2, TasksAre
  <2>4. \A op \in OpCodes : Emission(op, 0) \in Tasks
    BY <2>2, TasksAre
  <2>5. inner = Then([c EXCEPT !.compile_depth = @ + 1], <<[do |-> "LEAVE"]>>)
    BY DEF LEAVE
  <2>6. d = CASE expr.type = "IDENT" -> CompileIdent(inner, expr.ident)
            [] expr.type = "INT" ->
                 Emit(AddConstant(inner, IntegerValue(expr.integer)), "CONSTANT",
                      Len(inner.constants), 0)
            [] expr.type = "BOOL" ->
                 Emit(inner, IF expr.boolean THEN "TRUE" ELSE "FALSE", 0, 0)
            [] expr.type = "PREFIX" ->
                 Then(inner, Expressions(<<expr.right>>) \o <<Emission(expr.op, 0)>>)
            [] expr.type = "INFIX" ->
                 Then(inner, Expressions(<<expr.left, expr.right>>)
                               \o <<Emission(InfixOp[expr.op], 0)>>)
            [] expr.type = "IF" ->
                 Then(inner, Append(Expressions(<<expr.condition>>),
                                    CONSEQUENCE(expr.consequence, expr.alternative)))
            [] expr.type = "FUNCTION" -> CompileFunction(inner, expr, function_name)
            [] expr.type = "CALL" ->
                 Then(inner, Append(Expressions(<<expr.function>>),
                                    ARGUMENTS(expr.arguments)))
    BY <1>2, <2>5 DEF CompileExpression, CONSEQUENCE, ARGUMENTS
  <2> HIDE DEF inner, d, Emission
  <2>7. inner \in Compilers /\ ~Failed(inner)
    BY <2>1 DEF Asks
  <2>8. /\ \A e \in Exprs : Expressions(<<e>>) = <<first(e)>>
        /\ \A e, f \in Exprs : Expressions(<<e, f>>) = <<first(e), first(f)>>
    BY DEF Expressions, Evaluation
  <2> HIDE DEF first
  <2>9. CASE expr.type = "IDENT"
    <3>1. d = CompileIdent(inner, expr.ident)
      BY <2>6, <2>9
    <3>2. expr.ident \in STRING
      BY <2>9, ExpressionParts
    <3>3. \/ Stops(d)
          \/ \E l \in 1 .. Level(inner) :
               /\ expr.ident \in DOMAIN inner.scopes[l].entries
               /\ \A k \in l + 1 .. Level(inner) :
                    expr.ident \notin DOMAIN inner.scopes[k].entries
               /\ inner.scopes[l].entries[expr.ident] \in Symbols
               /\ Resolves(inner, d, expr.ident, l, inner.scopes[l].entries[expr.ident])
      BY <2>7, <3>1, <3>2, IdentIs
    <3> QED
      BY <2>1, <2>7, <2>9, <3>3, Zenon DEF Evaluates, d
  <2>10. CASE expr.type = "INT"
    <3> DEFINE value == IntegerValue(expr.integer)
               f == AddConstant(inner, value)
    <3>1. d = Emit(f, "CONSTANT", Len(inner.constants), 0)
      BY <2>6, <2>10
    <3>2. value \in Values
      <4>1. expr.integer \in Int
        BY <2>10, ExpressionParts
      <4> QED
        BY <4>1 DEF IntegerValue, Values, ValueTypes
    <3> HIDE DEF value
    <3>3. (Stopped(inner, f) /\ Failed(f)) \/ Adds(inner, f, value)
      BY <2>7, <3>2, AddConstantIs DEF Adds
    <3>4. "CONSTANT" \in OpCodes /\ Len(inner.constants) \in Nat /\ 0 \in Nat
      BY <2>7 DEF OpCodes, LoadOps, Compilers
    <3> HIDE DEF f
    <3>5. CASE Stopped(inner, f) /\ Failed(f)
      <4>1. Stops(f)
        BY <3>5, StoppedStops
      <4>2. d = f
        BY <3>1, <4>1 DEF Emit, Stops
      <4> QED
        BY <4>1, <4>2 DEF d
    <3>6. CASE Adds(inner, f, value)
      <4>1. f \in Compilers /\ ~Failed(f)
        BY <3>6 DEF Adds
      <4>2. Stops(d) \/ Emits(f, d, "CONSTANT", Len(inner.constants), 0)
        BY <3>1, <3>4, <4>1, EmitEmits
      <4> QED
        BY <2>1, <2>7, <2>10, <3>6, <4>1, <4>2, Zenon DEF Evaluates, d, value
    <3> QED
      BY <3>3, <3>5, <3>6
  <2>11. CASE expr.type = "BOOL"
    <3>1. d = Emit(inner, "TRUE", 0, 0) \/ d = Emit(inner, "FALSE", 0, 0)
      BY <2>6, <2>11
    <3>2. "TRUE" \in OpCodes /\ "FALSE" \in OpCodes /\ 0 \in Nat
      BY DEF OpCodes, LoadOps
    <3>3. Stops(d) \/ Emits(inner, d, "TRUE", 0, 0) \/ Emits(inner, d, "FALSE", 0, 0)
      BY <2>7, <3>1, <3>2, EmitEmits
    <3> QED
      BY <2>1, <2>7, <2>11, <3>3 DEF Evaluates, d
  <2>12. CASE expr.type = "PREFIX"
    <3> DEFINE a == first(expr.right)
               b == Emission(expr.op, 0)
    <3>1. a \in Tasks /\ b \in Tasks /\ expr.right \in Exprs
      BY <2>3, <2>4, <2>12, ExpressionParts
    <3>2. d = Then(inner, <<a>> \o <<b>>)
      BY <2>6, <2>8, <2>12, <3>1
    <3> HIDE DEF a, b
    <3>3. <<a>> \o <<b>> = <<a, b>> /\ <<a, b>> \o <<LEAVE>> = <<a, b, LEAVE>>
      BY <2>2, <3>1, TaskLists, Zenon
    <3>4. Asks(inner, d, <<a, b>>)
      BY <2>7, <3>1, <3>2, <3>3, FewTasks, ThenAsks
    <3>5. Asks(c, d, <<a, b, LEAVE>>)
      BY <2>1, <3>3, <3>4, AsksTwice
    <3> QED
      BY <2>12, <3>5 DEF Evaluates, d, a, b, first
  <2>13. CASE expr.type = "INFIX"
    <3> DEFINE a == first(expr.left)
               b == first(expr.right)
               f == Emission(InfixOp[expr.op], 0)
    <3>1. a \in Tasks /\ b \in Tasks /\ f \in Tasks /\ expr.left \in Exprs /\ expr.right \in Exprs
      BY <2>3, <2>4, <2>13, ExpressionParts
    <3>2. d = Then(inner, <<a, b>> \o <<f>>)
      BY <2>6, <2>8, <2>13, <3>1
    <3> HIDE DEF a, b, f
    <3>3. <<a, b>> \o <<f>> = <<a, b, f>> /\ <<a, b, f>> \o <<LEAVE>> = <<a, b, f, LEAVE>>
      BY <2>2, <3>1, TaskLists
    <3>4. <<a, b, f>> \in Seq(Tasks)
      BY <3>1
    <3>5. Asks(inner, d, <<a, b, f>>)
      BY <2>7, <3>2, <3>3, <3>4, ThenAsks
    <3>6. Asks(c, d, <<a, b, f, LEAVE>>)
      BY <2>1, <3>3, <3>5, AsksTwice
    <3> QED
      BY <2>13, <3>6 DEF Evaluates, d, a, b, f, first
  <2>14. CASE expr.type = "IF"
    <3> DEFINE a == first(expr.condition)
               b == CONSEQUENCE(expr.consequence, expr.alternative)
    <3>1. a \in Tasks /\ b \in Tasks /\ expr.condition \in Exprs
      BY <2>3, <2>14, ExpressionParts, TasksAre DEF CONSEQUENCE
    <3>2. d = Then(inner, Append(<<a>>, b))
      BY <2>6, <2>8, <2>14, <3>1
    <3> HIDE DEF a, b
    <3>3. Append(<<a>>, b) = <<a, b>> /\ <<a, b>> \o <<LEAVE>> = <<a, b, LEAVE>>
      BY <2>2, <3>1, TaskLists, Zenon
    <3>4. Asks(inner, d, <<a, b>>)
      BY <2>7, <3>1, <3>2, <3>3, FewTasks, ThenAsks
    <3>5. Asks(c, d, <<a, b, LEAVE>>)
      BY <2>1, <3>3, <3>4, AsksTwice
    <3> QED
      BY <2>14, <3>5 DEF Evaluates, d, a, b, first
  <2>15. CASE expr.type = "FUNCTION"
    <3>1. d = CompileFunction(inner, expr, function_name)
      BY <2>6, <2>15
    <3> DEFINE a == FUNCTION(Len(expr.parameters))
    <3>2. Stops(d) \/ \E e \in Compilers : /\ Asks(inner, e, <<a>>)
                                           /\ Opens(e, d, expr, function_name)
      BY <2>7, <2>15, <3>1, FunctionIs
    <3>5. a \in Tasks
      <4>1. Len(expr.parameters) \in Nat
        BY <2>15, ExpressionParts
      <4> QED
        BY <4>1, TasksAre DEF FUNCTION
    <3> HIDE DEF a
    <3>3. <<a>> \o <<LEAVE>> = <<a, LEAVE>>
      BY <2>2, <3>5, TaskLists, Zenon
    <3>4. \A e : Asks(inner, e, <<a>>) => Asks(c, e, <<a, LEAVE>>)
      BY <2>1, <3>3, AsksTwice
    <3> QED
      BY <2>15, <3>2, <3>4, Zenon DEF Evaluates, d, a
  <2>16. CASE expr.type = "CALL"
    <3> DEFINE a == first(expr.function)
               b == ARGUMENTS(expr.arguments)
    <3>1. a \in Tasks /\ b \in Tasks /\ expr.function \in Exprs
      BY <2>3, <2>16, ExpressionParts, TasksAre DEF ARGUMENTS
    <3>2. d = Then(inner, Append(<<a>>, b))
      BY <2>6, <2>8, <2>16, <3>1
    <3> HIDE DEF a, b
    <3>3. Append(<<a>>, b) = <<a, b>> /\ <<a, b>> \o <<LEAVE>> = <<a, b, LEAVE>>
      BY <2>2, <3>1, TaskLists, Zenon
    <3>4. Asks(inner, d, <<a, b>>)
      BY <2>7, <3>1, <3>2, <3>3, FewTasks, ThenAsks
    <3>5. Asks(c, d, <<a, b, LEAVE>>)
      BY <2>1, <3>3, <3>4, AsksTwice
    <3> QED
      BY <2>16, <3>5 DEF Evaluates, d, a, b, first
  <2>17. expr.type \in {"IDENT", "INT", "BOOL", "PREFIX", "INFIX", "IF", "FUNCTION", "CALL"}
    BY ExpressionParts
  <2> QED
    BY <2>9, <2>10, <2>11, <2>12, <2>13, <2>14, <2>15, <2>16, <2>17 DEF d
<1> QED
  BY <1>1, <1>2
===============================================================================
