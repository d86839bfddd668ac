--------------------------------- MODULE Modes --------------------------------
(***************************************************************************)
(* The two execution modes side by side: the same lines are given to       *)
(* foo --interpreter and to foo --compiler (the two branches of main).     *)
(* The interpreter evaluates a line in one step, when the compiled mode    *)
(* reads it; a session ends for both when one of the processes aborts.     *)
(***************************************************************************)
EXTENDS CompiledMode

CONSTANTS MaxEnvironments, MaxBindings, MaxEvalDepth, MaxCallDepth

ASSUME EvaluatorAssumption ==
  /\ MaxEnvironments \in Nat \ {0}
  /\ {MaxBindings, MaxEvalDepth, MaxCallDepth} \subseteq Nat

VARIABLE evaluator

Interpreter == INSTANCE Evaluator

modesVars == <<compiledVars, evaluator>>

ModesInit == CompiledInit /\ evaluator = Interpreter!EvaluatorInit

ReadSameLine ==
  /\ Ready
  /\ ~Interpreter!Failed(evaluator)
  /\ \E stmts \in Lines :
       /\ Enters(stmts)
       /\ evaluator' = Interpreter!Evaluate(evaluator, stmts)

GoOnCompiled == GoOn /\ UNCHANGED evaluator

ModesNext == ReadSameLine \/ GoOnCompiled

ModesSpec == ModesInit /\ [][ModesNext]_modesVars

-----------------------------------------------------------------------------
(* What value_print and vm_value_print show of a value. *)
Shown(v) == IF v.type \in {"FUNCTION", "CLOSURE", "COMPILED_FUNCTION"}
              THEN [type |-> "FUNCTION", data |-> 0] ELSE v

(* The modes have different capacities, and spend them differently. *)
OutOfCapacity ==
  panic \in CapacityFaults \union CompilerCapacityFaults
    \/ evaluator.panic \in Interpreter!CapacityFaults

(* README.md: "Foo can execute the same source with either a tree-walking
   interpreter or a bytecode compiler and stack-based virtual machine."  When
   both have run a line, both print the same, or both abort for the same reason,
   unless one of them ran out of a capacity. *)
ModesAgree ==
  ~running /\ ~compiling /\ ~OutOfCapacity =>
    /\ panic = evaluator.panic
    /\ panic = "none" => Shown(last_popped) = Shown(evaluator.value)

(* Whatever way a line left a function or an expression, with a value or with a
   return that passes through operands, arguments and callees, the depths are
   back at zero: the next line has all of MAX_EVAL_DEPTH and MAX_CALL_DEPTH.
   MAX_CALL_DEPTH, which is not below MAX_EVAL_DEPTH, is never what stops a
   program: a call is inside an expression. *)
DepthsBalanced ==
  /\ ~Interpreter!Failed(evaluator) =>
       evaluator.eval_depth = 0 /\ evaluator.call_depth = 0
  /\ MaxCallDepth >= MaxEvalDepth => evaluator.panic # "call depth"

(* The binding count is exactly the bindings there are, in all the environments
   ever made: setting a name again costs nothing, and nothing is ever given
   back, also for calls that are over. *)
BindingsCounted ==
  ~Interpreter!Failed(evaluator) =>
    evaluator.binding_count =
      FoldLeft(LAMBDA sum, environment :
                 sum + Cardinality(DOMAIN environment.bindings),
               0, evaluator.environments)
===============================================================================
