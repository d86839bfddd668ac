------------------------------ MODULE Activations ------------------------------
(***************************************************************************)
(* The machine as a reader of the bytecode imagines it.  Every call has    *)
(* an activation of its own, with its own locals and its own operands.     *)
(* There is no shared stack, no base pointer, no array with an end, and    *)
(* no check: an instruction finds what it needs.  The machine aborts when  *)
(* the Foo program does something wrong, or for lack of room, at any time. *)
(*                                                                         *)
(* Not code: the specification vm.c implements on verified bytecode (see   *)
(* VmActivations).                                                         *)
(***************************************************************************)
EXTENDS Operations, SequencesExt

CONSTANT Bytecodes  \* what the machine may be given to run

VARIABLES
  running,
  panic,
  constants,
  functions,
  globals,
  heap,          \* the closures made so far
  activations,   \* the calls in progress, the main code first
  last_popped

machineVars ==
  <<running, panic, constants, functions, globals, heap, activations, last_popped>>

-----------------------------------------------------------------------------
Current == Last(activations)
AtEnd == Current.next > Len(Current.code)
Instruction == Current.code[Current.next]
Operands == Current.operands

(* The n values on top, and what is below them. *)
Top(n) == SubSeq(Operands, Len(Operands) - n + 1, Len(Operands))
Below(n) == SubSeq(Operands, 1, Len(Operands) - n)

Executing(ops) == running /\ ~AtEnd /\ Instruction.op \in ops

Callable(i) == Head(Top(i.operand + 1)).type = "CLOSURE"
Callee(i) == heap[Head(Top(i.operand + 1)).data]

(* What the program did wrong, if anything. *)
ProgramFault(i) ==
  CASE i.op \in BinaryOps -> BinaryFault(i.op, Top(2)[1], Top(2)[2])
    [] i.op = "MINUS" -> IF Last(Operands).type # "INT" THEN "prefix operator"
                         ELSE IF Last(Operands).data = MinInt
                           THEN "integer overflow" ELSE "none"
    [] i.op = "CALL" -> IF ~Callable(i) THEN "not callable"
                        ELSE IF i.operand # Callee(i).function.parameter_count
                          THEN "argument count" ELSE "none"
    [] OTHER -> "none"

Correct(ops) == Executing(ops) /\ ProgramFault(Instruction) = "none"

(* The current call, gone on to a position with other operands. *)
GoneOn(position, operands) ==
  [Current EXCEPT !.next = position, !.operands = operands]

GoOn(position, operands) ==
  activations' = Append(Front(activations), GoneOn(position, operands))

GoOnNext(operands) == GoOn(Current.next + 1, operands)

Loaded(i) ==
  CASE i.op = "CONSTANT"   -> constants[i.operand + 1]
    [] i.op = "NULL"       -> Null
    [] i.op = "TRUE"       -> BooleanValue(TRUE)
    [] i.op = "FALSE"      -> BooleanValue(FALSE)
    [] i.op = "GET_GLOBAL" -> globals[i.operand]
    [] i.op = "GET_LOCAL"  -> Current.locals[i.operand + 1]
    [] i.op = "GET_FREE"   -> Current.free_values[i.operand + 1]
    [] i.op = "CURRENT_CLOSURE" -> ClosureValue(Current.closure)

Load ==
  /\ Correct(LoadOps)
  /\ GoOnNext(Append(Operands, Loaded(Instruction)))
  /\ UNCHANGED <<running, panic, constants, functions, globals, heap, last_popped>>

Pop ==
  /\ Correct({"POP"})
  /\ last_popped' = Last(Operands)
  /\ GoOnNext(Below(1))
  /\ UNCHANGED <<running, panic, constants, functions, globals, heap>>

ExecuteBinary ==
  /\ Correct(BinaryOps)
  /\ GoOnNext(Append(Below(2), Binary(Instruction.op, Top(2)[1], Top(2)[2])))
  /\ UNCHANGED <<running, panic, constants, functions, globals, heap, last_popped>>

ExecuteUnary ==
  /\ Correct(UnaryOps)
  /\ GoOnNext(Append(Below(1), IF Instruction.op = "BANG"
                                 THEN BooleanValue(~Truthy(Last(Operands)))
                                 ELSE IntegerValue(-Last(Operands).data)))
  /\ UNCHANGED <<running, panic, constants, functions, globals, heap, last_popped>>

Jump ==
  /\ Correct(JumpOps)
  /\ IF Instruction.op = "JUMP" THEN GoOn(Instruction.operand + 1, Operands)
     ELSE GoOn(IF Truthy(Last(Operands)) THEN Current.next + 1
                                         ELSE Instruction.operand + 1, Below(1))
  /\ UNCHANGED <<running, panic, constants, functions, globals, heap, last_popped>>

SetGlobal ==
  /\ Correct({"SET_GLOBAL"})
  /\ globals' = [globals EXCEPT ![Instruction.operand] = Last(Operands)]
  /\ GoOnNext(Below(1))
  /\ UNCHANGED <<running, panic, constants, functions, heap, last_popped>>

SetLocal ==
  /\ Correct({"SET_LOCAL"})
  /\ activations' =
       Append(Front(activations),
              [GoneOn(Current.next + 1, Below(1)) EXCEPT
                 !.locals = [@ EXCEPT ![Instruction.operand + 1] = Last(Operands)]])
  /\ UNCHANGED <<running, panic, constants, functions, globals, heap, last_popped>>

PushClosure ==
  /\ Correct({"CLOSURE"})
  /\ heap' = Append(heap,
       [function |-> functions[constants[Instruction.operand + 1].data],
        free_values |-> Top(Instruction.operand2)])
  /\ GoOnNext(Append(Below(Instruction.operand2), ClosureValue(Len(heap) + 1)))
  /\ UNCHANGED <<running, panic, constants, functions, globals, last_popped>>

(* The arguments are the first locals, the others are null. *)
LocalsOf(callee, arguments) ==
  [k \in 1 .. callee.function.local_count |->
     IF k <= Len(arguments) THEN arguments[k] ELSE Null]

Call ==
  /\ Correct({"CALL"})
  /\ LET taken == Instruction.operand + 1 IN
     activations' =
       Front(activations) \o
         <<GoneOn(Current.next + 1, Below(taken)),
           [closure |-> Head(Top(taken)).data,
            code |-> Callee(Instruction).function.instructions,
            free_values |-> Callee(Instruction).free_values,
            next |-> 1,
            locals |-> LocalsOf(Callee(Instruction), Tail(Top(taken))),
            operands |-> << >>]>>
  /\ UNCHANGED <<running, panic, constants, functions, globals, heap, last_popped>>

Returned == IF Instruction.op = "RETURN" THEN Null ELSE Last(Operands)

ReturnFromMain ==
  /\ Correct(ReturnOps)
  /\ Len(activations) = 1
  /\ activations' = << >>
  /\ last_popped' = Returned
  /\ running' = FALSE
  /\ UNCHANGED <<panic, constants, functions, globals, heap>>

ReturnToCaller ==
  /\ Correct(ReturnOps)
  /\ Len(activations) > 1
  /\ LET callers == Front(activations) IN
     activations' = Append(Front(callers),
                           [Last(callers) EXCEPT !.operands = Append(@, Returned)])
  /\ UNCHANGED <<running, panic, constants, functions, globals, heap, last_popped>>

Finish ==
  /\ running
  /\ AtEnd
  /\ Len(activations) = 1
  /\ activations' = << >>
  /\ running' = FALSE
  /\ UNCHANGED <<panic, constants, functions, globals, heap, last_popped>>

Abort ==
  /\ Executing(OpCodes)
  /\ panic' \in IF ProgramFault(Instruction) = "none" THEN CapacityFaults
                ELSE {ProgramFault(Instruction)}
  /\ activations' = << >>
  /\ running' = FALSE
  /\ UNCHANGED <<constants, functions, globals, heap, last_popped>>

Run(b) ==
  /\ ~running
  /\ panic = "none"
  /\ IsPrefix(constants, b.constants)
  /\ IsPrefix(functions, b.functions)
  /\ constants' = b.constants
  /\ functions' = b.functions
  /\ activations' = <<[closure |-> 0, code |-> b.instructions,
                       free_values |-> << >>, next |-> 1, locals |-> << >>,
                       operands |-> << >>]>>
  /\ last_popped' = Null
  /\ running' = TRUE
  /\ UNCHANGED <<panic, globals, heap>>

MachineInit ==
  /\ running = FALSE
  /\ panic = "none"
  /\ constants = << >>
  /\ functions = << >>
  /\ heap = << >>
  /\ activations = << >>
  /\ last_popped = Null
  /\ \A k \in DOMAIN globals : globals[k] = Null

MachineNext ==
  \/ Load \/ Pop \/ ExecuteBinary \/ ExecuteUnary \/ Jump
  \/ SetGlobal \/ SetLocal \/ PushClosure \/ Call
  \/ ReturnFromMain \/ ReturnToCaller \/ Finish \/ Abort
  \/ \E b \in Bytecodes : Run(b)

MachineSpec == MachineInit /\ [][MachineNext]_machineVars
===============================================================================
