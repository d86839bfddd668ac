---------------------------------- MODULE Vm ----------------------------------
(***************************************************************************)
(* The stack machine of lib/compiler/vm.c, for any bytecode.               *)
(*                                                                         *)
(* One step is one turn of the loop in vm_run: it fetches the instruction  *)
(* of the current frame and either carries it out (one action per group of *)
(* opcodes) or aborts, because one of the PANIC conditions of the opcode   *)
(* holds (Fault).  VmRun is the part of vm_run before the loop.            *)
(*                                                                         *)
(* The fixed arrays of the C code stay fixed arrays: the slots above       *)
(* stack_count and the frames above frame_count keep what was last written *)
(* there.  A pointer to a closure is the number of its allocation; number  *)
(* 0 is the vm's own main_closure.  A pointer to a compiled function is a  *)
(* position in the functions table of the bytecode.                        *)
(***************************************************************************)
EXTENDS Operations

CONSTANTS
  MaxVmStackValues,  \* MAX_VM_STACK_VALUES
  MaxVmGlobals,      \* MAX_VM_GLOBALS
  MaxVmFrames,       \* MAX_VM_FRAMES
  MaxVmClosures      \* MAX_VM_CLOSURES

ASSUME VmAssumption ==
  /\ MaxVmStackValues \in Nat \ {0}
  /\ MaxVmGlobals \in Nat \ {0}
  /\ MaxVmFrames \in Nat \ {0}
  /\ MaxVmClosures \in Nat
  /\ MaxFreeValues \in Nat
  /\ MaxInt \in Nat \ {0}

VARIABLES
  running,        \* vm_run has been entered and has not returned
  panic,          \* why the process aborted, "none" while it lives
  constants,      \* vm->constants
  functions,      \* the compiled functions the constants point to
  stack,          \* vm->stack, all of it
  stack_count,
  globals,
  frames,         \* vm->frames, all of it
  frame_count,
  closures,       \* every closure allocated so far; closures[0] is main_closure
  closure_count,
  last_popped

vmVars == <<running, panic, constants, functions, stack, stack_count, globals,
            frames, frame_count, closures, closure_count, last_popped>>

-----------------------------------------------------------------------------
(* The current frame *)

Frame == frames[frame_count - 1]
Function == closures[Frame.closure].function
Code == Function.instructions
AtEnd == Frame.instruction_pointer >= Len(Code)
Instruction == Code[Frame.instruction_pointer + 1]

(* The value n places below the top: Peek(0) is what vm_pop returns. *)
Peek(n) == stack[stack_count - 1 - n]

-----------------------------------------------------------------------------
(* The PANIC conditions of each opcode, in the order the code tests them *)

(* Mutant: the capacity is off by one. *)
PushFaultLate ==
  IF stack_count <= MaxVmStackValues THEN "none" ELSE "stack capacity"

PushFault == IF stack_count < MaxVmStackValues THEN "none" ELSE "stack capacity"
PopFault == IF stack_count > 0 THEN "none" ELSE "stack underflow"

LoadFault(i) ==
  IF i.op = "CONSTANT" /\ i.operand >= Len(constants)
    THEN "constant index"
  ELSE IF i.op = "GET_GLOBAL" /\ i.operand >= MaxVmGlobals
    THEN "global index"
  ELSE IF i.op = "GET_LOCAL" /\ Frame.base_pointer + i.operand >= stack_count
    THEN "local index"
  ELSE IF i.op = "GET_FREE"
          /\ i.operand >= Len(closures[Frame.closure].free_values)
    THEN "free value index"
  ELSE PushFault

UnaryFault(i) ==
  IF stack_count = 0 THEN "stack underflow"
  ELSE IF i.op = "BANG" THEN "none"
  ELSE IF Peek(0).type # "INT" THEN "prefix operator"
  ELSE IF Peek(0).data = MinInt THEN "integer overflow" ELSE "none"

JumpFault(i) ==
  IF i.op = "JUMP_NOT_TRUTHY" /\ stack_count = 0 THEN "stack underflow"
  ELSE IF i.op = "JUMP_NOT_TRUTHY" /\ Truthy(Peek(0)) THEN "none"
  ELSE IF i.operand > Len(Code) THEN "jump target" ELSE "none"

ClosureFault(i) ==
  IF i.operand >= Len(constants) THEN "constant index"
  ELSE IF constants[i.operand + 1].type # "COMPILED_FUNCTION"
    THEN "not a compiled function"
  ELSE IF i.operand2 > MaxFreeValues THEN "free value capacity"
  ELSE IF stack_count < i.operand2 THEN "stack underflow"
  ELSE IF closure_count >= MaxVmClosures THEN "closure capacity"
  ELSE IF i.operand2 = 0 THEN PushFault ELSE "none"

CallFault(i) ==
  IF stack_count < i.operand + 1 THEN "stack underflow"
  ELSE IF Peek(i.operand).type # "CLOSURE" THEN "not callable"
  ELSE LET callee == closures[Peek(i.operand).data].function IN
    IF i.operand # callee.parameter_count THEN "argument count"
    ELSE IF frame_count >= MaxVmFrames THEN "frame capacity"
    ELSE IF stack_count - i.operand + callee.local_count > MaxVmStackValues
      THEN "stack capacity" ELSE "none"

ReturnFault(i) ==
  IF i.op = "RETURN_VALUE" /\ stack_count = 0 THEN "stack underflow"
  ELSE IF frame_count > 1 /\ Frame.base_pointer = 0 THEN "frame base"
  ELSE "none"

Fault(i) ==
  CASE i.op \in LoadOps   -> LoadFault(i)
    [] i.op = "POP"       -> PopFault
    [] i.op \in BinaryOps -> IF stack_count < 2 THEN "stack underflow"
                             ELSE BinaryFault(i.op, Peek(1), Peek(0))
    [] i.op \in UnaryOps  -> UnaryFault(i)
    [] i.op \in JumpOps   -> JumpFault(i)
    [] i.op = "SET_GLOBAL" -> IF i.operand >= MaxVmGlobals THEN "global index"
                              ELSE PopFault
    [] i.op = "SET_LOCAL" ->
         IF Frame.base_pointer + i.operand >= MaxVmStackValues
           THEN "local index" ELSE PopFault
    [] i.op = "CLOSURE"   -> ClosureFault(i)
    [] i.op = "CALL"      -> CallFault(i)
    [] i.op \in ReturnOps -> ReturnFault(i)

-----------------------------------------------------------------------------
(* The loop *)

Executing(ops) ==
  /\ running
  /\ ~AtEnd
  /\ Instruction.op \in ops
  /\ Fault(Instruction) = "none"

(* Mutant: the operands stay on the stack. *)
PopPushKeeping(pops, v) ==
  /\ stack' = [stack EXCEPT ![stack_count - pops] = v]
  /\ stack_count' = stack_count + 1

(* Pop the given number of values, then push v. *)
PopPush(pops, v) ==
  /\ stack' = [stack EXCEPT ![stack_count - pops] = v]
  /\ stack_count' = stack_count - pops + 1

GoTo(ip) ==
  frames' = [frames EXCEPT ![frame_count - 1].instruction_pointer = ip]
Advance == GoTo(Frame.instruction_pointer + 1)

Loaded(i) ==
  CASE i.op = "CONSTANT"   -> constants[i.operand + 1]
    [] i.op = "NULL"       -> Null
    [] i.op = "TRUE"       -> BooleanValue(TRUE)
    [] i.op = "FALSE"      -> BooleanValue(FALSE)
    [] i.op = "GET_GLOBAL" -> globals[i.operand]
    [] i.op = "GET_LOCAL"  -> stack[Frame.base_pointer + i.operand]
    [] i.op = "GET_FREE"   ->
         closures[Frame.closure].free_values[i.operand + 1]
    [] i.op = "CURRENT_CLOSURE" -> ClosureValue(Frame.closure)

Load ==
  /\ Executing(LoadOps)
  /\ PopPush(0, Loaded(Instruction))
  /\ Advance
  /\ UNCHANGED <<running, panic, constants, functions, globals, frame_count,
                 closures, closure_count, last_popped>>

Pop ==
  /\ Executing({"POP"})
  /\ last_popped' = Peek(0)
  /\ stack_count' = stack_count - 1
  /\ Advance
  /\ UNCHANGED <<running, panic, constants, functions, stack, globals,
                 frame_count, closures, closure_count>>

ExecuteBinary ==
  /\ Executing(BinaryOps)
  /\ PopPush(2, Binary(Instruction.op, Peek(1), Peek(0)))
  /\ Advance
  /\ UNCHANGED <<running, panic, constants, functions, globals, frame_count,
                 closures, closure_count, last_popped>>

ExecuteUnary ==
  /\ Executing(UnaryOps)
  /\ PopPush(1, IF Instruction.op = "BANG" THEN BooleanValue(~Truthy(Peek(0)))
                                           ELSE IntegerValue(-Peek(0).data))
  /\ Advance
  /\ UNCHANGED <<running, panic, constants, functions, globals, frame_count,
                 closures, closure_count, last_popped>>

Jump ==
  /\ Executing(JumpOps)
  /\ IF Instruction.op = "JUMP"
       THEN /\ GoTo(Instruction.operand)
            /\ UNCHANGED stack_count
       ELSE /\ IF Truthy(Peek(0)) THEN Advance ELSE GoTo(Instruction.operand)
            /\ stack_count' = stack_count - 1
  /\ UNCHANGED <<running, panic, constants, functions, stack, globals,
                 frame_count, closures, closure_count, last_popped>>

SetGlobal ==
  /\ Executing({"SET_GLOBAL"})
  /\ globals' = [globals EXCEPT ![Instruction.operand] = Peek(0)]
  /\ stack_count' = stack_count - 1
  /\ Advance
  /\ UNCHANGED <<running, panic, constants, functions, stack, frame_count,
                 closures, closure_count, last_popped>>

(* Mutant: the locals of every function are the bottom of the stack. *)
SetLocalFromBottom ==
  /\ Executing({"SET_LOCAL"})
  /\ stack' = [stack EXCEPT ![Instruction.operand] = Peek(0)]
  /\ stack_count' = stack_count - 1
  /\ Advance
  /\ UNCHANGED <<running, panic, constants, functions, globals, frame_count,
                 closures, closure_count, last_popped>>

SetLocal ==
  /\ Executing({"SET_LOCAL"})
  /\ stack' = [stack EXCEPT
                 ![Frame.base_pointer + Instruction.operand] = Peek(0)]
  /\ stack_count' = stack_count - 1
  /\ Advance
  /\ UNCHANGED <<running, panic, constants, functions, globals, frame_count,
                 closures, closure_count, last_popped>>

(* The free values are copied off the stack, the first one deepest. *)
PushClosure ==
  /\ Executing({"CLOSURE"})
  /\ LET count == Instruction.operand2
         first == stack_count - count
     IN closures' = [closures EXCEPT ![closure_count + 1] =
          [function |-> functions[constants[Instruction.operand + 1].data],
           free_values |-> [k \in 1 .. count |-> stack[first + k - 1]]]]
  /\ closure_count' = closure_count + 1
  /\ PopPush(Instruction.operand2, ClosureValue(closure_count + 1))
  /\ Advance
  /\ UNCHANGED <<running, panic, constants, functions, globals, frame_count,
                 last_popped>>

(* Mutant: the callee is taken for the first argument. *)
CalleeBase == stack_count - Instruction.operand - 1

(* Where the arguments of a call start on the stack. *)
ArgumentBase == stack_count - Instruction.operand

(* Mutant: the other locals are what the last call left there. *)
CallLeavingLocals ==
  /\ Executing({"CALL"})
  /\ LET closure == Peek(Instruction.operand).data
         base == ArgumentBase
         top == base + closures[closure].function.local_count
     IN /\ stack' = stack
        /\ stack_count' = top
        /\ frames' = [frames EXCEPT
             ![frame_count - 1].instruction_pointer = @ + 1,
             ![frame_count] = [closure |-> closure, instruction_pointer |-> 0,
                               base_pointer |-> base]]
  /\ frame_count' = frame_count + 1
  /\ UNCHANGED <<running, panic, constants, functions, globals, closures,
                 closure_count, last_popped>>

(* The arguments on the stack become the first locals of the new frame. *)
Call ==
  /\ Executing({"CALL"})
  /\ LET arguments == Instruction.operand
         closure == Peek(arguments).data
         base == ArgumentBase
         top == base + closures[closure].function.local_count
     IN /\ stack' = [k \in 0 .. MaxVmStackValues - 1 |->
                       IF k \in base + arguments .. top - 1 THEN Null
                                                            ELSE stack[k]]
        /\ stack_count' = top
        /\ frames' = [frames EXCEPT
             ![frame_count - 1].instruction_pointer = @ + 1,
             ![frame_count] = [closure |-> closure, instruction_pointer |-> 0,
                               base_pointer |-> base]]
  /\ frame_count' = frame_count + 1
  /\ UNCHANGED <<running, panic, constants, functions, globals, closures,
                 closure_count, last_popped>>

ReturnedValue == IF Instruction.op = "RETURN" THEN Null ELSE Peek(0)

(* Returning from the main frame ends vm_run. *)
ReturnFromMain ==
  /\ Executing(ReturnOps)
  /\ frame_count = 1
  /\ last_popped' = ReturnedValue
  /\ stack_count' = 0
  /\ frame_count' = 0
  /\ running' = FALSE
  /\ Advance
  /\ UNCHANGED <<panic, constants, functions, stack, globals, closures,
                 closure_count>>

(* Mutant: the result is written and not counted. *)
ReturnToCallerBelow ==
  /\ Executing(ReturnOps)
  /\ frame_count > 1
  /\ stack' = [stack EXCEPT ![Frame.base_pointer - 1] = ReturnedValue]
  /\ stack_count' = Frame.base_pointer - 1
  /\ frame_count' = frame_count - 1
  /\ Advance
  /\ UNCHANGED <<running, panic, constants, functions, globals, closures,
                 closure_count, last_popped>>

(* The result takes the place of the callee, below the arguments. *)
ReturnToCaller ==
  /\ Executing(ReturnOps)
  /\ frame_count > 1
  /\ stack' = [stack EXCEPT ![Frame.base_pointer - 1] = ReturnedValue]
  /\ stack_count' = Frame.base_pointer
  /\ frame_count' = frame_count - 1
  /\ Advance
  /\ UNCHANGED <<running, panic, constants, functions, globals, closures,
                 closure_count, last_popped>>

(* The main function ran to its end: vm_run leaves the loop. *)
Finish ==
  /\ running
  /\ AtEnd
  /\ frame_count = 1
  /\ running' = FALSE
  /\ UNCHANGED <<panic, constants, functions, stack, stack_count, globals,
                 frames, frame_count, closures, closure_count, last_popped>>

StepFault == IF ~AtEnd THEN Fault(Instruction)
             ELSE IF frame_count > 1 THEN "no return" ELSE "none"

(* panic_impl: the process aborts. *)
Abort ==
  /\ running
  /\ StepFault # "none"
  /\ panic' = StepFault
  /\ running' = FALSE
  /\ UNCHANGED <<constants, functions, stack, stack_count, globals, frames,
                 frame_count, closures, closure_count, last_popped>>

VmStep ==
  \/ Load \/ Pop \/ ExecuteBinary \/ ExecuteUnary \/ Jump
  \/ SetGlobal \/ SetLocal \/ PushClosure \/ Call
  \/ ReturnFromMain \/ ReturnToCaller \/ Finish \/ Abort

-----------------------------------------------------------------------------
(* Start-up *)

NoFunction == [instructions |-> << >>, local_count |-> 0, parameter_count |-> 0]

VmInit ==
  /\ running = FALSE
  /\ panic = "none"
  /\ constants = << >>
  /\ functions = << >>
  /\ stack = [k \in 0 .. MaxVmStackValues - 1 |-> Null]
  /\ stack_count = 0
  /\ globals = [k \in 0 .. MaxVmGlobals - 1 |-> Null]
  /\ frames = [k \in 0 .. MaxVmFrames - 1 |->
                 [closure |-> 0, instruction_pointer |-> 0, base_pointer |-> 0]]
  /\ frame_count = 0
  /\ closures = [k \in 0 .. MaxVmClosures |->
                   [function |-> NoFunction, free_values |-> << >>]]
  /\ closure_count = 0
  /\ last_popped = Null

VmRun(bytecode) ==
  /\ ~running
  /\ panic = "none"
  /\ running' = TRUE
  /\ constants' = bytecode.constants
  /\ functions' = bytecode.functions
  /\ stack_count' = 0
  /\ frame_count' = 1
  /\ last_popped' = Null
  /\ closures' = [closures EXCEPT ![0] =
       [function |-> [NoFunction EXCEPT !.instructions = bytecode.instructions],
        free_values |-> << >>]]
  /\ frames' = [frames EXCEPT ![0] =
       [closure |-> 0, instruction_pointer |-> 0, base_pointer |-> 0]]
  /\ UNCHANGED <<panic, stack, globals, closure_count>>
===============================================================================
