---------------------------- MODULE VmSafety_proofs ----------------------------
(***************************************************************************)
(* Proofs about the virtual machine, for every size of its arrays: first   *)
(* given any set of bytecodes, then given verified ones; and, about the    *)
(* integers it shares with the parser, that of the guard of parse_integer. *)
(***************************************************************************)
EXTENDS VmSafety, TLAPS

-----------------------------------------------------------------------------
(* Literals *)

(* The test of a digit against the quotient, which cannot overflow, says exactly
   whether the literal with that digit would be above the largest integer: the
   largest is read, the next one refused. *)
THEOREM LiteralGuardExact ==
  ASSUME MaxInt \in Nat, MaxInt >= 9, NEW value \in Nat, NEW digit \in 0 .. 9
  PROVE  TooLarge(value, digit) <=> value * 10 + digit > MaxInt
<1> DEFINE room == MaxInt - digit
<1>1. room \in Nat
  OBVIOUS
<1>2. /\ room \div 10 \in Nat
      /\ (room \div 10) * 10 <= room
      /\ room < (room \div 10) * 10 + 10
  BY <1>1, SMT
<1>3. value > room \div 10 <=> value * 10 > room
  BY <1>1, <1>2, SMT
<1>4. value * 10 > room <=> value * 10 + digit > MaxInt
  OBVIOUS
<1> QED
  BY <1>3, <1>4 DEF TooLarge

-----------------------------------------------------------------------------
(* Types *)

(* The frame vm_run works on, and the code it fetches from, are there. *)
LEMMA CurrentFrame ==
  ASSUME TypeOK, running
  PROVE  /\ frame_count \in 1 .. MaxVmFrames
         /\ frame_count - 1 \in 0 .. MaxVmFrames - 1
         /\ Frame \in Frames
         /\ Function \in CompiledFunctions
         /\ Code \in Seq(Instructions)
         /\ ~AtEnd => Instruction \in Instructions
<1>1. frame_count \in 1 .. MaxVmFrames /\ frame_count - 1 \in 0 .. MaxVmFrames - 1
  BY VmAssumption DEF VmAssumption, TypeOK
<1>2. Frame \in Frames
  BY <1>1 DEF TypeOK, Frame
<1>3. Function \in CompiledFunctions
  BY <1>2 DEF TypeOK, Frames, Closures, Function
<1>4. Code \in Seq(Instructions)
  BY <1>3 DEF Code, CompiledFunctions
<1>5. ~AtEnd => Instruction \in Instructions
  BY <1>2, <1>4 DEF AtEnd, Instruction, Frames
<1> QED
  BY <1>1, <1>2, <1>3, <1>4, <1>5

(* Moving the current frame's instruction pointer. *)
LEMMA GoToType ==
  ASSUME TypeOK, running, NEW ip \in Nat, GoTo(ip)
  PROVE  frames' \in [0 .. MaxVmFrames - 1 -> Frames]
BY CurrentFrame DEF TypeOK, GoTo, Frames

(* So does moving on to the next instruction. *)
LEMMA AdvanceType ==
  ASSUME TypeOK, running, Advance
  PROVE  frames' \in [0 .. MaxVmFrames - 1 -> Frames]
<1>1. Frame.instruction_pointer + 1 \in Nat
  BY CurrentFrame DEF Frames
<1> QED
  BY <1>1, GoToType DEF Advance

(* Popping pops values, which are there, and pushing one that fits. *)
LEMMA PopPushType ==
  ASSUME TypeOK, NEW pops \in Nat, NEW v \in Values, PopPush(pops, v),
         pops <= stack_count, stack_count - pops < MaxVmStackValues
  PROVE  /\ stack' \in [0 .. MaxVmStackValues - 1 -> Values]
         /\ stack_count' \in 0 .. MaxVmStackValues
BY VmAssumption DEF VmAssumption, TypeOK, PopPush

(* Which PANIC conditions belong to which opcode. *)
LEMMA FaultOf ==
  ASSUME NEW i
  PROVE  /\ i.op \in LoadOps => Fault(i) = LoadFault(i)
         /\ i.op = "POP" => Fault(i) = PopFault
         /\ i.op \in BinaryOps =>
              Fault(i) = IF stack_count < 2 THEN "stack underflow"
                         ELSE BinaryFault(i.op, Peek(1), Peek(0))
         /\ i.op \in UnaryOps => Fault(i) = UnaryFault(i)
         /\ i.op \in JumpOps => Fault(i) = JumpFault(i)
         /\ i.op = "SET_GLOBAL" =>
              Fault(i) = IF i.operand >= MaxVmGlobals THEN "global index"
                         ELSE PopFault
         /\ i.op = "SET_LOCAL" =>
              Fault(i) = IF Frame.base_pointer + i.operand >= MaxVmStackValues
                           THEN "local index" ELSE PopFault
         /\ i.op = "CLOSURE" => Fault(i) = ClosureFault(i)
         /\ i.op = "CALL" => Fault(i) = CallFault(i)
         /\ i.op \in ReturnOps => Fault(i) = ReturnFault(i)
BY DEF Fault, LoadOps, BinaryOps, ArithmeticOps, ComparisonOps, UnaryOps,
       JumpOps, ReturnOps

(* What an instruction that executes does not overrun. *)
LEMMA LoadType ==
  ASSUME TypeOK, Executing(LoadOps)
  PROVE  /\ Loaded(Instruction) \in Values
         /\ stack_count < MaxVmStackValues
<1> DEFINE i == Instruction
<1>1. /\ i \in Instructions
      /\ Frame \in Frames
      /\ closures[Frame.closure] \in Closures
  BY CurrentFrame DEF Executing, Frames, TypeOK
<1>2. i.op \in LoadOps /\ LoadFault(i) = "none"
  BY FaultOf DEF Executing
<1>3. i.operand \in Nat
  BY <1>1 DEF Instructions
<1>4. stack_count < MaxVmStackValues
  BY <1>2 DEF LoadFault, PushFault
<1>5. CASE i.op = "CONSTANT"
  <2>1. i.operand + 1 \in 1 .. Len(constants)
    BY <1>2, <1>3, <1>5 DEF LoadFault, TypeOK, IsBytecode
  <2>2. constants[i.operand + 1] \in Values
    BY <2>1 DEF TypeOK, IsBytecode
  <2> QED
    BY <1>4, <1>5, <2>2 DEF Loaded
<1>6. CASE i.op \in {"NULL", "TRUE", "FALSE", "CURRENT_CLOSURE"}
  BY <1>1, <1>4, <1>6
     DEF Loaded, Null, BooleanValue, ClosureValue, Values, ValueTypes, Frames
<1>7. CASE i.op = "GET_GLOBAL"
  <2>1. i.operand \in 0 .. MaxVmGlobals - 1
    BY <1>2, <1>3, <1>7, VmAssumption DEF LoadFault, VmAssumption
  <2> QED
    BY <1>4, <1>7, <2>1 DEF Loaded, TypeOK
<1>8. CASE i.op = "GET_LOCAL"
  <2> HIDE DEF i
  <2>1. ~(Frame.base_pointer + i.operand >= stack_count)
    BY <1>2, <1>8 DEF LoadFault
  <2>2. /\ Frame.base_pointer \in Nat
        /\ stack_count \in 0 .. MaxVmStackValues
    BY <1>1, VmAssumption DEF VmAssumption, Frames, TypeOK
  <2>3. Frame.base_pointer + i.operand \in 0 .. MaxVmStackValues - 1
    BY <1>3, <2>1, <2>2, VmAssumption DEF VmAssumption
  <2> QED
    BY <1>4, <1>8, <2>3 DEF Loaded, TypeOK, i
<1>9. CASE i.op = "GET_FREE"
  <2>1. /\ closures[Frame.closure].free_values \in Seq(Values)
        /\ i.operand + 1 \in 1 .. Len(closures[Frame.closure].free_values)
    BY <1>1, <1>2, <1>3, <1>9 DEF LoadFault, Closures
  <2> QED
    BY <1>4, <1>9, <2>1 DEF Loaded
<1> QED
  BY <1>2, <1>5, <1>6, <1>7, <1>8, <1>9 DEF LoadOps

(* What is looked at below the top of the stack is a value. *)
LEMMA PeekType ==
  ASSUME TypeOK, NEW n \in Nat, n < stack_count
  PROVE  Peek(n) \in Values
<1>1. stack_count - 1 - n \in 0 .. MaxVmStackValues - 1
  BY VmAssumption DEF VmAssumption, TypeOK
<1> QED
  BY <1>1 DEF Peek, TypeOK

(* C division never leaves the magnitude of the dividend, and reaches it only
   when it divides by 1 or -1. *)
LEMMA QuotientType ==
  ASSUME NEW l \in Int, NEW r \in Int \ {0}
  PROVE  /\ Quotient(l, r) \in Int
         /\ -Magnitude(l) <= Quotient(l, r)
         /\ Quotient(l, r) <= Magnitude(l)
         /\ Quotient(l, r) = Magnitude(l) /\ l < 0 => r = -1
<1>1. /\ Magnitude(l) \in Nat
      /\ Magnitude(r) \in Nat \ {0}
  BY DEF Magnitude
<1>2. ASSUME NEW a \in Nat, NEW b \in Nat \ {0}
      PROVE  a \div b \in 0 .. a
  OBVIOUS
<1>3. ASSUME NEW a \in Nat \ {0}, NEW b \in Nat \ {0, 1}
      PROVE  a \div b < a
  OBVIOUS
<1>4. Magnitude(l) \div Magnitude(r) \in 0 .. Magnitude(l)
  BY <1>1, <1>2
<1>5. ASSUME l < 0, Quotient(l, r) = Magnitude(l)
      PROVE  r = -1
  <2>1. Magnitude(l) \in Nat \ {0}
    BY <1>5 DEF Magnitude
  <2>2. r < 0 /\ Magnitude(l) \div Magnitude(r) = Magnitude(l)
    BY <1>4, <1>5, <2>1 DEF Quotient
  <2>3. Magnitude(r) = 1
    BY <1>1, <1>3, <2>1, <2>2
  <2> QED
    BY <2>2, <2>3 DEF Magnitude
<1> QED
  BY <1>1, <1>4, <1>5 DEF Quotient

(* A binary operation on values is a value. *)
LEMMA BinaryType ==
  ASSUME NEW op \in BinaryOps, NEW left \in Values, NEW right \in Values,
         BinaryFault(op, left, right) = "none"
  PROVE  Binary(op, left, right) \in Values
<1>1. CASE op \in ArithmeticOps
  <2>1. left.type = "INT" /\ right.type = "INT"
    BY <1>1 DEF BinaryFault, ArithmeticOps
  <2>2. left.data \in Int /\ right.data \in Int
    BY DEF Values
  <2>3. Arithmetic(op, left.data, right.data) \in Int
    <3>1. CASE op = "DIVIDE"
      <4>1. right.data # 0
        BY <2>1, <3>1 DEF BinaryFault, IntegerFault
      <4> QED
        BY <2>2, <3>1, <4>1, QuotientType DEF Arithmetic
    <3>2. CASE op \in {"ADD", "SUBTRACT", "MULTIPLY"}
      BY <2>2, <3>2 DEF Arithmetic
    <3> QED
      BY <1>1, <3>1, <3>2 DEF ArithmeticOps
  <2> QED
    BY <1>1, <2>3 DEF Binary, IntegerValue, Values, ValueTypes
<1>2. CASE op \notin ArithmeticOps
  BY <1>2 DEF Binary, BooleanValue, Values, ValueTypes
<1> QED
  BY <1>1, <1>2

-----------------------------------------------------------------------------
(* Every step keeps the types *)

(* Pushing a constant, a global, a local or a captured value. *)
LEMMA LoadKeepsType == TypeOK /\ Load => TypeOK'
<1> SUFFICES ASSUME TypeOK, Load PROVE TypeOK'
  OBVIOUS
<1>1. frames' \in [0 .. MaxVmFrames - 1 -> Frames]
  BY AdvanceType DEF Load, Executing
<1>2. /\ stack' \in [0 .. MaxVmStackValues - 1 -> Values]
      /\ stack_count' \in 0 .. MaxVmStackValues
  BY LoadType, PopPushType, VmAssumption DEF VmAssumption, Load, TypeOK
<1> QED
  BY <1>1, <1>2 DEF TypeOK, Load

(* Popping a statement's value. *)
LEMMA PopKeepsType == TypeOK /\ Pop => TypeOK'
<1> SUFFICES ASSUME TypeOK, Pop PROVE TypeOK'
  OBVIOUS
<1>1. frames' \in [0 .. MaxVmFrames - 1 -> Frames]
  BY AdvanceType DEF Pop, Executing
<1>2. stack_count > 0
  BY FaultOf DEF Pop, Executing, PopFault
<1>3. Peek(0) \in Values
  BY <1>2, PeekType
<1>4. stack_count' \in 0 .. MaxVmStackValues
  BY <1>2, VmAssumption DEF VmAssumption, TypeOK, Pop
<1> QED
  BY <1>1, <1>3, <1>4 DEF TypeOK, Pop

(* vm_execute_binary. *)
LEMMA ExecuteBinaryKeepsType == TypeOK /\ ExecuteBinary => TypeOK'
<1> SUFFICES ASSUME TypeOK, ExecuteBinary PROVE TypeOK'
  OBVIOUS
<1>1. frames' \in [0 .. MaxVmFrames - 1 -> Frames]
  BY AdvanceType DEF ExecuteBinary, Executing
<1>2. /\ Instruction.op \in BinaryOps
      /\ ~(stack_count < 2)
      /\ BinaryFault(Instruction.op, Peek(1), Peek(0)) = "none"
  BY FaultOf DEF ExecuteBinary, Executing
<1>3. stack_count \in 2 .. MaxVmStackValues
  BY <1>2, VmAssumption DEF VmAssumption, TypeOK
<1>4. Peek(1) \in Values /\ Peek(0) \in Values
  BY <1>3, PeekType
<1>5. Binary(Instruction.op, Peek(1), Peek(0)) \in Values
  BY <1>2, <1>4, BinaryType
<1>6. /\ stack' \in [0 .. MaxVmStackValues - 1 -> Values]
      /\ stack_count' \in 0 .. MaxVmStackValues
  BY <1>3, <1>5, PopPushType, VmAssumption DEF VmAssumption, ExecuteBinary
<1> QED
  BY <1>1, <1>6 DEF TypeOK, ExecuteBinary

(* The prefix operators. *)
LEMMA ExecuteUnaryKeepsType == TypeOK /\ ExecuteUnary => TypeOK'
<1> SUFFICES ASSUME TypeOK, ExecuteUnary PROVE TypeOK'
  OBVIOUS
<1> DEFINE v == IF Instruction.op = "BANG" THEN BooleanValue(~Truthy(Peek(0)))
                                           ELSE IntegerValue(-Peek(0).data)
<1>1. frames' \in [0 .. MaxVmFrames - 1 -> Frames]
  BY AdvanceType DEF ExecuteUnary, Executing
<1>2. stack_count # 0
  BY FaultOf DEF ExecuteUnary, Executing, UnaryFault
<1>3. stack_count \in 1 .. MaxVmStackValues
  BY <1>2, VmAssumption DEF VmAssumption, TypeOK
<1>4. v \in Values
  BY <1>3, PeekType DEF BooleanValue, IntegerValue, Values, ValueTypes
<1>5. PopPush(1, v)
  BY DEF ExecuteUnary
<1> HIDE DEF v
<1>6. /\ stack' \in [0 .. MaxVmStackValues - 1 -> Values]
      /\ stack_count' \in 0 .. MaxVmStackValues
  BY <1>3, <1>4, <1>5, PopPushType, VmAssumption DEF VmAssumption
<1> QED
  BY <1>1, <1>6 DEF TypeOK, ExecuteUnary

(* Jumps, taken or not: a target is a natural number. *)
LEMMA JumpKeepsType == TypeOK /\ Jump => TypeOK'
<1> SUFFICES ASSUME TypeOK, Jump PROVE TypeOK'
  OBVIOUS
<1>1. Instruction \in Instructions /\ running
  BY CurrentFrame DEF Jump, Executing
<1>2. Instruction.operand \in Nat
  BY <1>1 DEF Instructions
<1>3. frames' \in [0 .. MaxVmFrames - 1 -> Frames]
  BY <1>1, <1>2, AdvanceType, GoToType DEF Jump
<1>4. stack_count' \in 0 .. MaxVmStackValues
  <2>1. CASE Instruction.op = "JUMP"
    BY <2>1 DEF Jump, TypeOK
  <2>2. CASE Instruction.op # "JUMP"
    <3>1. stack_count # 0
      BY <2>2, FaultOf DEF Jump, Executing, JumpFault, JumpOps
    <3> QED
      BY <2>2, <3>1, VmAssumption DEF VmAssumption, Jump, TypeOK
  <2> QED
    BY <2>1, <2>2
<1> QED
  BY <1>3, <1>4 DEF TypeOK, Jump

(* Storing a global. *)
LEMMA SetGlobalKeepsType == TypeOK /\ SetGlobal => TypeOK'
<1> SUFFICES ASSUME TypeOK, SetGlobal PROVE TypeOK'
  OBVIOUS
<1>1. frames' \in [0 .. MaxVmFrames - 1 -> Frames]
  BY AdvanceType DEF SetGlobal, Executing
<1>2. stack_count > 0
  BY FaultOf DEF SetGlobal, Executing, PopFault
<1>3. Peek(0) \in Values
  BY <1>2, PeekType
<1>4. stack_count' \in 0 .. MaxVmStackValues
  BY <1>2, VmAssumption DEF VmAssumption, TypeOK, SetGlobal
<1>5. globals' \in [0 .. MaxVmGlobals - 1 -> Values]
  BY <1>3 DEF TypeOK, SetGlobal
<1> QED
  BY <1>1, <1>4, <1>5 DEF TypeOK, SetGlobal

(* Storing a local. *)
LEMMA SetLocalKeepsType == TypeOK /\ SetLocal => TypeOK'
<1> SUFFICES ASSUME TypeOK, SetLocal PROVE TypeOK'
  OBVIOUS
<1>1. frames' \in [0 .. MaxVmFrames - 1 -> Frames]
  BY AdvanceType DEF SetLocal, Executing
<1>2. stack_count > 0
  BY FaultOf DEF SetLocal, Executing, PopFault
<1>3. Peek(0) \in Values
  BY <1>2, PeekType
<1>4. stack_count' \in 0 .. MaxVmStackValues
  BY <1>2, VmAssumption DEF VmAssumption, TypeOK, SetLocal
<1>5. stack' \in [0 .. MaxVmStackValues - 1 -> Values]
  BY <1>3 DEF TypeOK, SetLocal
<1> QED
  BY <1>1, <1>4, <1>5 DEF TypeOK, SetLocal

(* vm_push_closure: the count stays within the closures there are. *)
LEMMA PushClosureKeepsType == TypeOK /\ PushClosure => TypeOK'
<1> SUFFICES ASSUME TypeOK, PushClosure PROVE TypeOK'
  OBVIOUS
<1> DEFINE count == Instruction.operand2
           first == stack_count - count
           function == functions[constants[Instruction.operand + 1].data]
           captured == [k \in 1 .. count |-> stack[first + k - 1]]
<1>1. frames' \in [0 .. MaxVmFrames - 1 -> Frames]
  BY AdvanceType DEF PushClosure, Executing
<1>2. /\ Instruction \in Instructions
      /\ Instruction.op = "CLOSURE"
      /\ ClosureFault(Instruction) = "none"
  BY CurrentFrame, FaultOf DEF PushClosure, Executing
<1>3. Instruction.operand \in Nat /\ count \in Nat
  BY <1>2 DEF Instructions
<1>4. /\ ~(Instruction.operand >= Len(constants))
      /\ constants[Instruction.operand + 1].type = "COMPILED_FUNCTION"
      /\ ~(stack_count < count)
      /\ ~(closure_count >= MaxVmClosures)
      /\ count = 0 => stack_count < MaxVmStackValues
  BY <1>2 DEF ClosureFault, PushFault
<1>5. stack_count \in 0 .. MaxVmStackValues /\ closure_count \in 0 .. MaxVmClosures
  BY DEF TypeOK
<1>6. /\ count <= stack_count
      /\ stack_count - count < MaxVmStackValues
      /\ closure_count + 1 \in 0 .. MaxVmClosures
  BY <1>3, <1>4, <1>5, VmAssumption DEF VmAssumption
<1>7. function \in CompiledFunctions
  <2>1. constants[Instruction.operand + 1].data \in 1 .. Len(functions)
    BY <1>3, <1>4 DEF TypeOK, IsBytecode
  <2> QED
    BY <2>1 DEF TypeOK, IsBytecode
<1>8. captured \in Seq(Values)
  <2>1. ASSUME NEW k \in 1 .. count
        PROVE  stack[first + k - 1] \in Values
    <3>1. first + k - 1 \in 0 .. MaxVmStackValues - 1
      BY <1>3, <1>5, <1>6, VmAssumption DEF VmAssumption
    <3> QED
      BY <3>1 DEF TypeOK
  <2> QED
    BY <1>3, <2>1
<1>9. closures' \in [0 .. MaxVmClosures -> Closures]
  <2>1. [function |-> function, free_values |-> captured] \in Closures
    BY <1>7, <1>8 DEF Closures
  <2>2. closures' = [closures EXCEPT ![closure_count + 1] =
                       [function |-> function, free_values |-> captured]]
    BY DEF PushClosure
  <2> HIDE DEF function, captured
  <2> QED
    BY <2>1, <2>2 DEF TypeOK
<1>10. ClosureValue(closure_count + 1) \in Values
  BY <1>5 DEF ClosureValue, Values, ValueTypes
<1>11. /\ stack' \in [0 .. MaxVmStackValues - 1 -> Values]
       /\ stack_count' \in 0 .. MaxVmStackValues
  BY <1>3, <1>6, <1>10, PopPushType DEF PushClosure
<1>12. closure_count' \in 0 .. MaxVmClosures
  BY <1>6 DEF PushClosure
<1> QED
  BY <1>1, <1>9, <1>11, <1>12 DEF TypeOK, PushClosure

(* What vm_call finds when none of its PANICs fires. *)
LEMMA CallFacts ==
  ASSUME TypeOK, Executing({"CALL"}), ValuesSound
  PROVE  LET closure == Peek(Instruction.operand).data
             base == stack_count - Instruction.operand
         IN /\ Instruction.operand \in Nat
            /\ closure \in 0 .. closure_count
            /\ closure \in 0 .. MaxVmClosures
            /\ closures[closure].function \in CompiledFunctions
            /\ Instruction.operand
                 = closures[closure].function.parameter_count
            /\ base \in 1 .. MaxVmStackValues
            /\ base + closures[closure].function.local_count
                 \in 0 .. MaxVmStackValues
            /\ frame_count \in 1 .. MaxVmFrames - 1
<1> DEFINE arguments == Instruction.operand
           closure == Peek(arguments).data
           callee == closures[closure].function
<1>1. /\ Instruction \in Instructions
      /\ Instruction.op = "CALL"
      /\ CallFault(Instruction) = "none"
      /\ frame_count \in 1 .. MaxVmFrames
  BY CurrentFrame, FaultOf DEF Executing
<1>2. arguments \in Nat
  BY <1>1 DEF Instructions
<1>3. /\ ~(stack_count < arguments + 1)
      /\ Peek(arguments).type = "CLOSURE"
      /\ arguments = callee.parameter_count
      /\ ~(frame_count >= MaxVmFrames)
      /\ ~(stack_count - arguments + callee.local_count > MaxVmStackValues)
  BY <1>1 DEF CallFault
<1>4. stack_count \in 0 .. MaxVmStackValues /\ closure_count \in 0 .. MaxVmClosures
  BY DEF TypeOK
<1>5. stack_count - arguments \in 1 .. MaxVmStackValues
  BY <1>2, <1>3, <1>4, VmAssumption DEF VmAssumption
<1>6. stack_count - 1 - arguments \in 0 .. MaxVmStackValues - 1
  BY <1>2, <1>5, <1>4, VmAssumption DEF VmAssumption
<1>7. closure \in 0 .. closure_count
  BY <1>3, <1>6 DEF ValuesSound, Sound, Peek
<1>8. closure \in 0 .. MaxVmClosures
  BY <1>4, <1>7, VmAssumption DEF VmAssumption
<1>9. callee \in CompiledFunctions
  BY <1>8 DEF TypeOK, Closures
<1>10. callee.local_count \in Nat
  BY <1>9 DEF CompiledFunctions
<1>11. stack_count - arguments + callee.local_count \in 0 .. MaxVmStackValues
  <2> HIDE DEF callee
  <2> QED
    BY <1>3, <1>5, <1>10, VmAssumption DEF VmAssumption
<1>12. frame_count \in 1 .. MaxVmFrames - 1
  BY <1>1, <1>3, VmAssumption DEF VmAssumption
<1> QED
  BY <1>2, <1>3, <1>5, <1>7, <1>8, <1>9, <1>11, <1>12

(* vm_call: the frame it writes is a frame. *)
LEMMA CallKeepsType == TypeOK /\ ValuesSound /\ Call => TypeOK'
<1> SUFFICES ASSUME TypeOK, ValuesSound, Call PROVE TypeOK'
  OBVIOUS
<1> DEFINE arguments == Instruction.operand
           closure == Peek(arguments).data
           base == stack_count - arguments
           top == base + closures[closure].function.local_count
<1>1. /\ closure \in 0 .. MaxVmClosures
      /\ base \in 1 .. MaxVmStackValues
      /\ top \in 0 .. MaxVmStackValues
      /\ frame_count \in 1 .. MaxVmFrames - 1
  BY CallFacts DEF Call, ArgumentBase
<1>2. /\ stack' = [k \in 0 .. MaxVmStackValues - 1 |->
                     IF k \in base + arguments .. top - 1 THEN Null ELSE stack[k]]
      /\ stack_count' = top
      /\ frames' = [frames EXCEPT
           ![frame_count - 1].instruction_pointer = @ + 1,
           ![frame_count] = [closure |-> closure, instruction_pointer |-> 0,
                             base_pointer |-> base]]
      /\ frame_count' = frame_count + 1
  BY DEF Call, ArgumentBase
<1> HIDE DEF arguments, closure, base, top
<1>3. stack' \in [0 .. MaxVmStackValues - 1 -> Values]
  BY <1>2 DEF TypeOK, Null, Values, ValueTypes
<1>4. frames' \in [0 .. MaxVmFrames - 1 -> Frames]
  <2>1. frame_count - 1 \in 0 .. MaxVmFrames - 1
    BY <1>1, VmAssumption DEF VmAssumption
  <2>2. [frames EXCEPT ![frame_count - 1].instruction_pointer = @ + 1]
          \in [0 .. MaxVmFrames - 1 -> Frames]
    BY <2>1 DEF TypeOK, Frames
  <2>3. [closure |-> closure, instruction_pointer |-> 0, base_pointer |-> base]
          \in Frames
    BY <1>1, VmAssumption DEF VmAssumption, Frames
  <2> QED
    BY <1>2, <2>2, <2>3
<1>5. /\ frame_count' \in 0 .. MaxVmFrames
      /\ frame_count' > 0
      /\ stack_count' \in 0 .. MaxVmStackValues
  BY <1>1, <1>2, VmAssumption DEF VmAssumption
<1> QED
  BY <1>3, <1>4, <1>5 DEF TypeOK, Call, ArgumentBase

(* What a function returns is a value. *)
LEMMA ReturnedType ==
  ASSUME TypeOK, Executing(ReturnOps)
  PROVE  ReturnedValue \in Values
<1>1. Instruction.op = "RETURN_VALUE" => stack_count # 0
  BY FaultOf DEF Executing, ReturnFault
<1>2. stack_count \in 0 .. MaxVmStackValues
  BY DEF TypeOK
<1>3. Instruction.op = "RETURN_VALUE" => Peek(0) \in Values
  BY <1>1, <1>2, PeekType, VmAssumption DEF VmAssumption
<1> QED
  BY <1>3 DEF ReturnedValue, Executing, ReturnOps, Null, Values, ValueTypes

(* vm_return in the main frame. *)
LEMMA ReturnFromMainKeepsType == TypeOK /\ ReturnFromMain => TypeOK'
<1> SUFFICES ASSUME TypeOK, ReturnFromMain PROVE TypeOK'
  OBVIOUS
<1>1. frames' \in [0 .. MaxVmFrames - 1 -> Frames]
  BY AdvanceType DEF ReturnFromMain, Executing
<1>2. ReturnedValue \in Values
  BY ReturnedType DEF ReturnFromMain
<1>3. /\ stack_count' \in 0 .. MaxVmStackValues
      /\ frame_count' \in 0 .. MaxVmFrames
      /\ running' = FALSE
  BY VmAssumption DEF VmAssumption, ReturnFromMain
<1> QED
  BY <1>1, <1>2, <1>3 DEF TypeOK, ReturnFromMain

(* vm_return in any other frame. *)
LEMMA ReturnToCallerKeepsType == TypeOK /\ ReturnToCaller => TypeOK'
<1> SUFFICES ASSUME TypeOK, ReturnToCaller PROVE TypeOK'
  OBVIOUS
<1>1. frames' \in [0 .. MaxVmFrames - 1 -> Frames]
  BY AdvanceType DEF ReturnToCaller, Executing
<1>2. ReturnedValue \in Values
  BY ReturnedType DEF ReturnToCaller
<1>3. Frame.base_pointer \in 0 .. MaxVmStackValues
  BY CurrentFrame DEF ReturnToCaller, Executing, Frames
<1>4. stack' \in [0 .. MaxVmStackValues - 1 -> Values]
  BY <1>2 DEF TypeOK, ReturnToCaller
<1>5. frame_count' \in 0 .. MaxVmFrames /\ frame_count' > 0
  BY VmAssumption DEF VmAssumption, TypeOK, ReturnToCaller
<1> QED
  BY <1>1, <1>3, <1>4, <1>5 DEF TypeOK, ReturnToCaller

(* Leaving the loop at the end of the main code. *)
LEMMA FinishKeepsType == TypeOK /\ Finish => TypeOK'
BY DEF TypeOK, Finish

(* Every PANIC is one of those named. *)
LEMMA FaultType ==
  ASSUME NEW i \in Instructions
  PROVE  Fault(i) \in VmFaults \union {"none"}
<1>1. LoadFault(i) \in VmFaults \union {"none"}
  BY DEF LoadFault, PushFault, VmFaults, InternalFaults, CapacityFaults
<1>2. PopFault \in VmFaults \union {"none"}
  BY DEF PopFault, VmFaults, InternalFaults
<1>3. BinaryFault(i.op, Peek(1), Peek(0)) \in VmFaults \union {"none"}
  BY DEF BinaryFault, IntegerFault, VmFaults, ProgramFaults
<1>4. UnaryFault(i) \in VmFaults \union {"none"}
  BY DEF UnaryFault, VmFaults, InternalFaults, ProgramFaults
<1>5. JumpFault(i) \in VmFaults \union {"none"}
  BY DEF JumpFault, VmFaults, InternalFaults
<1>6. ClosureFault(i) \in VmFaults \union {"none"}
  BY DEF ClosureFault, PushFault, VmFaults, InternalFaults, CapacityFaults
<1>7. CallFault(i) \in VmFaults \union {"none"}
  BY DEF CallFault, VmFaults, InternalFaults, ProgramFaults, CapacityFaults
<1>8. ReturnFault(i) \in VmFaults \union {"none"}
  BY DEF ReturnFault, VmFaults, InternalFaults
<1>9. {"stack underflow", "global index", "local index"} \subseteq VmFaults
  BY DEF VmFaults, InternalFaults
<1>10. i.op \in LoadOps \union BinaryOps \union UnaryOps \union JumpOps
                \union ReturnOps
                \union {"POP", "SET_GLOBAL", "SET_LOCAL", "CLOSURE", "CALL"}
  BY DEF Instructions, OpCodes
<1> QED
  BY <1>1, <1>2, <1>3, <1>4, <1>5, <1>6, <1>7, <1>8, <1>9, <1>10, FaultOf

(* A PANIC stops the machine with one of the faults there are. *)
LEMMA AbortKeepsType == TypeOK /\ Abort => TypeOK'
<1> SUFFICES ASSUME TypeOK, Abort PROVE TypeOK'
  OBVIOUS
<1>1. StepFault \in VmFaults \union {"none"}
  <2>1. CASE AtEnd
    BY <2>1 DEF StepFault, VmFaults, InternalFaults
  <2>2. CASE ~AtEnd
    BY <2>2, CurrentFrame, FaultType DEF StepFault, Abort
  <2> QED
    BY <2>1, <2>2
<1> QED
  BY <1>1 DEF TypeOK, Abort

(* The part of vm_run before the loop. *)
LEMMA RunLineKeepsType == TypeOK /\ RunLine => TypeOK'
<1> SUFFICES ASSUME TypeOK, RunLine PROVE TypeOK'
  OBVIOUS
<1>1. PICK b \in Bytecodes : VmRun(b)
  BY DEF RunLine
<1>2. IsBytecode(b)
  BY BytecodesAssumption
<1>3. IsBytecode([instructions |-> << >>, constants |-> constants,
                  functions |-> functions])'
  BY <1>1, <1>2 DEF IsBytecode, VmRun
<1>4. closures' \in [0 .. MaxVmClosures -> Closures]
  <2>1. [NoFunction EXCEPT !.instructions = b.instructions] \in CompiledFunctions
    BY <1>2 DEF IsBytecode, NoFunction, CompiledFunctions
  <2>2. [function |-> [NoFunction EXCEPT !.instructions = b.instructions],
         free_values |-> << >>] \in Closures
    BY <2>1 DEF Closures
  <2> QED
    BY <1>1, <2>2 DEF TypeOK, VmRun
<1>5. frames' \in [0 .. MaxVmFrames - 1 -> Frames]
  <2>1. [closure |-> 0, instruction_pointer |-> 0, base_pointer |-> 0] \in Frames
    BY VmAssumption DEF VmAssumption, Frames
  <2> QED
    BY <1>1, <2>1 DEF TypeOK, VmRun
<1>6. /\ running' = TRUE
      /\ frame_count' \in 0 .. MaxVmFrames
      /\ frame_count' > 0
      /\ stack_count' \in 0 .. MaxVmStackValues
      /\ last_popped' \in Values
      /\ UNCHANGED <<panic, stack, globals, closure_count>>
  BY <1>1, VmAssumption DEF VmAssumption, VmRun, Null, Values, ValueTypes
<1> QED
  BY <1>3, <1>4, <1>5, <1>6 DEF TypeOK

(* vm_init. *)
LEMMA InitType == VmInit => TypeOK
<1> SUFFICES ASSUME VmInit PROVE TypeOK
  OBVIOUS
<1>1. Null \in Values
  BY DEF Null, Values, ValueTypes
<1>2. /\ stack \in [0 .. MaxVmStackValues - 1 -> Values]
      /\ globals \in [0 .. MaxVmGlobals - 1 -> Values]
      /\ last_popped \in Values
  BY <1>1 DEF VmInit
<1>3. frames \in [0 .. MaxVmFrames - 1 -> Frames]
  BY VmAssumption DEF VmAssumption, VmInit, Frames
<1>4. closures \in [0 .. MaxVmClosures -> Closures]
  BY DEF VmInit, Closures, CompiledFunctions, NoFunction
<1>5. IsBytecode([instructions |-> << >>, constants |-> constants,
                  functions |-> functions])
  BY DEF VmInit, IsBytecode
<1>6. /\ stack_count \in 0 .. MaxVmStackValues
      /\ frame_count \in 0 .. MaxVmFrames
      /\ closure_count \in 0 .. MaxVmClosures
      /\ running = FALSE
      /\ panic = "none"
  BY VmAssumption DEF VmAssumption, VmInit
<1> QED
  BY <1>2, <1>3, <1>4, <1>5, <1>6 DEF TypeOK

(* Every step keeps the types; a call needs sound closures for it. *)
LEMMA NextKeepsType == TypeOK /\ ValuesSound /\ [Next]_vmVars => TypeOK'
<1> SUFFICES ASSUME TypeOK, ValuesSound, [Next]_vmVars PROVE TypeOK'
  OBVIOUS
<1>1. CASE RunLine
  BY <1>1, RunLineKeepsType
<1>2. CASE Load \/ Pop \/ ExecuteBinary \/ ExecuteUnary \/ Jump
  BY <1>2, LoadKeepsType, PopKeepsType, ExecuteBinaryKeepsType,
     ExecuteUnaryKeepsType, JumpKeepsType
<1>3. CASE SetGlobal \/ SetLocal \/ PushClosure \/ Call
  BY <1>3, SetGlobalKeepsType, SetLocalKeepsType, PushClosureKeepsType,
     CallKeepsType
<1>4. CASE ReturnFromMain \/ ReturnToCaller \/ Finish \/ Abort
  BY <1>4, ReturnFromMainKeepsType, ReturnToCallerKeepsType, FinishKeepsType,
     AbortKeepsType
<1>5. CASE UNCHANGED vmVars
  BY <1>5 DEF TypeOK, vmVars
<1> QED
  BY <1>1, <1>2, <1>3, <1>4, <1>5 DEF Next, VmStep

-----------------------------------------------------------------------------
(* Every value is sound *)

(* A value stays sound when more closures are allocated. *)
LEMMA SoundMonotone ==
  ASSUME NEW n \in Nat, NEW m \in Nat, n <= m, NEW v, Sound(v, n)
  PROVE  Sound(v, m)
BY DEF Sound

(* A step that allocates no closure keeps every value sound if those it
   writes are. *)
LEMMA SoundKept ==
  ASSUME TypeOK, ValuesSound, UNCHANGED <<closures, closure_count>>,
         \A k \in 0 .. MaxVmStackValues - 1 : Sound(stack'[k], closure_count),
         \A k \in 0 .. MaxVmGlobals - 1 : Sound(globals'[k], closure_count),
         Sound(last_popped', closure_count),
         \A k \in 0 .. MaxVmFrames - 1 : frames'[k].closure \in 0 .. closure_count
  PROVE  ValuesSound'
BY DEF ValuesSound

(* Moving an instruction pointer changes no frame's closure. *)
LEMMA GoToSound ==
  ASSUME TypeOK, ValuesSound, NEW ip, GoTo(ip)
  PROVE  \A k \in 0 .. MaxVmFrames - 1 :
           frames'[k].closure \in 0 .. closure_count
<1> SUFFICES ASSUME NEW k \in 0 .. MaxVmFrames - 1
             PROVE  frames'[k].closure = frames[k].closure
  BY DEF ValuesSound
<1>1. frames[k] \in Frames
  BY DEF TypeOK
<1> QED
  BY <1>1 DEF GoTo, Frames, TypeOK

(* What is looked at below the top of the stack is sound. *)
LEMMA PeekSound ==
  ASSUME TypeOK, ValuesSound, NEW n \in Nat, n < stack_count
  PROVE  Sound(Peek(n), closure_count)
<1>1. stack_count - 1 - n \in 0 .. MaxVmStackValues - 1
  BY VmAssumption DEF VmAssumption, TypeOK
<1> QED
  BY <1>1 DEF Peek, ValuesSound

(* Pushing a sound value leaves a sound stack. *)
LEMMA PopPushSound ==
  ASSUME TypeOK, ValuesSound, NEW pops \in Nat, NEW v, PopPush(pops, v),
         Sound(v, closure_count)
  PROVE  \A k \in 0 .. MaxVmStackValues - 1 : Sound(stack'[k], closure_count)
BY DEF PopPush, ValuesSound, TypeOK

(* No result wraps around. *)
LEMMA BinarySound ==
  ASSUME NEW op \in BinaryOps, NEW n \in Nat,
         NEW left, Sound(left, n), NEW right, Sound(right, n),
         BinaryFault(op, left, right) = "none"
  PROVE  Sound(Binary(op, left, right), n)
<1>1. left \in Values /\ right \in Values
  BY DEF Sound
<1>2. Binary(op, left, right) \in Values
  BY <1>1, BinaryType
<1>3. CASE op \in ArithmeticOps
  <2>1. left.type = "INT" /\ right.type = "INT"
    BY <1>3 DEF BinaryFault, ArithmeticOps
  <2>2. left.data \in MinInt .. MaxInt /\ right.data \in MinInt .. MaxInt
    BY <2>1 DEF Sound
  <2>3. IntegerFault(op, left.data, right.data) = "none"
    BY <2>1 DEF BinaryFault
  <2>4. Arithmetic(op, left.data, right.data) \in MinInt .. MaxInt
    <3>1. CASE op = "DIVIDE"
      <4>1. right.data # 0 /\ ~(left.data = MinInt /\ right.data = -1)
        BY <2>3, <3>1 DEF IntegerFault
      <4>2. Arithmetic(op, left.data, right.data) = Quotient(left.data, right.data)
        BY <3>1 DEF Arithmetic
      <4> DEFINE l == left.data
                 r == right.data
      <4>3. l \in Int /\ r \in Int \ {0}
        BY <1>1, <4>1 DEF Values
      <4> HIDE DEF l, r
      <4>4. /\ Quotient(l, r) \in Int
            /\ -Magnitude(l) <= Quotient(l, r)
            /\ Quotient(l, r) <= Magnitude(l)
            /\ Quotient(l, r) = Magnitude(l) /\ l < 0 => r = -1
        BY <4>3, QuotientType
      <4>5. l \in MinInt .. MaxInt /\ ~(l = MinInt /\ r = -1)
        BY <2>2, <4>1 DEF l, r
      <4>6. Quotient(l, r) \in MinInt .. MaxInt
        BY <4>3, <4>4, <4>5, VmAssumption DEF VmAssumption, MinInt, Magnitude
      <4> QED
        BY <4>2, <4>6 DEF l, r
    <3>2. CASE op # "DIVIDE"
      BY <1>3, <2>3, <3>2 DEF IntegerFault
    <3> QED
      BY <3>1, <3>2
  <2> QED
    BY <1>2, <1>3, <2>4 DEF Binary, IntegerValue, Sound
<1>4. CASE op \notin ArithmeticOps
  BY <1>2, <1>4 DEF Binary, BooleanValue, Sound
<1> QED
  BY <1>3, <1>4

(* Every value an instruction can load is sound. *)
LEMMA LoadedSound ==
  ASSUME TypeOK, ValuesSound, Executing(LoadOps)
  PROVE  Sound(Loaded(Instruction), closure_count)
<1> DEFINE i == Instruction
<1>1. /\ i \in Instructions
      /\ Frame \in Frames
      /\ Frame.closure \in 0 .. MaxVmClosures
      /\ closures[Frame.closure] \in Closures
  BY CurrentFrame DEF Executing, Frames, TypeOK
<1>2. i.op \in LoadOps /\ LoadFault(i) = "none"
  BY FaultOf DEF Executing
<1>3. i.operand \in Nat
  BY <1>1 DEF Instructions
<1>4. CASE i.op = "CONSTANT"
  <2>1. i.operand + 1 \in 1 .. Len(constants)
    BY <1>2, <1>3, <1>4 DEF LoadFault, TypeOK, IsBytecode
  <2>2. /\ constants[i.operand + 1] \in Values
        /\ \/ /\ constants[i.operand + 1].type = "INT"
              /\ constants[i.operand + 1].data \in MinInt .. MaxInt
           \/ constants[i.operand + 1].type = "COMPILED_FUNCTION"
    BY <2>1 DEF TypeOK, IsBytecode
  <2>3. Sound(constants[i.operand + 1], closure_count)
    BY <2>2 DEF Sound
  <2> QED
    BY <1>4, <2>3 DEF Loaded
<1>5. CASE i.op \in {"NULL", "TRUE", "FALSE"}
  <2>1. Loaded(i) \in {Null, BooleanValue(TRUE), BooleanValue(FALSE)}
    BY <1>5 DEF Loaded
  <2> QED
    BY <2>1 DEF Null, BooleanValue, Values, ValueTypes, Sound
<1>6. CASE i.op = "CURRENT_CLOSURE"
  <2>1. Frame.closure \in 0 .. closure_count
    BY CurrentFrame DEF Executing, Frame, ValuesSound
  <2>2. Sound(ClosureValue(Frame.closure), closure_count)
    BY <2>1 DEF ClosureValue, Values, ValueTypes, Sound, TypeOK
  <2> QED
    BY <1>6, <2>2 DEF Loaded
<1>7. CASE i.op = "GET_GLOBAL"
  <2>1. i.operand \in 0 .. MaxVmGlobals - 1
    BY <1>2, <1>3, <1>7, VmAssumption DEF LoadFault, VmAssumption
  <2> QED
    BY <1>7, <2>1 DEF Loaded, ValuesSound
<1>8. CASE i.op = "GET_LOCAL"
  <2> HIDE DEF i
  <2>1. ~(Frame.base_pointer + i.operand >= stack_count)
    BY <1>2, <1>8 DEF LoadFault
  <2>2. /\ Frame.base_pointer \in Nat
        /\ stack_count \in 0 .. MaxVmStackValues
    BY <1>1, VmAssumption DEF VmAssumption, Frames, TypeOK
  <2>3. Frame.base_pointer + i.operand \in 0 .. MaxVmStackValues - 1
    BY <1>3, <2>1, <2>2, VmAssumption DEF VmAssumption
  <2> QED
    BY <1>8, <2>3 DEF Loaded, ValuesSound, i
<1>9. CASE i.op = "GET_FREE"
  <2>1. i.operand + 1 \in 1 .. Len(closures[Frame.closure].free_values)
    BY <1>1, <1>2, <1>3, <1>9 DEF LoadFault, Closures
  <2> QED
    BY <1>1, <1>9, <2>1 DEF Loaded, ValuesSound
<1> QED
  BY <1>2, <1>4, <1>5, <1>6, <1>7, <1>8, <1>9 DEF LoadOps

(* Loading copies sound values. *)
LEMMA LoadKeepsSound == TypeOK /\ ValuesSound /\ Load => ValuesSound'
<1> SUFFICES ASSUME TypeOK, ValuesSound, Load PROVE ValuesSound'
  OBVIOUS
<1>1. \A k \in 0 .. MaxVmStackValues - 1 : Sound(stack'[k], closure_count)
  BY LoadedSound, PopPushSound DEF Load
<1> QED
  BY <1>1, GoToSound, SoundKept DEF Load, Advance, ValuesSound

(* The last popped value was on the stack. *)
LEMMA PopKeepsSound == TypeOK /\ ValuesSound /\ Pop => ValuesSound'
<1> SUFFICES ASSUME TypeOK, ValuesSound, Pop PROVE ValuesSound'
  OBVIOUS
<1>1. stack_count > 0
  BY FaultOf DEF Pop, Executing, PopFault
<1>2. Sound(last_popped', closure_count)
  BY <1>1, PeekSound DEF Pop
<1> QED
  BY <1>2, GoToSound, SoundKept DEF Pop, Advance, ValuesSound

(* The result of a binary operator fits, because its overflow was refused. *)
LEMMA ExecuteBinaryKeepsSound ==
  TypeOK /\ ValuesSound /\ ExecuteBinary => ValuesSound'
<1> SUFFICES ASSUME TypeOK, ValuesSound, ExecuteBinary PROVE ValuesSound'
  OBVIOUS
<1>1. /\ Instruction.op \in BinaryOps
      /\ ~(stack_count < 2)
      /\ BinaryFault(Instruction.op, Peek(1), Peek(0)) = "none"
  BY FaultOf DEF ExecuteBinary, Executing
<1>2. stack_count \in 2 .. MaxVmStackValues /\ closure_count \in Nat
  BY <1>1, VmAssumption DEF VmAssumption, TypeOK
<1>3. Sound(Peek(1), closure_count) /\ Sound(Peek(0), closure_count)
  BY <1>2, PeekSound
<1>4. Sound(Binary(Instruction.op, Peek(1), Peek(0)), closure_count)
  BY <1>1, <1>2, <1>3, BinarySound
<1>5. \A k \in 0 .. MaxVmStackValues - 1 : Sound(stack'[k], closure_count)
  BY <1>4, PopPushSound DEF ExecuteBinary
<1> QED
  BY <1>5, GoToSound, SoundKept DEF ExecuteBinary, Advance, ValuesSound

(* So does a negation, because MinInt was refused. *)
LEMMA ExecuteUnaryKeepsSound ==
  TypeOK /\ ValuesSound /\ ExecuteUnary => ValuesSound'
<1> SUFFICES ASSUME TypeOK, ValuesSound, ExecuteUnary PROVE ValuesSound'
  OBVIOUS
<1>1. /\ Instruction.op \in UnaryOps
      /\ stack_count # 0
      /\ Instruction.op # "BANG" =>
           Peek(0).type = "INT" /\ Peek(0).data # MinInt
  BY FaultOf DEF ExecuteUnary, Executing, UnaryFault
<1>2. stack_count \in 1 .. MaxVmStackValues
  BY <1>1, VmAssumption DEF VmAssumption, TypeOK
<1>3. Sound(Peek(0), closure_count)
  BY <1>2, PeekSound
<1>4. Sound(BooleanValue(~Truthy(Peek(0))), closure_count)
  BY DEF BooleanValue, Sound, Values, ValueTypes
<1>5. ASSUME Instruction.op # "BANG"
      PROVE  Sound(IntegerValue(-Peek(0).data), closure_count)
  <2>1. Peek(0).data \in MinInt .. MaxInt /\ Peek(0).data # MinInt
    BY <1>1, <1>3, <1>5 DEF Sound
  <2>2. -Peek(0).data \in MinInt .. MaxInt
    BY <2>1, VmAssumption DEF VmAssumption, MinInt
  <2> QED
    BY <2>2, VmAssumption
       DEF VmAssumption, MinInt, IntegerValue, Sound, Values, ValueTypes
<1>6. \A k \in 0 .. MaxVmStackValues - 1 : Sound(stack'[k], closure_count)
  BY <1>4, <1>5, PopPushSound DEF ExecuteUnary
<1> QED
  BY <1>6, GoToSound, SoundKept DEF ExecuteUnary, Advance, ValuesSound

(* Jumps move no value. *)
LEMMA JumpKeepsSound == TypeOK /\ ValuesSound /\ Jump => ValuesSound'
<1> SUFFICES ASSUME TypeOK, ValuesSound, Jump PROVE ValuesSound'
  OBVIOUS
<1>1. \A k \in 0 .. MaxVmFrames - 1 : frames'[k].closure \in 0 .. closure_count
  BY GoToSound DEF Jump, Advance
<1> QED
  BY <1>1, SoundKept DEF Jump, ValuesSound

(* A global gets a value of the stack. *)
LEMMA SetGlobalKeepsSound == TypeOK /\ ValuesSound /\ SetGlobal => ValuesSound'
<1> SUFFICES ASSUME TypeOK, ValuesSound, SetGlobal PROVE ValuesSound'
  OBVIOUS
<1>1. stack_count > 0
  BY FaultOf DEF SetGlobal, Executing, PopFault
<1>2. Sound(Peek(0), closure_count)
  BY <1>1, PeekSound
<1>3. \A k \in 0 .. MaxVmGlobals - 1 : Sound(globals'[k], closure_count)
  BY <1>2 DEF SetGlobal, ValuesSound, TypeOK
<1> QED
  BY <1>3, GoToSound, SoundKept DEF SetGlobal, Advance, ValuesSound

(* A local gets a value of the stack. *)
LEMMA SetLocalKeepsSound == TypeOK /\ ValuesSound /\ SetLocal => ValuesSound'
<1> SUFFICES ASSUME TypeOK, ValuesSound, SetLocal PROVE ValuesSound'
  OBVIOUS
<1>1. stack_count > 0
  BY FaultOf DEF SetLocal, Executing, PopFault
<1>2. Sound(Peek(0), closure_count)
  BY <1>1, PeekSound
<1>3. \A k \in 0 .. MaxVmStackValues - 1 : Sound(stack'[k], closure_count)
  BY <1>2 DEF SetLocal, ValuesSound, TypeOK
<1> QED
  BY <1>3, GoToSound, SoundKept DEF SetLocal, Advance, ValuesSound

(* A new closure captures values of the stack, and its number is allocated. *)
LEMMA PushClosureKeepsSound ==
  TypeOK /\ ValuesSound /\ PushClosure => ValuesSound'
<1> SUFFICES ASSUME TypeOK, ValuesSound, PushClosure PROVE ValuesSound'
  OBVIOUS
<1> DEFINE count == Instruction.operand2
           first == stack_count - count
           captured == [k \in 1 .. count |-> stack[first + k - 1]]
<1>1. /\ Instruction \in Instructions
      /\ ClosureFault(Instruction) = "none"
  BY CurrentFrame, FaultOf DEF PushClosure, Executing
<1>2. count \in Nat
  BY <1>1 DEF Instructions
<1>3. ~(stack_count < count) /\ ~(closure_count >= MaxVmClosures)
  BY <1>1 DEF ClosureFault
<1>4. /\ stack_count \in 0 .. MaxVmStackValues
      /\ closure_count \in Nat
      /\ closure_count + 1 \in 1 .. MaxVmClosures
  BY <1>3, VmAssumption DEF VmAssumption, TypeOK
<1>5. /\ closure_count' = closure_count + 1
      /\ PopPush(count, ClosureValue(closure_count + 1))
      /\ UNCHANGED <<globals, last_popped>>
      /\ GoTo(Frame.instruction_pointer + 1)
  BY DEF PushClosure, Advance
<1>6. \E function :
        closures' = [closures EXCEPT ![closure_count + 1] =
                       [function |-> function, free_values |-> captured]]
  BY DEF PushClosure
<1>7. ASSUME NEW v, Sound(v, closure_count)
      PROVE  Sound(v, closure_count')
  BY <1>4, <1>5, <1>7, SoundMonotone
<1>8. ASSUME NEW k \in 1 .. count
      PROVE  Sound(stack[first + k - 1], closure_count)
  <2>1. first + k - 1 \in 0 .. MaxVmStackValues - 1
    BY <1>2, <1>3, <1>4, VmAssumption DEF VmAssumption
  <2> QED
    BY <2>1 DEF ValuesSound
<1>9. \A k \in 0 .. MaxVmStackValues - 1 : Sound(stack'[k], closure_count')
  <2>1. Sound(ClosureValue(closure_count + 1), closure_count')
    BY <1>4, <1>5 DEF ClosureValue, Values, ValueTypes, Sound
  <2> QED
    BY <1>5, <1>7, <2>1 DEF PopPush, ValuesSound, TypeOK
<1>10. \A c \in 0 .. MaxVmClosures :
         \A k \in 1 .. Len(closures'[c].free_values) :
           Sound(closures'[c].free_values[k], closure_count')
  <2> SUFFICES ASSUME NEW c \in 0 .. MaxVmClosures,
                      NEW k \in 1 .. Len(closures'[c].free_values)
               PROVE  Sound(closures'[c].free_values[k], closure_count')
    OBVIOUS
  <2>1. CASE c = closure_count + 1
    <3>1. closures'[c].free_values = captured
      BY <1>6, <2>1 DEF TypeOK
    <3>2. Len(captured) = count
      BY <1>2
    <3>3. k \in 1 .. count
      BY <3>1, <3>2
    <3> QED
      BY <1>7, <1>8, <3>1, <3>3
  <2>2. CASE c # closure_count + 1
    BY <1>6, <1>7, <2>2 DEF TypeOK, ValuesSound
  <2> QED
    BY <2>1, <2>2
<1>11. \A k \in 0 .. MaxVmFrames - 1 :
         frames'[k].closure \in 0 .. closure_count'
  BY <1>4, <1>5, GoToSound
<1>12. /\ \A k \in 0 .. MaxVmGlobals - 1 : Sound(globals'[k], closure_count')
       /\ Sound(last_popped', closure_count')
  BY <1>5, <1>7 DEF ValuesSound
<1> QED
  BY <1>9, <1>10, <1>11, <1>12 DEF ValuesSound

(* A call adds nulls and a frame for a closure that is allocated. *)
LEMMA CallKeepsSound == TypeOK /\ ValuesSound /\ Call => ValuesSound'
<1> SUFFICES ASSUME TypeOK, ValuesSound, Call PROVE ValuesSound'
  OBVIOUS
<1> DEFINE arguments == Instruction.operand
           closure == Peek(arguments).data
           base == stack_count - arguments
           top == base + closures[closure].function.local_count
<1>1. /\ closure \in 0 .. closure_count
      /\ frame_count \in 1 .. MaxVmFrames - 1
  BY CallFacts DEF Call, ArgumentBase
<1>2. /\ stack' = [k \in 0 .. MaxVmStackValues - 1 |->
                     IF k \in base + arguments .. top - 1 THEN Null ELSE stack[k]]
      /\ frames' = [frames EXCEPT
           ![frame_count - 1].instruction_pointer = @ + 1,
           ![frame_count] = [closure |-> closure, instruction_pointer |-> 0,
                             base_pointer |-> base]]
  BY DEF Call, ArgumentBase
<1> HIDE DEF arguments, closure, base, top
<1>3. Sound(Null, closure_count)
  BY DEF Null, Sound, Values, ValueTypes
<1>4. \A k \in 0 .. MaxVmStackValues - 1 : Sound(stack'[k], closure_count)
  BY <1>2, <1>3 DEF ValuesSound
<1>5. ASSUME NEW k \in 0 .. MaxVmFrames - 1
      PROVE  frames'[k].closure \in 0 .. closure_count
  <2>1. CASE k = frame_count
    BY <1>1, <1>2, <2>1 DEF TypeOK
  <2>2. CASE k # frame_count
    <3>1. frames[k] \in Frames
      BY DEF TypeOK
    <3>2. frames'[k].closure = frames[k].closure
      BY <1>2, <2>2, <3>1 DEF TypeOK, Frames
    <3> QED
      BY <3>2 DEF ValuesSound
  <2> QED
    BY <2>1, <2>2
<1> QED
  BY <1>4, <1>5, SoundKept DEF Call, ArgumentBase, ValuesSound

(* What a function returns is sound. *)
LEMMA ReturnedSound ==
  ASSUME TypeOK, ValuesSound, Executing(ReturnOps)
  PROVE  Sound(ReturnedValue, closure_count)
<1>1. Instruction.op = "RETURN_VALUE" => stack_count # 0
  BY FaultOf DEF Executing, ReturnFault
<1>2. stack_count \in 0 .. MaxVmStackValues
  BY DEF TypeOK
<1>3. Instruction.op = "RETURN_VALUE" => Sound(Peek(0), closure_count)
  BY <1>1, <1>2, PeekSound, VmAssumption DEF VmAssumption
<1>4. Sound(Null, closure_count)
  BY DEF Null, Sound, Values, ValueTypes
<1> QED
  BY <1>3, <1>4 DEF ReturnedValue, Executing, ReturnOps

(* Returning writes only the returned value. *)
LEMMA ReturnKeepsSound ==
  TypeOK /\ ValuesSound /\ (ReturnFromMain \/ ReturnToCaller) => ValuesSound'
<1> SUFFICES ASSUME TypeOK, ValuesSound PROVE
      /\ ReturnFromMain => ValuesSound'
      /\ ReturnToCaller => ValuesSound'
  OBVIOUS
<1>1. ASSUME ReturnFromMain PROVE ValuesSound'
  BY <1>1, ReturnedSound, GoToSound, SoundKept
     DEF ReturnFromMain, Advance, ValuesSound
<1>2. ASSUME ReturnToCaller PROVE ValuesSound'
  <2>1. \A k \in 0 .. MaxVmStackValues - 1 : Sound(stack'[k], closure_count)
    BY <1>2, ReturnedSound DEF ReturnToCaller, ValuesSound, TypeOK
  <2> QED
    BY <1>2, <2>1, GoToSound, SoundKept DEF ReturnToCaller, Advance, ValuesSound
<1> QED
  BY <1>1, <1>2

(* Stopping writes no value. *)
LEMMA StopKeepsSound == ValuesSound /\ (Finish \/ Abort) => ValuesSound'
BY DEF ValuesSound, Finish, Abort

(* A new line starts over with the values earlier lines left. *)
LEMMA RunLineKeepsSound == TypeOK /\ ValuesSound /\ RunLine => ValuesSound'
<1> SUFFICES ASSUME TypeOK, ValuesSound, RunLine PROVE ValuesSound'
  OBVIOUS
<1>1. PICK b \in Bytecodes : VmRun(b)
  BY DEF RunLine
<1>2. closure_count \in Nat
  BY VmAssumption DEF VmAssumption, TypeOK
<1>3. Sound(Null, closure_count)
  BY DEF Null, Sound, Values, ValueTypes
<1>4. \A c \in 0 .. MaxVmClosures :
        \A k \in 1 .. Len(closures'[c].free_values) :
          Sound(closures'[c].free_values[k], closure_count)
  <2> SUFFICES ASSUME NEW c \in 0 .. MaxVmClosures,
                      NEW k \in 1 .. Len(closures'[c].free_values)
               PROVE  Sound(closures'[c].free_values[k], closure_count)
    OBVIOUS
  <2>1. CASE c = 0
    <3>1. closures'[c].free_values = << >>
      BY <1>1, <2>1 DEF VmRun, TypeOK
    <3> QED
      BY <3>1
  <2>2. CASE c # 0
    BY <1>1, <2>2 DEF VmRun, TypeOK, ValuesSound
  <2> QED
    BY <2>1, <2>2
<1>5. \A k \in 0 .. MaxVmFrames - 1 : frames'[k].closure \in 0 .. closure_count
  BY <1>1, <1>2 DEF VmRun, TypeOK, ValuesSound
<1> QED
  BY <1>1, <1>3, <1>4, <1>5 DEF VmRun, ValuesSound

(* At the start everything is null. *)
LEMMA InitSound == VmInit => ValuesSound
<1> SUFFICES ASSUME VmInit PROVE ValuesSound
  OBVIOUS
<1>1. Sound(Null, closure_count)
  BY DEF Null, Sound, Values, ValueTypes
<1>2. \A c \in 0 .. MaxVmClosures : closures[c].free_values = << >>
  BY DEF VmInit
<1>3. \A k \in 0 .. MaxVmFrames - 1 : frames[k].closure \in 0 .. closure_count
  BY DEF VmInit
<1> QED
  BY <1>1, <1>2, <1>3 DEF VmInit, ValuesSound

(* Every step keeps the values sound. *)
LEMMA NextKeepsSound == TypeOK /\ ValuesSound /\ [Next]_vmVars => ValuesSound'
<1> SUFFICES ASSUME TypeOK, ValuesSound, [Next]_vmVars PROVE ValuesSound'
  OBVIOUS
<1>1. CASE RunLine
  BY <1>1, RunLineKeepsSound
<1>2. CASE Load \/ Pop \/ ExecuteBinary \/ ExecuteUnary \/ Jump
  BY <1>2, LoadKeepsSound, PopKeepsSound, ExecuteBinaryKeepsSound,
     ExecuteUnaryKeepsSound, JumpKeepsSound
<1>3. CASE SetGlobal \/ SetLocal \/ PushClosure \/ Call
  BY <1>3, SetGlobalKeepsSound, SetLocalKeepsSound, PushClosureKeepsSound,
     CallKeepsSound
<1>4. CASE ReturnFromMain \/ ReturnToCaller \/ Finish \/ Abort
  BY <1>4, ReturnKeepsSound, StopKeepsSound
<1>5. CASE UNCHANGED vmVars
  BY <1>5 DEF ValuesSound, vmVars
<1> QED
  BY <1>1, <1>2, <1>3, <1>4, <1>5 DEF Next, VmStep

(* Whatever bytecode the machine is given, its arrays, counters and frames keep
   their types: no index or count leaves the range of its C array. *)
THEOREM TypeCorrect == Spec => []TypeOK
<1>1. VmInit => TypeOK /\ ValuesSound
  BY InitType, InitSound
<1>2. TypeOK /\ ValuesSound /\ [Next]_vmVars => (TypeOK /\ ValuesSound)'
  BY NextKeepsType, NextKeepsSound
<1> QED
  BY <1>1, <1>2, PTL DEF Spec

(* Whatever bytecode the machine is given, no integer it holds has wrapped
   around and no closure pointer it holds dangles. *)
THEOREM ValuesAlwaysSound == Spec => []ValuesSound
<1>1. VmInit => TypeOK /\ ValuesSound
  BY InitType, InitSound
<1>2. TypeOK /\ ValuesSound /\ [Next]_vmVars => (TypeOK /\ ValuesSound)'
  BY NextKeepsType, NextKeepsSound
<1> QED
  BY <1>1, <1>2, PTL DEF Spec

-----------------------------------------------------------------------------
(* vm_return's base pointer check guards against nothing *)

(* Only a return can find a frame with base pointer 0. *)
LEMMA FrameBaseFault ==
  ASSUME TypeOK, FrameBasePositive, running, ~AtEnd
  PROVE  Fault(Instruction) # "frame base"
<1> DEFINE i == Instruction
<1>1. i \in Instructions
  BY CurrentFrame
<1>2. i.op \in LoadOps \union BinaryOps \union UnaryOps \union JumpOps
               \union ReturnOps
               \union {"POP", "SET_GLOBAL", "SET_LOCAL", "CLOSURE", "CALL"}
  BY <1>1 DEF Instructions, OpCodes
<1> HIDE DEF i
<1>3. LoadFault(i) # "frame base"
  BY DEF LoadFault, PushFault
<1>4. PopFault # "frame base"
  BY DEF PopFault
<1>5. BinaryFault(i.op, Peek(1), Peek(0)) # "frame base"
  BY DEF BinaryFault, IntegerFault
<1>6. UnaryFault(i) # "frame base" /\ JumpFault(i) # "frame base"
  BY DEF UnaryFault, JumpFault
<1>7. ClosureFault(i) # "frame base"
  BY DEF ClosureFault, PushFault
<1>8. CallFault(i) # "frame base"
  BY DEF CallFault
<1>9. ReturnFault(i) # "frame base"
  <2>1. frame_count > 1 => Frame.base_pointer # 0
    <3>1. frame_count > 1 => frame_count - 1 \in 1 .. frame_count - 1
      BY VmAssumption DEF VmAssumption, TypeOK
    <3>2. frame_count > 1 => frames[frame_count - 1].base_pointer > 0
      BY <3>1 DEF FrameBasePositive
    <3>3. frame_count > 1 => Frame.base_pointer > 0
      BY <3>2 DEF Frame
    <3>4. Frame.base_pointer \in Nat
      BY CurrentFrame, VmAssumption DEF VmAssumption, Frames
    <3> QED
      BY <3>3, <3>4
  <2> QED
    BY <2>1 DEF ReturnFault
<1>10. Fault(i) # "frame base"
  BY <1>2, <1>3, <1>4, <1>5, <1>6, <1>7, <1>8, <1>9, FaultOf
<1> QED
  BY <1>10 DEF i

(* Moving an instruction pointer moves no base pointer. *)
LEMMA GoToKeepsBases ==
  ASSUME TypeOK, NEW ip, GoTo(ip)
  PROVE  \A k \in 0 .. MaxVmFrames - 1 :
           frames'[k].base_pointer = frames[k].base_pointer
<1> SUFFICES ASSUME NEW k \in 0 .. MaxVmFrames - 1
             PROVE  frames'[k].base_pointer = frames[k].base_pointer
  OBVIOUS
<1>1. frames[k] \in Frames
  BY DEF TypeOK
<1> QED
  BY <1>1 DEF GoTo, Frames, TypeOK

(* Only vm_call writes a base pointer, and the callee is below it. *)
LEMMA NextKeepsFrameBase ==
  TypeOK /\ ValuesSound /\ FrameBasePositive /\ [Next]_vmVars
    => FrameBasePositive'
<1> SUFFICES ASSUME TypeOK, ValuesSound, FrameBasePositive, [Next]_vmVars
             PROVE  FrameBasePositive'
  OBVIOUS
<1>1. frame_count \in 0 .. MaxVmFrames
  BY DEF TypeOK
<1>2. CASE RunLine
  <2>1. frame_count' = 1 /\ panic' = panic
    BY <1>2 DEF RunLine, VmRun
  <2>2. 1 .. frame_count' - 1 = {}
    BY <2>1
  <2> QED
    BY <2>1, <2>2 DEF FrameBasePositive
<1>3. CASE Call
  <2>1. /\ stack_count - Instruction.operand \in 1 .. MaxVmStackValues
        /\ frame_count \in 1 .. MaxVmFrames - 1
    BY <1>3, CallFacts DEF Call, ArgumentBase
  <2>2. /\ frames' = [frames EXCEPT
             ![frame_count - 1].instruction_pointer = @ + 1,
             ![frame_count] =
               [closure |-> Peek(Instruction.operand).data,
                instruction_pointer |-> 0,
                base_pointer |-> stack_count - Instruction.operand]]
        /\ frame_count' = frame_count + 1
        /\ panic' = panic
    BY <1>3 DEF Call, ArgumentBase
  <2>3. ASSUME NEW k \in 1 .. frame_count
        PROVE  frames'[k].base_pointer > 0
    <3>1. k \in 0 .. MaxVmFrames - 1
      BY <2>1, VmAssumption DEF VmAssumption
    <3>2. CASE k = frame_count
      BY <2>1, <2>2, <3>1, <3>2 DEF TypeOK
    <3>3. CASE k # frame_count
      <4>1. frames[k] \in Frames
        BY <3>1 DEF TypeOK
      <4>2. frames'[k].base_pointer = frames[k].base_pointer
        BY <2>2, <3>1, <3>3, <4>1 DEF TypeOK, Frames
      <4>3. k \in 1 .. frame_count - 1
        BY <2>1, <3>3
      <4> QED
        BY <4>2, <4>3 DEF FrameBasePositive
    <3> QED
      BY <3>2, <3>3
  <2>4. 1 .. frame_count' - 1 = 1 .. frame_count
    BY <2>1, <2>2
  <2> QED
    BY <2>2, <2>3, <2>4 DEF FrameBasePositive
<1>4. ASSUME \E ip : GoTo(ip), panic' = panic,
             frame_count' \in {0, frame_count - 1, frame_count}
      PROVE  FrameBasePositive'
  <2>1. \A k \in 1 .. frame_count - 1 :
          frames'[k].base_pointer = frames[k].base_pointer
    BY <1>1, <1>4, GoToKeepsBases, VmAssumption DEF VmAssumption
  <2>2. \A k \in 1 .. frame_count' - 1 : k \in 1 .. frame_count - 1
    <3>1. CASE frame_count' = 0
      BY <3>1
    <3>2. CASE frame_count' # 0
      <4>1. frame_count' <= frame_count
        BY <1>1, <1>4, <3>2, VmAssumption DEF VmAssumption
      <4>2. frame_count' \in Int /\ frame_count \in Int
        BY <1>1, <1>4, VmAssumption DEF VmAssumption
      <4>3. ASSUME NEW a \in Int, NEW b \in Int, a <= b, NEW k \in 1 .. a - 1
            PROVE  k \in 1 .. b - 1
        BY <4>3
      <4> QED
        BY <4>1, <4>2, <4>3
    <3> QED
      BY <3>1, <3>2
  <2> QED
    BY <1>4, <2>1, <2>2 DEF FrameBasePositive
<1>5. CASE Load \/ Pop \/ ExecuteBinary \/ ExecuteUnary \/ SetGlobal
             \/ SetLocal \/ PushClosure
  BY <1>4, <1>5 DEF Load, Pop, ExecuteBinary, ExecuteUnary, SetGlobal,
     SetLocal, PushClosure, Advance
<1>6. CASE Jump
  BY <1>4, <1>6 DEF Jump, Advance
<1>7. CASE ReturnFromMain \/ ReturnToCaller
  BY <1>4, <1>7 DEF ReturnFromMain, ReturnToCaller, Advance
<1>8. CASE Finish
  BY <1>8 DEF Finish, FrameBasePositive
<1>9. CASE Abort
  BY <1>9, FrameBaseFault DEF Abort, StepFault, FrameBasePositive
<1>10. CASE UNCHANGED vmVars
  BY <1>10 DEF FrameBasePositive, vmVars
<1> QED
  BY <1>2, <1>3, <1>5, <1>6, <1>7, <1>8, <1>9, <1>10 DEF Next, VmStep

(* No bytecode makes vm_return panic with "invalid VM frame base pointer": the
   check at vm.c:196 cannot fire. *)
THEOREM FrameBaseAlwaysPositive == Spec => []FrameBasePositive
<1>1. VmInit => FrameBasePositive
  BY DEF VmInit, FrameBasePositive
<1>2. TypeOK /\ ValuesSound /\ FrameBasePositive /\ [Next]_vmVars
        => FrameBasePositive'
  BY NextKeepsFrameBase
<1> QED
  BY <1>1, <1>2, TypeCorrect, ValuesAlwaysSound, PTL DEF Spec

-----------------------------------------------------------------------------
(* Soundness of the verifier: a machine that is only given verified bytecode keeps
   the stack discipline and never aborts with an internal fault.  The argument is one
   invariant, VerifiedInv: the code of every closure is verified, the main closure is
   out of the program's reach, and the frames and the stack are where the verifier's
   heights say. *)

Inv == TypeOK /\ ValuesSound /\ FrameBasePositive /\ VerifiedInv

(* The verifier's height at the current instruction and below it. *)
Position == Frame.instruction_pointer + 1
Height == Heights(Code)[Position]
Floor == Frame.base_pointer + Function.local_count

-----------------------------------------------------------------------------
(* The code that runs is verified *)

(* The current frame runs the main code, or a function of the bytecode. *)
LEMMA CurrentCodeVerified ==
  ASSUME Inv, running
  PROVE  /\ HeightsAgree(Code)
         /\ OperandsValid(RunningBytecode, Code, Function.local_count)
         /\ FreeValuesNeeded(Code, Len(closures[Frame.closure].free_values))
         /\ frame_count > 1 => Heights(Code)[Len(Code) + 1] < 0
         /\ \A k \in 1 .. Len(Code) :
              Code[k].op = "CURRENT_CLOSURE" => Frame.closure # 0
<1>1. /\ frame_count \in 1 .. MaxVmFrames
      /\ Frame.closure \in 0 .. closure_count
      /\ closure_count \in 0 .. MaxVmClosures
      /\ Verified(RunningBytecode)
  BY CurrentFrame DEF Inv, ValuesSound, Frame, VerifiedInv, LiveCodeVerified, TypeOK
<1>2. CASE Frame.closure = 0
  <2>1. VerifiedMain(RunningBytecode)
    BY <1>1 DEF Verified
  <2>2. /\ RunningBytecode.instructions = Code
        /\ Function.local_count = 0
    BY <1>2 DEF RunningBytecode, Code, Function, Inv, VerifiedInv, LiveCodeVerified
  <2>3. frame_count = 1
    BY <1>1, <1>2, VmAssumption
       DEF VmAssumption, Frame, Inv, VerifiedInv, MainClosureHidden
  <2>4. \A n \in Nat : FreeValuesNeeded(Code, n)
    <3>1. FreeValuesNeeded(Code, 0)
      BY <2>1, <2>2 DEF VerifiedMain
    <3>2. Code \in Seq(Instructions)
      BY CurrentFrame DEF Inv
    <3>3. ASSUME NEW k \in 1 .. Len(Code)
          PROVE  Code[k].operand \in Nat
      <4>1. Code[k] \in Instructions
        BY <3>2
      <4> QED
        BY <4>1 DEF Instructions
    <3>4. \A k \in 1 .. Len(Code) : Code[k].op # "GET_FREE"
      BY <3>1, <3>3 DEF FreeValuesNeeded
    <3> QED
      BY <3>4 DEF FreeValuesNeeded
  <2>5. Len(closures[Frame.closure].free_values) \in Nat
    BY <1>1, VmAssumption DEF VmAssumption, Inv, TypeOK, Closures
  <2> QED
    BY <2>1, <2>2, <2>3, <2>4, <2>5 DEF VerifiedMain
<1>3. CASE Frame.closure # 0
  <2>1. Frame.closure \in 1 .. closure_count
    BY <1>1, <1>3, VmAssumption DEF VmAssumption
  <2>2. PICK k \in 1 .. Len(functions) : Function = functions[k]
    BY <2>1 DEF Function, Inv, VerifiedInv, LiveCodeVerified
  <2>3. VerifiedFunction(RunningBytecode, Function)
    BY <1>1, <2>2 DEF Verified, RunningBytecode
  <2>4. FreeValuesNeeded(Code, Len(closures[Frame.closure].free_values))
    BY <2>1 DEF Code, Function, Inv, VerifiedInv, LiveCodeVerified
  <2> QED
    BY <1>3, <2>3, <2>4 DEF VerifiedFunction, Code
<1> QED
  BY <1>2, <1>3

(* Where the current frame is, and what is above its locals. *)
LEMMA CurrentHeight ==
  ASSUME Inv, running
  PROVE  /\ Height \in Nat
         /\ Floor \in Nat
         /\ stack_count = Floor + Height
         /\ Position \in 1 .. Len(Code) + 1
         /\ AtEnd <=> Position = Len(Code) + 1
         /\ ~AtEnd => /\ Position \in 1 .. Len(Code)
                      /\ Instruction = Code[Position]
<1>1. /\ frame_count \in 1 .. MaxVmFrames
      /\ Frame \in Frames
      /\ Function \in CompiledFunctions
      /\ Code \in Seq(Instructions)
  BY CurrentFrame DEF Inv
<1>2. frame_count - 1 \in 0 .. frame_count - 1
  BY <1>1, VmAssumption DEF VmAssumption
<1>3. /\ Frame.instruction_pointer \in 0 .. Len(Code)
      /\ Heights(Code)[Frame.instruction_pointer + 1] >= 0
      /\ Frame.base_pointer + Function.local_count
           + Heights(Code)[Frame.instruction_pointer + 1] = stack_count
  BY <1>2 DEF Inv, VerifiedInv, StackDiscipline, FrameFunction, FrameHeight,
     Frame, Function, Code
<1>4. Len(Code) \in Nat
  BY <1>1
<1>5. Position \in 1 .. Len(Code) + 1
  BY <1>3, <1>4 DEF Position
<1>6. Height \in Int
  BY <1>5, CurrentCodeVerified DEF HeightsAgree, Height
<1>7. Height \in Nat /\ stack_count = Floor + Height /\ Floor \in Nat
  <2>1. Frame.base_pointer \in Nat /\ Function.local_count \in Nat
    BY <1>1, VmAssumption DEF VmAssumption, Frames, CompiledFunctions
  <2> QED
    BY <1>3, <1>6, <2>1 DEF Height, Floor, Position
<1>8. AtEnd <=> Position = Len(Code) + 1
  BY <1>3, <1>4 DEF AtEnd, Position
<1>9. ~AtEnd => Position \in 1 .. Len(Code) /\ Instruction = Code[Position]
  BY <1>4, <1>5, <1>8 DEF Instruction, Position
<1> QED
  BY <1>5, <1>7, <1>8, <1>9

(* What the verifier knows of the current instruction. *)
LEMMA CurrentInstruction ==
  ASSUME Inv, running, ~AtEnd
  PROVE  /\ Height >= Taken(Instruction)
         /\ \A next \in Successors(Code, Position) :
              /\ next \in 1 .. Len(Code) + 1
              /\ Heights(Code)[next] = HeightAfter(Instruction, Height)
         /\ Instruction.op = "CONSTANT" => Instruction.operand < Len(constants)
         /\ Instruction.op \in {"GET_GLOBAL", "SET_GLOBAL"} =>
              Instruction.operand < MaxVmGlobals
         /\ Instruction.op \in {"GET_LOCAL", "SET_LOCAL"} =>
              Instruction.operand < Function.local_count
         /\ Instruction.op = "GET_FREE" =>
              Instruction.operand < Len(closures[Frame.closure].free_values)
         /\ Instruction.op = "CURRENT_CLOSURE" => Frame.closure # 0
         /\ Instruction.op = "CLOSURE" =>
              /\ IsFunctionConstant(RunningBytecode, Instruction.operand)
              /\ FreeValuesNeeded(
                   FunctionConstant(RunningBytecode,
                                    Instruction.operand).instructions,
                   Instruction.operand2)
<1>1. /\ Position \in 1 .. Len(Code)
      /\ Instruction = Code[Position]
      /\ Height \in Nat
  BY CurrentHeight
<1>2. /\ Height >= Taken(Instruction)
      /\ \A next \in Successors(Code, Position) :
           /\ next \in 1 .. Len(Code) + 1
           /\ Heights(Code)[next] = HeightAfter(Instruction, Height)
  BY <1>1, CurrentCodeVerified DEF HeightsAgree, Height
<1>3. /\ Instruction.op = "CONSTANT" => Instruction.operand < Len(constants)
      /\ Instruction.op \in {"GET_GLOBAL", "SET_GLOBAL"} =>
           Instruction.operand < MaxVmGlobals
      /\ Instruction.op \in {"GET_LOCAL", "SET_LOCAL"} =>
           Instruction.operand < Function.local_count
      /\ Instruction.op = "CLOSURE" =>
           /\ IsFunctionConstant(RunningBytecode, Instruction.operand)
           /\ FreeValuesNeeded(
                FunctionConstant(RunningBytecode,
                                 Instruction.operand).instructions,
                Instruction.operand2)
  <2>1. RunningBytecode.constants = constants
    BY DEF RunningBytecode
  <2> QED
    BY <1>1, <2>1, CurrentCodeVerified DEF OperandsValid
<1>4. /\ Instruction.op = "GET_FREE" =>
           Instruction.operand < Len(closures[Frame.closure].free_values)
      /\ Instruction.op = "CURRENT_CLOSURE" => Frame.closure # 0
  BY <1>1, CurrentCodeVerified DEF FreeValuesNeeded
<1> QED
  BY <1>2, <1>3, <1>4

-----------------------------------------------------------------------------
(* No internal fault *)

(* No opcode is of two kinds. *)
LEMMA OpsDisjoint ==
  /\ \A op \in BinaryOps : op \notin {"CLOSURE", "CALL"}
  /\ \A op \in UnaryOps \union {"POP", "SET_GLOBAL", "SET_LOCAL",
                                "JUMP_NOT_TRUTHY", "RETURN_VALUE"} :
       op \notin BinaryOps \union {"CLOSURE", "CALL"}
  /\ \A op \in LoadOps \union {"JUMP", "RETURN"} :
       op \notin BinaryOps \union UnaryOps
                  \union {"CLOSURE", "CALL", "POP", "SET_GLOBAL", "SET_LOCAL",
                          "JUMP_NOT_TRUTHY", "RETURN_VALUE"}
BY DEF BinaryOps, ArithmeticOps, ComparisonOps, UnaryOps, LoadOps

(* Taken, opcode by opcode. *)
LEMMA TakenOf ==
  ASSUME NEW i
  PROVE  /\ i.op \in BinaryOps => Taken(i) = 2
         /\ i.op = "CLOSURE" => Taken(i) = i.operand2
         /\ i.op = "CALL" => Taken(i) = i.operand + 1
         /\ i.op \in UnaryOps \union {"POP", "SET_GLOBAL", "SET_LOCAL",
                                     "JUMP_NOT_TRUTHY", "RETURN_VALUE"} =>
              Taken(i) = 1
         /\ i.op \in LoadOps \union {"JUMP", "RETURN"} => Taken(i) = 0
BY OpsDisjoint DEF Taken

(* Given, opcode by opcode. *)
LEMMA GivenOf ==
  ASSUME NEW i
  PROVE  /\ i.op \in LoadOps \union BinaryOps \union UnaryOps
                      \union {"CLOSURE", "CALL"} => Given(i) = 1
         /\ i.op \in JumpOps \union {"POP", "SET_GLOBAL", "SET_LOCAL"} =>
              Given(i) = 0
BY DEF Given, LoadOps, BinaryOps, ArithmeticOps, ComparisonOps, UnaryOps,
       JumpOps, ReturnOps

(* Successors, opcode by opcode. *)
LEMMA SuccessorsOf ==
  ASSUME NEW code, NEW k
  PROVE  /\ code[k].op = "JUMP" => Successors(code, k) = {code[k].operand + 1}
         /\ code[k].op = "JUMP_NOT_TRUTHY" =>
              Successors(code, k) = {k + 1, code[k].operand + 1}
         /\ code[k].op \notin {"JUMP"} \union ReturnOps =>
              k + 1 \in Successors(code, k)
BY DEF Successors, ReturnOps

(* An instruction of verified code has no internal fault. *)
LEMMA VerifiedFault ==
  ASSUME Inv, running, ~AtEnd
  PROVE  Fault(Instruction) \notin InternalFaults
<1> DEFINE i == Instruction
<1>1. /\ i \in Instructions
      /\ Height >= Taken(i)
      /\ stack_count = Floor + Height
      /\ Height \in Nat
      /\ Floor \in Nat
      /\ stack_count \in 0 .. MaxVmStackValues
      /\ frame_count \in 1 .. MaxVmFrames
  BY CurrentFrame, CurrentInstruction, CurrentHeight DEF Inv, TypeOK
<1>2. i.operand \in Nat /\ i.operand2 \in Nat
  BY <1>1 DEF Instructions
<1> SUFFICES Fault(i) \notin InternalFaults
  OBVIOUS
<1> HIDE DEF i
<1>3. Taken(i) \in Nat => stack_count >= Taken(i)
  BY <1>1, VmAssumption DEF VmAssumption
<1>4. CASE i.op \in LoadOps
  <2>1. i.op = "CONSTANT" => ~(i.operand >= Len(constants))
    BY <1>2, CurrentInstruction DEF i, Inv, TypeOK, IsBytecode
  <2>2. i.op = "GET_GLOBAL" => ~(i.operand >= MaxVmGlobals)
    BY <1>2, CurrentInstruction, VmAssumption DEF i, VmAssumption
  <2>3. i.op = "GET_LOCAL" => ~(Frame.base_pointer + i.operand >= stack_count)
    <3>1. Frame.base_pointer \in Nat /\ Function.local_count \in Nat
      BY CurrentFrame, VmAssumption
         DEF VmAssumption, Inv, Frames, CompiledFunctions
    <3>2. i.op = "GET_LOCAL" => i.operand < Function.local_count
      BY CurrentInstruction DEF i
    <3> QED
      BY <1>1, <1>2, <3>1, <3>2 DEF Floor
  <2>4. i.op = "GET_FREE" =>
          ~(i.operand >= Len(closures[Frame.closure].free_values))
    <3>1. Len(closures[Frame.closure].free_values) \in Nat
      BY CurrentFrame DEF Inv, TypeOK, Frames, Closures
    <3> QED
      BY <1>2, <3>1, CurrentInstruction DEF i
  <2>5. LoadFault(i) = PushFault
    BY <2>1, <2>2, <2>3, <2>4 DEF LoadFault
  <2>6. Fault(i) = PushFault
    BY <1>4, <2>5, FaultOf
  <2> QED
    BY <2>6 DEF PushFault, InternalFaults
<1>5. CASE i.op \in BinaryOps
  <2>1. ~(stack_count < 2)
    BY <1>1, <1>3, <1>5, TakenOf
  <2>2. BinaryFault(i.op, Peek(1), Peek(0)) \notin InternalFaults
    BY DEF BinaryFault, IntegerFault, InternalFaults
  <2>3. Fault(i) = BinaryFault(i.op, Peek(1), Peek(0))
    BY <1>5, <2>1, FaultOf
  <2> QED
    BY <2>2, <2>3
<1>6. CASE i.op \in {"POP", "SET_GLOBAL", "SET_LOCAL"}
  <2>1. PopFault = "none"
    BY <1>1, <1>3, <1>6, TakenOf DEF PopFault
  <2>2. i.op = "SET_GLOBAL" => ~(i.operand >= MaxVmGlobals)
    BY <1>2, CurrentInstruction, VmAssumption DEF i, VmAssumption
  <2>3. i.op = "SET_LOCAL" => ~(Frame.base_pointer + i.operand >= MaxVmStackValues)
    <3>1. Frame.base_pointer \in Nat /\ Function.local_count \in Nat
      BY CurrentFrame, VmAssumption
         DEF VmAssumption, Inv, Frames, CompiledFunctions
    <3>2. i.op = "SET_LOCAL" => i.operand < Function.local_count
      BY CurrentInstruction DEF i
    <3> QED
      BY <1>1, <1>2, <3>1, <3>2, VmAssumption DEF VmAssumption, Floor
  <2>4. Fault(i) = "none"
    BY <1>6, <2>1, <2>2, <2>3, FaultOf
  <2> QED
    BY <2>4 DEF InternalFaults
<1>7. CASE i.op \in UnaryOps
  <2>1. stack_count # 0
    BY <1>1, <1>3, <1>7, TakenOf
  <2>2. Fault(i) = UnaryFault(i)
    BY <1>7, FaultOf
  <2> QED
    BY <2>1, <2>2 DEF UnaryFault, InternalFaults
<1>8. CASE i.op \in JumpOps
  <2>1. i.op = "JUMP_NOT_TRUTHY" => stack_count # 0
    BY <1>1, <1>3, TakenOf
  <2>2. i.operand + 1 \in 1 .. Len(Code) + 1
    <3>1. i.operand + 1 \in Successors(Code, Position)
      BY <1>8, CurrentHeight, SuccessorsOf DEF JumpOps, i
    <3> QED
      BY <3>1, CurrentInstruction
  <2>3. ~(i.operand > Len(Code))
    BY <1>2, <2>2, CurrentFrame DEF Inv
  <2>4. Fault(i) = JumpFault(i)
    BY <1>8, FaultOf
  <2>5. JumpFault(i) = "none"
    BY <2>1, <2>3 DEF JumpFault
  <2> QED
    BY <2>4, <2>5 DEF InternalFaults
<1>9. CASE i.op = "CLOSURE"
  <2>1. ~(stack_count < i.operand2)
    BY <1>1, <1>2, <1>3, <1>9, TakenOf
  <2>2. IsFunctionConstant(RunningBytecode, i.operand)
    BY <1>9, CurrentInstruction DEF i
  <2>3. /\ ~(i.operand >= Len(constants))
        /\ constants[i.operand + 1].type = "COMPILED_FUNCTION"
    BY <1>2, <2>2 DEF IsFunctionConstant, RunningBytecode, Inv, TypeOK, IsBytecode
  <2>4. ClosureFault(i) \in {"none"} \union CapacityFaults
    BY <2>1, <2>3 DEF ClosureFault, PushFault, CapacityFaults
  <2>5. Fault(i) = ClosureFault(i)
    BY <1>9, FaultOf
  <2> QED
    BY <2>4, <2>5 DEF CapacityFaults, InternalFaults
<1>10. CASE i.op = "CALL"
  <2>1. ~(stack_count < i.operand + 1)
    BY <1>1, <1>2, <1>3, <1>10, TakenOf
  <2>2. CallFault(i) # "stack underflow"
    BY <2>1 DEF CallFault
  <2>3. CallFault(i) \in {"stack underflow", "none"}
                          \union ProgramFaults \union CapacityFaults
    BY DEF CallFault, ProgramFaults, CapacityFaults
  <2>4. Fault(i) = CallFault(i)
    BY <1>10, FaultOf
  <2> QED
    BY <2>2, <2>3, <2>4 DEF ProgramFaults, CapacityFaults, InternalFaults
<1>11. CASE i.op \in ReturnOps
  <2>1. i.op = "RETURN_VALUE" => stack_count # 0
    BY <1>1, <1>3, TakenOf
  <2>2. Fault(i) # "frame base"
    BY FrameBaseFault DEF i, Inv
  <2>3. Fault(i) = ReturnFault(i)
    BY <1>11, FaultOf
  <2>4. ReturnFault(i) \in {"none", "frame base"}
    BY <2>1 DEF ReturnFault
  <2> QED
    BY <2>2, <2>3, <2>4 DEF InternalFaults
<1>12. i.op \in LoadOps \union BinaryOps \union UnaryOps \union JumpOps
                \union ReturnOps
                \union {"POP", "SET_GLOBAL", "SET_LOCAL", "CLOSURE", "CALL"}
  BY <1>1 DEF Instructions, OpCodes
<1> QED
  BY <1>4, <1>5, <1>6, <1>7, <1>8, <1>9, <1>10, <1>11, <1>12

(* A function never runs off its end. *)
LEMMA VerifiedStepFault ==
  ASSUME Inv, running
  PROVE  StepFault \notin InternalFaults
<1>1. CASE AtEnd
  <2>1. Heights(Code)[Len(Code) + 1] = Height /\ Height >= 0
    BY <1>1, CurrentHeight DEF Height
  <2>2. ~(frame_count > 1)
    BY <2>1, CurrentCodeVerified, CurrentHeight
  <2> QED
    BY <1>1, <2>2 DEF StepFault, InternalFaults
<1>2. CASE ~AtEnd
  BY <1>2, VerifiedFault DEF StepFault
<1> QED
  BY <1>1, <1>2

-----------------------------------------------------------------------------
(* Every step keeps the code verified and the main closure hidden *)

(* Verified looks at nothing but the three parts of a bytecode. *)
LEMMA VerifiedByParts ==
  ASSUME NEW a, NEW b, Verified(a),
         a.instructions = b.instructions, a.constants = b.constants,
         a.functions = b.functions
  PROVE  Verified(b)
<1>1. ASSUME NEW code, NEW locals, OperandsValid(a, code, locals)
      PROVE  OperandsValid(b, code, locals)
  BY <1>1 DEF OperandsValid, IsFunctionConstant, FunctionConstant
<1>2. ASSUME NEW f, VerifiedFunction(a, f)
      PROVE  VerifiedFunction(b, f)
  BY <1>1, <1>2 DEF VerifiedFunction
<1> QED
  BY <1>1, <1>2 DEF Verified, VerifiedMain

(* Every step keeps the code of the closures verified. *)
LEMMA NextKeepsLiveCode == Inv /\ [Next]_vmVars /\ AllVerified => LiveCodeVerified'
<1> SUFFICES ASSUME Inv, [Next]_vmVars, AllVerified PROVE LiveCodeVerified'
  OBVIOUS
<1>1. ASSUME UNCHANGED <<constants, functions, closures, closure_count>>,
             running' => running
      PROVE  LiveCodeVerified'
  BY <1>1 DEF Inv, VerifiedInv, LiveCodeVerified, RunningBytecode
<1>2. CASE RunLine
  <2>1. PICK b \in Bytecodes : VmRun(b) /\ IsPrefix(functions, b.functions)
    BY <1>2 DEF RunLine
  <2>2. IsBytecode(b) /\ Verified(b)
    BY BytecodesAssumption DEF AllVerified
  <2>3. ASSUME NEW k \in 1 .. Len(functions)
        PROVE  k \in 1 .. Len(b.functions) /\ functions[k] = b.functions[k]
    <3>1. /\ functions \in Seq(CompiledFunctions)
          /\ b.functions \in Seq(CompiledFunctions)
      BY <2>2 DEF Inv, TypeOK, IsBytecode
    <3>2. /\ Len(functions) <= Len(b.functions)
          /\ SubSeq(functions, 1, Len(functions))
               = SubSeq(b.functions, 1, Len(functions))
      BY <2>1 DEF IsPrefix
    <3>3. k \in 1 .. Len(b.functions)
      BY <3>1, <3>2
    <3>4. SubSeq(functions, 1, Len(functions))[k] = functions[k]
      BY <3>1
    <3>5. SubSeq(b.functions, 1, Len(functions))[k] = b.functions[k]
      BY <3>1, <3>2
    <3> QED
      BY <3>2, <3>3, <3>4, <3>5
  <2>4. ASSUME NEW c \in 1 .. closure_count
        PROVE  closures'[c] = closures[c]
    BY <2>1, VmAssumption DEF VmAssumption, VmRun, Inv, TypeOK
  <2>5. /\ closures'[0].function
             = [NoFunction EXCEPT !.instructions = b.instructions]
        /\ functions' = b.functions
        /\ constants' = b.constants
        /\ closure_count' = closure_count
    BY <2>1, VmAssumption DEF VmAssumption, VmRun, Inv, TypeOK
  <2>6. /\ closures'[0].function.instructions = b.instructions
        /\ closures'[0].function.local_count = 0
    BY <2>5 DEF NoFunction
  <2>7. Verified(RunningBytecode)'
    <3>1. /\ RunningBytecode'.instructions = b.instructions
          /\ RunningBytecode'.constants = b.constants
          /\ RunningBytecode'.functions = b.functions
      BY <2>5, <2>6 DEF RunningBytecode
    <3> QED
      BY <2>2, <3>1, VerifiedByParts
  <2>8. ASSUME NEW c \in 1 .. closure_count
        PROVE  /\ \E k \in 1 .. Len(functions') :
                    closures'[c].function = functions'[k]
               /\ FreeValuesNeeded(closures'[c].function.instructions,
                                   Len(closures'[c].free_values))
    BY <2>3, <2>4, <2>5 DEF Inv, VerifiedInv, LiveCodeVerified
  <2> QED
    BY <2>5, <2>6, <2>7, <2>8 DEF LiveCodeVerified
<1>3. CASE PushClosure
  <2> DEFINE i == Instruction
             first == stack_count - i.operand2
             function == functions[constants[i.operand + 1].data]
             captured == [k \in 1 .. i.operand2 |-> stack[first + k - 1]]
  <2>1. /\ running /\ ~AtEnd
        /\ i.op = "CLOSURE"
        /\ i \in Instructions
        /\ ClosureFault(i) = "none"
    BY <1>3, CurrentFrame, FaultOf DEF PushClosure, Executing, Inv
  <2>2. /\ IsFunctionConstant(RunningBytecode, i.operand)
        /\ FreeValuesNeeded(FunctionConstant(RunningBytecode, i.operand).instructions,
                            i.operand2)
    BY <2>1, CurrentInstruction
  <2>3. i.operand \in Nat /\ i.operand2 \in Nat
    BY <2>1 DEF Instructions
  <2>4. FreeValuesNeeded(function.instructions, i.operand2)
    BY <2>2 DEF FunctionConstant, RunningBytecode
  <2>5. constants[i.operand + 1].data \in 1 .. Len(functions)
    <3>1. /\ i.operand < Len(constants)
          /\ constants[i.operand + 1].type = "COMPILED_FUNCTION"
      BY <2>2 DEF IsFunctionConstant, RunningBytecode
    <3>2. i.operand + 1 \in 1 .. Len(constants)
      BY <2>3, <3>1 DEF Inv, TypeOK, IsBytecode
    <3> QED
      BY <3>1, <3>2 DEF Inv, TypeOK, IsBytecode
  <2>6. /\ closures' = [closures EXCEPT ![closure_count + 1] =
                          [function |-> function, free_values |-> captured]]
        /\ closure_count' = closure_count + 1
        /\ UNCHANGED <<constants, functions, running>>
    BY <1>3 DEF PushClosure
  <2>7. Len(captured) = i.operand2
    BY <2>3
  <2>8. closure_count \in Nat /\ closure_count + 1 \in 1 .. MaxVmClosures
    BY <2>1, VmAssumption DEF VmAssumption, ClosureFault, Inv, TypeOK
  <2>9. ASSUME NEW c \in 0 .. closure_count
        PROVE  closures'[c] = closures[c]
    BY <2>6, <2>8 DEF Inv, TypeOK
  <2>10. closures'[closure_count + 1]
           = [function |-> function, free_values |-> captured]
    BY <2>6, <2>8 DEF Inv, TypeOK
  <2> HIDE DEF i, captured, function
  <2>11. ASSUME NEW c \in 1 .. closure_count + 1
         PROVE  /\ \E k \in 1 .. Len(functions) :
                     closures'[c].function = functions[k]
                /\ FreeValuesNeeded(closures'[c].function.instructions,
                                    Len(closures'[c].free_values))
    <3>1. CASE c = closure_count + 1
      BY <2>4, <2>5, <2>7, <2>10, <3>1 DEF function
    <3>2. CASE c # closure_count + 1
      <4>1. c \in 1 .. closure_count /\ c \in 0 .. closure_count
        BY <2>8, <3>2
      <4> QED
        BY <2>9, <4>1 DEF Inv, VerifiedInv, LiveCodeVerified
    <3> QED
      BY <3>1, <3>2
  <2>12. closures'[0] = closures[0]
    BY <2>8, <2>9
  <2> QED
    BY <2>6, <2>11, <2>12
       DEF Inv, VerifiedInv, LiveCodeVerified, RunningBytecode
<1>4. CASE Load \/ Pop \/ ExecuteBinary \/ ExecuteUnary \/ Jump
  BY <1>1, <1>4 DEF Load, Pop, ExecuteBinary, ExecuteUnary, Jump
<1>5. CASE SetGlobal \/ SetLocal \/ Call
  BY <1>1, <1>5 DEF SetGlobal, SetLocal, Call, ArgumentBase
<1>6. CASE ReturnFromMain \/ ReturnToCaller \/ Finish \/ Abort
  BY <1>1, <1>6 DEF ReturnFromMain, ReturnToCaller, Finish, Abort
<1>7. CASE UNCHANGED vmVars
  BY <1>1, <1>7 DEF vmVars
<1> QED
  BY <1>2, <1>3, <1>4, <1>5, <1>6, <1>7 DEF Next, VmStep

ValuesNotMain ==
  /\ \A k \in 0 .. MaxVmStackValues - 1 : NotMain(stack[k])
  /\ \A k \in 0 .. MaxVmGlobals - 1 : NotMain(globals[k])
  /\ \A c \in 0 .. MaxVmClosures :
       \A k \in 1 .. Len(closures[c].free_values) :
         NotMain(closures[c].free_values[k])

FramesNotMain ==
  running => /\ frames[0].closure = 0
             /\ frames[0].base_pointer = 0
             /\ \A k \in 1 .. frame_count - 1 : frames[k].closure # 0

(* MainClosureHidden is a fact on values and one on frames. *)
LEMMA HiddenParts == MainClosureHidden <=> ValuesNotMain /\ FramesNotMain
BY DEF MainClosureHidden, ValuesNotMain, FramesNotMain

(* No value of the stack is the main closure. *)
LEMMA PeekNotMain ==
  ASSUME TypeOK, ValuesNotMain, NEW n \in Nat, n < stack_count
  PROVE  NotMain(Peek(n))
<1>1. stack_count - 1 - n \in 0 .. MaxVmStackValues - 1
  BY VmAssumption DEF VmAssumption, TypeOK
<1> QED
  BY <1>1 DEF Peek, ValuesNotMain

(* Nothing loads the main closure: its code has no CURRENT_CLOSURE. *)
LEMMA LoadedNotMain ==
  ASSUME Inv, ValuesNotMain, Executing(LoadOps)
  PROVE  NotMain(Loaded(Instruction))
<1> DEFINE i == Instruction
<1>1. /\ i \in Instructions
      /\ Frame \in Frames
      /\ Frame.closure \in 0 .. MaxVmClosures
      /\ closures[Frame.closure] \in Closures
      /\ running /\ ~AtEnd
  BY CurrentFrame DEF Executing, Frames, Inv, TypeOK
<1>2. i.op \in LoadOps /\ LoadFault(i) = "none"
  BY FaultOf DEF Executing
<1>3. i.operand \in Nat
  BY <1>1 DEF Instructions
<1>4. CASE i.op = "CONSTANT"
  <2>1. i.operand + 1 \in 1 .. Len(constants)
    BY <1>2, <1>3, <1>4 DEF LoadFault, Inv, TypeOK, IsBytecode
  <2>2. constants[i.operand + 1].type # "CLOSURE"
    BY <2>1 DEF Inv, TypeOK, IsBytecode
  <2> QED
    BY <1>4, <2>2 DEF Loaded, NotMain
<1>5. CASE i.op \in {"NULL", "TRUE", "FALSE"}
  <2>1. Loaded(i) \in {Null, BooleanValue(TRUE), BooleanValue(FALSE)}
    BY <1>5 DEF Loaded
  <2> QED
    BY <2>1 DEF Null, BooleanValue, NotMain
<1>6. CASE i.op = "CURRENT_CLOSURE"
  <2>1. Frame.closure # 0
    BY <1>1, <1>6, CurrentInstruction
  <2> QED
    BY <1>6, <2>1 DEF Loaded, ClosureValue, NotMain
<1>7. CASE i.op = "GET_GLOBAL"
  <2>1. i.operand \in 0 .. MaxVmGlobals - 1
    BY <1>2, <1>3, <1>7, VmAssumption DEF LoadFault, VmAssumption
  <2> QED
    BY <1>7, <2>1 DEF Loaded, ValuesNotMain
<1>8. CASE i.op = "GET_LOCAL"
  <2> HIDE DEF i
  <2>1. ~(Frame.base_pointer + i.operand >= stack_count)
    BY <1>2, <1>8 DEF LoadFault
  <2>2. /\ Frame.base_pointer \in Nat
        /\ stack_count \in 0 .. MaxVmStackValues
    BY <1>1, VmAssumption DEF VmAssumption, Frames, Inv, TypeOK
  <2>3. Frame.base_pointer + i.operand \in 0 .. MaxVmStackValues - 1
    BY <1>3, <2>1, <2>2, VmAssumption DEF VmAssumption
  <2> QED
    BY <1>8, <2>3 DEF Loaded, ValuesNotMain, i
<1>9. CASE i.op = "GET_FREE"
  <2>1. i.operand + 1 \in 1 .. Len(closures[Frame.closure].free_values)
    BY <1>1, <1>2, <1>3, <1>9 DEF LoadFault, Closures
  <2> QED
    BY <1>1, <1>9, <2>1 DEF Loaded, ValuesNotMain
<1> QED
  BY <1>2, <1>4, <1>5, <1>6, <1>7, <1>8, <1>9 DEF LoadOps

(* Pushing another value leaves the main closure out of the stack. *)
LEMMA PopPushNotMain ==
  ASSUME TypeOK, ValuesNotMain, NEW pops \in Nat, NEW v, PopPush(pops, v),
         NotMain(v)
  PROVE  \A k \in 0 .. MaxVmStackValues - 1 : NotMain(stack'[k])
BY DEF PopPush, ValuesNotMain, TypeOK

(* Every step keeps the main closure out of the values. *)
LEMMA NextKeepsValuesNotMain ==
  Inv /\ ValuesNotMain /\ [Next]_vmVars => ValuesNotMain'
<1> SUFFICES ASSUME Inv, ValuesNotMain, [Next]_vmVars PROVE ValuesNotMain'
  OBVIOUS
<1>0. TypeOK
  BY DEF Inv
<1>1. ASSUME \A k \in 0 .. MaxVmStackValues - 1 : NotMain(stack'[k]),
             UNCHANGED <<globals, closures>>
      PROVE  ValuesNotMain'
  BY <1>1 DEF ValuesNotMain
<1>2. CASE RunLine
  <2>1. PICK b \in Bytecodes : VmRun(b)
    BY <1>2 DEF RunLine
  <2>2. closures'[0].free_values = << >>
    BY <1>0, <2>1, VmAssumption DEF VmAssumption, VmRun, TypeOK
  <2>3. \A c \in 1 .. MaxVmClosures : closures'[c] = closures[c]
    BY <1>0, <2>1, VmAssumption DEF VmAssumption, VmRun, TypeOK
  <2>4. ASSUME NEW c \in 0 .. MaxVmClosures,
               NEW k \in 1 .. Len(closures'[c].free_values)
        PROVE  NotMain(closures'[c].free_values[k])
    <3>1. CASE c = 0
      BY <2>2, <3>1
    <3>2. CASE c # 0
      BY <2>3, <3>2, VmAssumption DEF VmAssumption, ValuesNotMain
    <3> QED
      BY <3>1, <3>2
  <2> QED
    BY <2>1, <2>4 DEF VmRun, ValuesNotMain
<1>3. CASE Load
  BY <1>0, <1>1, <1>3, LoadedNotMain, PopPushNotMain DEF Load
<1>4. CASE ExecuteBinary
  <2>1. NotMain(Binary(Instruction.op, Peek(1), Peek(0)))
    BY DEF Binary, IntegerValue, BooleanValue, NotMain
  <2> QED
    BY <1>0, <1>1, <1>4, <2>1, PopPushNotMain DEF ExecuteBinary
<1>5. CASE ExecuteUnary
  <2>1. /\ NotMain(BooleanValue(~Truthy(Peek(0))))
        /\ NotMain(IntegerValue(-Peek(0).data))
    BY DEF IntegerValue, BooleanValue, NotMain
  <2> QED
    BY <1>0, <1>1, <1>5, <2>1, PopPushNotMain DEF ExecuteUnary
<1>6. CASE SetGlobal
  <2>1. stack_count > 0
    BY <1>6, FaultOf DEF SetGlobal, Executing, PopFault
  <2>2. NotMain(Peek(0))
    BY <1>0, <2>1, PeekNotMain
  <2> QED
    BY <1>0, <1>6, <2>2 DEF SetGlobal, ValuesNotMain, TypeOK
<1>7. CASE SetLocal
  <2>1. stack_count > 0
    BY <1>7, FaultOf DEF SetLocal, Executing, PopFault
  <2>2. NotMain(Peek(0))
    BY <1>0, <2>1, PeekNotMain
  <2> QED
    BY <1>0, <1>7, <2>2 DEF SetLocal, ValuesNotMain, TypeOK
<1>8. CASE PushClosure
  <2> DEFINE count == Instruction.operand2
             first == stack_count - count
             captured == [k \in 1 .. count |-> stack[first + k - 1]]
  <2>1. /\ count \in Nat
        /\ ~(stack_count < count)
        /\ closure_count \in Nat
        /\ closure_count + 1 \in 1 .. MaxVmClosures
        /\ stack_count \in 0 .. MaxVmStackValues
    <3>1. /\ Instruction \in Instructions
          /\ ClosureFault(Instruction) = "none"
      BY <1>0, <1>8, CurrentFrame, FaultOf DEF PushClosure, Executing
    <3>2. count \in Nat
      BY <3>1 DEF Instructions
    <3>3. ~(stack_count < count) /\ ~(closure_count >= MaxVmClosures)
      BY <3>1 DEF ClosureFault
    <3> QED
      BY <1>0, <3>2, <3>3, VmAssumption DEF VmAssumption, TypeOK
  <2>2. PICK function :
          closures' = [closures EXCEPT ![closure_count + 1] =
                         [function |-> function, free_values |-> captured]]
    BY <1>8 DEF PushClosure
  <2>3. ASSUME NEW k \in 1 .. count
        PROVE  NotMain(stack[first + k - 1])
    <3>1. first + k - 1 \in 0 .. MaxVmStackValues - 1
      BY <2>1, VmAssumption DEF VmAssumption
    <3> QED
      BY <3>1 DEF ValuesNotMain
  <2>4. ASSUME NEW c \in 0 .. MaxVmClosures,
               NEW k \in 1 .. Len(closures'[c].free_values)
        PROVE  NotMain(closures'[c].free_values[k])
    <3>1. CASE c = closure_count + 1
      <4>1. closures'[c].free_values = captured
        BY <1>0, <2>2, <3>1 DEF TypeOK
      <4>2. Len(captured) = count
        BY <2>1
      <4>3. k \in 1 .. count
        BY <4>1, <4>2
      <4> QED
        BY <2>3, <4>1, <4>3
    <3>2. CASE c # closure_count + 1
      BY <1>0, <2>2, <3>2 DEF TypeOK, ValuesNotMain
    <3> QED
      BY <3>1, <3>2
  <2>5. NotMain(ClosureValue(closure_count + 1))
    BY <2>1 DEF ClosureValue, NotMain
  <2>6. \A k \in 0 .. MaxVmStackValues - 1 : NotMain(stack'[k])
    BY <1>0, <1>8, <2>1, <2>5, PopPushNotMain DEF PushClosure
  <2> QED
    BY <1>8, <2>4, <2>6 DEF PushClosure, ValuesNotMain
<1>9. CASE Call
  <2>1. \A k \in 0 .. MaxVmStackValues - 1 : stack'[k] \in {Null, stack[k]}
    BY <1>9 DEF Call, ArgumentBase
  <2>2. NotMain(Null)
    BY DEF Null, NotMain
  <2> QED
    BY <1>1, <1>9, <2>1, <2>2 DEF Call, ArgumentBase, ValuesNotMain
<1>10. CASE ReturnToCaller
  <2>1. Instruction.op = "RETURN_VALUE" => stack_count # 0
    BY <1>10, FaultOf DEF ReturnToCaller, Executing, ReturnFault
  <2>2. stack_count \in 0 .. MaxVmStackValues
    BY <1>0 DEF TypeOK
  <2>3. Instruction.op = "RETURN_VALUE" => NotMain(Peek(0))
    BY <1>0, <2>1, <2>2, PeekNotMain, VmAssumption DEF VmAssumption
  <2>4. NotMain(ReturnedValue)
    BY <1>10, <2>3
       DEF ReturnToCaller, Executing, ReturnOps, ReturnedValue, Null, NotMain
  <2>5. \A k \in 0 .. MaxVmStackValues - 1 : NotMain(stack'[k])
    BY <1>0, <1>10, <2>4 DEF ReturnToCaller, ValuesNotMain, TypeOK
  <2> QED
    BY <1>1, <1>10, <2>5 DEF ReturnToCaller
<1>11. CASE Pop \/ Jump \/ ReturnFromMain \/ Finish \/ Abort
  BY <1>11 DEF Pop, Jump, ReturnFromMain, Finish, Abort, ValuesNotMain
<1>12. CASE UNCHANGED vmVars
  BY <1>12 DEF vmVars, ValuesNotMain
<1> QED
  BY <1>2, <1>3, <1>4, <1>5, <1>6, <1>7, <1>8, <1>9, <1>10, <1>11, <1>12
     DEF Next, VmStep

(* A frame keeps its closure and its base pointer while it is live. *)
LEMMA GoToKeepsFrames ==
  ASSUME TypeOK, running, NEW ip, GoTo(ip)
  PROVE  /\ \A k \in 0 .. MaxVmFrames - 1 :
              /\ frames'[k].closure = frames[k].closure
              /\ frames'[k].base_pointer = frames[k].base_pointer
              /\ k # frame_count - 1 => frames'[k] = frames[k]
         /\ frames'[frame_count - 1].instruction_pointer = ip
<1>1. ASSUME NEW k \in 0 .. MaxVmFrames - 1
      PROVE  /\ frames'[k].closure = frames[k].closure
             /\ frames'[k].base_pointer = frames[k].base_pointer
             /\ k # frame_count - 1 => frames'[k] = frames[k]
  <2>1. frames[k] \in Frames
    BY DEF TypeOK
  <2> QED
    BY <2>1 DEF GoTo, Frames, TypeOK
<1>2. frames'[frame_count - 1].instruction_pointer = ip
  <2>1. Frame \in Frames /\ frame_count - 1 \in 0 .. MaxVmFrames - 1
    BY CurrentFrame
  <2> QED
    BY <2>1 DEF GoTo, Frames, Frame, TypeOK
<1> QED
  BY <1>1, <1>2

(* A call adds a frame and moves the caller past the call. *)
LEMMA CallFrames ==
  ASSUME Inv, Call
  PROVE  LET closure == Peek(Instruction.operand).data
             base == stack_count - Instruction.operand
         IN /\ frame_count \in 1 .. MaxVmFrames - 1
            /\ frame_count' = frame_count + 1
            /\ stack_count' = base + closures[closure].function.local_count
            /\ frames'[frame_count] =
                 [closure |-> closure, instruction_pointer |-> 0,
                  base_pointer |-> base]
            /\ frames'[frame_count - 1] =
                 [Frame EXCEPT !.instruction_pointer = @ + 1]
            /\ \A k \in 0 .. frame_count - 2 : frames'[k] = frames[k]
<1> DEFINE arguments == Instruction.operand
           closure == Peek(arguments).data
           base == stack_count - arguments
<1>1. frame_count \in 1 .. MaxVmFrames - 1
  BY CallFacts DEF Call, ArgumentBase, Inv
<1>2. /\ frames' = [frames EXCEPT
           ![frame_count - 1].instruction_pointer = @ + 1,
           ![frame_count] = [closure |-> closure, instruction_pointer |-> 0,
                             base_pointer |-> base]]
      /\ frame_count' = frame_count + 1
      /\ stack_count' = base + closures[closure].function.local_count
  BY DEF Call, ArgumentBase
<1>3. /\ frame_count - 1 \in 0 .. MaxVmFrames - 1
      /\ frame_count \in 0 .. MaxVmFrames - 1
      /\ frame_count - 1 # frame_count
  BY <1>1, VmAssumption DEF VmAssumption
<1>4. DOMAIN frames = 0 .. MaxVmFrames - 1
  BY DEF Inv, TypeOK
<1> HIDE DEF arguments, closure, base
<1>5. frames'[frame_count] =
        [closure |-> closure, instruction_pointer |-> 0, base_pointer |-> base]
  BY <1>2, <1>3, <1>4
<1>6. frames'[frame_count - 1] = [Frame EXCEPT !.instruction_pointer = @ + 1]
  BY <1>2, <1>3, <1>4 DEF Frame
<1>7. ASSUME NEW k \in 0 .. frame_count - 2
      PROVE  frames'[k] = frames[k]
  <2>1. k \in 0 .. MaxVmFrames - 1 /\ k # frame_count /\ k # frame_count - 1
    BY <1>1, VmAssumption DEF VmAssumption
  <2> QED
    BY <1>2, <1>4, <2>1
<1> QED
  BY <1>1, <1>2, <1>5, <1>6, <1>7 DEF arguments, closure, base

(* Every step keeps the main closure in the main frame alone. *)
LEMMA NextKeepsFramesNotMain ==
  Inv /\ ValuesNotMain /\ FramesNotMain /\ [Next]_vmVars => FramesNotMain'
<1> SUFFICES ASSUME Inv, ValuesNotMain, FramesNotMain, [Next]_vmVars
             PROVE  FramesNotMain'
  OBVIOUS
<1>0. TypeOK /\ frame_count \in 0 .. MaxVmFrames
  BY DEF Inv, TypeOK
<1>1. ASSUME running, \E ip : GoTo(ip),
             frame_count' \in {frame_count - 1, frame_count}
      PROVE  FramesNotMain'
  <2>1. \A k \in 0 .. MaxVmFrames - 1 :
          /\ frames'[k].closure = frames[k].closure
          /\ frames'[k].base_pointer = frames[k].base_pointer
    BY <1>0, <1>1, GoToKeepsFrames
  <2>2. /\ frame_count \in 1 .. MaxVmFrames
        /\ 0 \in 0 .. MaxVmFrames - 1
    BY <1>0, <1>1, CurrentFrame, VmAssumption DEF VmAssumption
  <2>3. \A k \in 1 .. frame_count' - 1 : k \in 1 .. frame_count - 1
    <3>1. frame_count' \in Int /\ frame_count \in Int /\ frame_count' <= frame_count
      BY <1>1, <2>2, VmAssumption DEF VmAssumption
    <3>2. ASSUME NEW a \in Int, NEW b \in Int, a <= b, NEW k \in 1 .. a - 1
          PROVE  k \in 1 .. b - 1
      BY <3>2
    <3> QED
      BY <3>1, <3>2
  <2>4. \A k \in 1 .. frame_count - 1 : k \in 0 .. MaxVmFrames - 1
    BY <2>2, VmAssumption DEF VmAssumption
  <2> QED
    BY <1>1, <2>1, <2>2, <2>3, <2>4 DEF FramesNotMain
<1>2. CASE RunLine
  <2>1. frame_count' = 1
    BY <1>2 DEF RunLine, VmRun
  <2>2. 1 .. frame_count' - 1 = {}
    BY <2>1
  <2>3. frames'[0] = [closure |-> 0, instruction_pointer |-> 0, base_pointer |-> 0]
    BY <1>0, <1>2, VmAssumption DEF VmAssumption, RunLine, VmRun, TypeOK
  <2> QED
    BY <2>2, <2>3 DEF FramesNotMain
<1>3. CASE Call
  <2> DEFINE closure == Peek(Instruction.operand).data
  <2>1. /\ frame_count \in 1 .. MaxVmFrames - 1
        /\ frame_count' = frame_count + 1
        /\ frames'[frame_count].closure = closure
        /\ frames'[frame_count - 1] =
             [Frame EXCEPT !.instruction_pointer = @ + 1]
        /\ \A k \in 0 .. frame_count - 2 : frames'[k] = frames[k]
    BY <1>3, CallFrames
  <2>2. closure # 0
    <3>1. /\ Instruction.op = "CALL" /\ CallFault(Instruction) = "none"
          /\ Instruction \in Instructions
      BY <1>0, <1>3, CurrentFrame, FaultOf DEF Call, ArgumentBase, Executing
    <3>2. /\ Instruction.operand \in Nat
          /\ ~(stack_count < Instruction.operand + 1)
          /\ Peek(Instruction.operand).type = "CLOSURE"
      BY <3>1 DEF CallFault, Instructions
    <3>3. Instruction.operand < stack_count
      BY <1>0, <3>2, VmAssumption DEF VmAssumption, TypeOK
    <3>4. NotMain(Peek(Instruction.operand))
      BY <1>0, <3>2, <3>3, PeekNotMain
    <3> QED
      BY <3>2, <3>4 DEF NotMain
  <2> HIDE DEF closure
  <2>3. Frame \in Frames /\ running
    BY <1>0, <1>3, CurrentFrame DEF Call, ArgumentBase, Executing
  <2>4. /\ frames'[frame_count - 1].closure = Frame.closure
        /\ frames'[frame_count - 1].base_pointer = Frame.base_pointer
    BY <2>1, <2>3 DEF Frames
  <2>5. ASSUME NEW k \in 0 .. frame_count - 1
        PROVE  /\ frames'[k].closure = frames[k].closure
               /\ frames'[k].base_pointer = frames[k].base_pointer
    <3>1. CASE k = frame_count - 1
      BY <2>4, <3>1 DEF Frame
    <3>2. CASE k # frame_count - 1
      <4>1. k \in 0 .. frame_count - 2
        BY <2>1, <3>2, VmAssumption DEF VmAssumption
      <4> QED
        BY <2>1, <4>1
    <3> QED
      BY <3>1, <3>2
  <2>6. ASSUME NEW k \in 1 .. frame_count' - 1
        PROVE  frames'[k].closure # 0
    <3>1. CASE k = frame_count
      BY <2>1, <2>2, <3>1
    <3>2. CASE k # frame_count
      <4>1. k \in 1 .. frame_count - 1 /\ k \in 0 .. frame_count - 1
        BY <2>1, <3>2, VmAssumption DEF VmAssumption
      <4> QED
        BY <2>3, <2>5, <4>1 DEF FramesNotMain
    <3> QED
      BY <3>1, <3>2
  <2>7. 0 \in 0 .. frame_count - 1
    BY <2>1, VmAssumption DEF VmAssumption
  <2> QED
    BY <2>3, <2>5, <2>6, <2>7 DEF FramesNotMain
<1>4. CASE Load \/ Pop \/ ExecuteBinary \/ ExecuteUnary
  BY <1>1, <1>4 DEF Load, Pop, ExecuteBinary, ExecuteUnary, Executing, Advance
<1>5. CASE SetGlobal \/ SetLocal \/ PushClosure \/ ReturnToCaller
  BY <1>1, <1>5 DEF SetGlobal, SetLocal, PushClosure, ReturnToCaller, Executing,
     Advance
<1>6. CASE Jump
  BY <1>1, <1>6 DEF Jump, Executing, Advance
<1>7. CASE ReturnFromMain \/ Finish \/ Abort
  BY <1>7 DEF ReturnFromMain, Finish, Abort, FramesNotMain
<1>8. CASE UNCHANGED vmVars
  BY <1>8 DEF vmVars, FramesNotMain
<1> QED
  BY <1>2, <1>3, <1>4, <1>5, <1>6, <1>7, <1>8 DEF Next, VmStep

-----------------------------------------------------------------------------
(* Every step keeps the stack discipline *)

(* The frame at k stands on the stack up to top. *)
Standing(k, top) ==
  /\ frames[k].instruction_pointer \in 0 .. Len(FrameFunction(k).instructions)
  /\ FrameHeight(k) >= 0
  /\ frames[k].base_pointer + FrameFunction(k).local_count + FrameHeight(k) = top

(* A frame that a step leaves alone stands as before. *)
LEMMA StandingKept ==
  ASSUME Inv, NEW k \in 0 .. MaxVmFrames - 1, NEW top, Standing(k, top),
         \A c \in 0 .. closure_count : closures'[c] = closures[c],
         frames'[k] = frames[k]
  PROVE  Standing(k, top)'
<1>1. frames[k].closure \in 0 .. closure_count
  BY DEF Inv, ValuesSound
<1>2. FrameFunction(k)' = FrameFunction(k)
  BY <1>1 DEF FrameFunction
<1>3. FrameHeight(k)' = FrameHeight(k)
  BY <1>2 DEF FrameHeight
<1> QED
  BY <1>2, <1>3 DEF Standing

(* The current frame, moved to a successor of its instruction, stands on the
   stack with what the instruction took and gave. *)
LEMMA StandingMoved ==
  ASSUME Inv, running, ~AtEnd, NEW ip \in Nat,
         ip + 1 \in Successors(Code, Position),
         frames'[frame_count - 1].instruction_pointer = ip,
         frames'[frame_count - 1].closure = Frame.closure,
         frames'[frame_count - 1].base_pointer = Frame.base_pointer,
         \A c \in 0 .. closure_count : closures'[c] = closures[c]
  PROVE  LET k == frame_count - 1
             function == closures'[frames'[k].closure].function
             height ==
               Heights(function.instructions)[frames'[k].instruction_pointer + 1]
         IN /\ frames'[k].instruction_pointer \in 0 .. Len(function.instructions)
            /\ height >= 0
            /\ frames'[k].base_pointer + function.local_count + height
                 = stack_count - Taken(Instruction) + Given(Instruction)
<1>1. Frame.closure \in 0 .. closure_count
  BY CurrentFrame DEF Inv, ValuesSound, Frame
<1>2. closures'[frames'[frame_count - 1].closure].function = Function
  BY <1>1 DEF Function
<1>3. /\ ip + 1 \in 1 .. Len(Code) + 1
      /\ Heights(Code)[ip + 1] = HeightAfter(Instruction, Height)
      /\ Height >= Taken(Instruction)
  BY CurrentInstruction
<1>4. Taken(Instruction) \in Nat /\ Given(Instruction) \in Nat
  <2>1. Instruction \in Instructions
    BY CurrentFrame DEF Inv
  <2>2. Instruction.op \in LoadOps \union BinaryOps \union UnaryOps
                             \union JumpOps \union ReturnOps
                             \union {"POP", "SET_GLOBAL", "SET_LOCAL",
                                     "CLOSURE", "CALL"}
    BY <2>1 DEF Instructions, OpCodes
  <2>3. Taken(Instruction)
          \in {0, 1, 2, Instruction.operand + 1, Instruction.operand2}
    BY <2>2, TakenOf DEF JumpOps, ReturnOps
  <2>4. Instruction.operand \in Nat /\ Instruction.operand2 \in Nat
    BY <2>1 DEF Instructions
  <2> QED
    BY <2>3, <2>4 DEF Given
<1>5. /\ Height \in Nat /\ Floor \in Nat
      /\ stack_count = Floor + Height
  BY CurrentHeight
<1>6. Heights(Code)[ip + 1] = Height - Taken(Instruction) + Given(Instruction)
  BY <1>3 DEF HeightAfter
<1>7. Heights(Code)[ip + 1] >= 0
  BY <1>3, <1>4, <1>5, <1>6
<1>8. Floor + Heights(Code)[ip + 1]
        = stack_count - Taken(Instruction) + Given(Instruction)
  BY <1>4, <1>5, <1>6
<1>9. ip \in 0 .. Len(Code)
  BY <1>3, CurrentFrame DEF Inv
<1> QED
  BY <1>2, <1>7, <1>8, <1>9 DEF Floor, Code

(* The discipline is that every frame stands where it should. *)
LEMMA DisciplineStanding ==
  StackDiscipline <=>
    (running => \A k \in 0 .. frame_count - 1 :
                  Standing(k, IF k = frame_count - 1
                                THEN stack_count ELSE frames[k + 1].base_pointer))
BY DEF StackDiscipline, Standing

(* A step within the current frame. *)
LEMMA MoveKeepsDiscipline ==
  ASSUME Inv, running, ~AtEnd, NEW ip \in Nat, GoTo(ip),
         ip + 1 \in Successors(Code, Position),
         frame_count' = frame_count,
         stack_count' = stack_count - Taken(Instruction) + Given(Instruction),
         \A c \in 0 .. closure_count : closures'[c] = closures[c]
  PROVE  StackDiscipline'
<1>1. /\ \A k \in 0 .. MaxVmFrames - 1 :
           /\ frames'[k].closure = frames[k].closure
           /\ frames'[k].base_pointer = frames[k].base_pointer
           /\ k # frame_count - 1 => frames'[k] = frames[k]
      /\ frames'[frame_count - 1].instruction_pointer = ip
  BY GoToKeepsFrames DEF Inv
<1>2. /\ frame_count \in 1 .. MaxVmFrames
      /\ frame_count - 1 \in 0 .. MaxVmFrames - 1
  BY CurrentFrame DEF Inv
<1>3. ASSUME NEW k \in 0 .. frame_count - 1
      PROVE  Standing(k, IF k = frame_count - 1
                           THEN stack_count ELSE frames[k + 1].base_pointer)'
  <2>1. CASE k = frame_count - 1
    <3>1. /\ frames'[k].closure = Frame.closure
          /\ frames'[k].base_pointer = Frame.base_pointer
      BY <1>1, <1>2, <2>1 DEF Frame
    <3> QED
      BY <1>1, <2>1, <3>1, StandingMoved DEF Standing, FrameFunction, FrameHeight
  <2>2. CASE k # frame_count - 1
    <3>1. k \in 0 .. MaxVmFrames - 1 /\ k + 1 \in 0 .. MaxVmFrames - 1
      BY <1>2, <2>2, VmAssumption DEF VmAssumption
    <3>2. Standing(k, frames[k + 1].base_pointer)
      BY <2>2, DisciplineStanding DEF Inv, VerifiedInv
    <3>3. /\ frames'[k] = frames[k]
          /\ frames'[k + 1].base_pointer = frames[k + 1].base_pointer
      BY <1>1, <2>2, <3>1
    <3>4. Standing(k, frames[k + 1].base_pointer)'
      BY <3>1, <3>2, <3>3, StandingKept DEF Standing
    <3> QED
      BY <2>2, <3>4
  <2> QED
    BY <2>1, <2>2
<1> QED
  BY <1>3, DisciplineStanding DEF StackDiscipline, Standing

(* An instruction that changes the height as the verifier says, and moves on. *)
LEMMA AdvanceKeepsDiscipline ==
  ASSUME Inv, running, ~AtEnd, Advance,
         Instruction.op \notin {"JUMP"} \union ReturnOps,
         frame_count' = frame_count,
         stack_count' = stack_count - Taken(Instruction) + Given(Instruction),
         \A c \in 0 .. closure_count : closures'[c] = closures[c]
  PROVE  StackDiscipline'
<1>1. Frame.instruction_pointer + 1 \in Nat
  BY CurrentFrame DEF Inv, Frames
<1>2. Position + 1 \in Successors(Code, Position)
  BY CurrentHeight, SuccessorsOf
<1>3. Frame.instruction_pointer + 1 + 1 \in Successors(Code, Position)
  BY <1>2 DEF Position
<1> QED
  BY <1>1, <1>3, MoveKeepsDiscipline DEF Advance

(* What each opcode does to the height of the stack. *)
LEMMA StackCountMoves ==
  ASSUME Inv,
         \/ Load \/ Pop \/ ExecuteBinary \/ ExecuteUnary
         \/ SetGlobal \/ SetLocal \/ PushClosure
  PROVE  /\ running /\ ~AtEnd /\ Advance
         /\ frame_count' = frame_count
         /\ Instruction.op \notin {"JUMP"} \union ReturnOps
         /\ stack_count' = stack_count - Taken(Instruction) + Given(Instruction)
         /\ \A c \in 0 .. closure_count : closures'[c] = closures[c]
<1> DEFINE i == Instruction
<1>0. stack_count \in Int
  BY VmAssumption DEF VmAssumption, Inv, TypeOK
<1>1. CASE Load
  <2>1. i.op \in LoadOps
    BY <1>1 DEF Load, Executing
  <2>2. Taken(i) = 0 /\ Given(i) = 1
    BY <2>1, TakenOf, GivenOf
  <2>3. i.op \notin {"JUMP"} \union ReturnOps
    BY <2>1 DEF LoadOps, ReturnOps
  <2>4. stack_count' = stack_count - 0 + 1
    BY <1>1 DEF Load, PopPush
  <2> HIDE DEF i
  <2> QED
    BY <1>1, <2>2, <2>3, <2>4 DEF Load, Executing, i
<1>2. CASE Pop \/ SetGlobal \/ SetLocal
  <2>1. i.op \in {"POP", "SET_GLOBAL", "SET_LOCAL"}
    BY <1>2 DEF Pop, SetGlobal, SetLocal, Executing
  <2>2. Taken(i) = 1 /\ Given(i) = 0
    BY <2>1, TakenOf, GivenOf
  <2>3. i.op \notin {"JUMP"} \union ReturnOps
    BY <2>1 DEF ReturnOps
  <2>4. stack_count' = stack_count - 1 + 0
    BY <1>0, <1>2 DEF Pop, SetGlobal, SetLocal
  <2> HIDE DEF i
  <2> QED
    BY <1>2, <2>2, <2>3, <2>4 DEF Pop, SetGlobal, SetLocal, Executing, i
<1>3. CASE ExecuteBinary
  <2>1. i.op \in BinaryOps
    BY <1>3 DEF ExecuteBinary, Executing
  <2>2. Taken(i) = 2 /\ Given(i) = 1
    BY <2>1, TakenOf, GivenOf
  <2>3. i.op \notin {"JUMP"} \union ReturnOps
    BY <2>1 DEF BinaryOps, ArithmeticOps, ComparisonOps, ReturnOps
  <2>4. stack_count' = stack_count - 2 + 1
    BY <1>3 DEF ExecuteBinary, PopPush
  <2> HIDE DEF i
  <2> QED
    BY <1>3, <2>2, <2>3, <2>4 DEF ExecuteBinary, Executing, i
<1>4. CASE ExecuteUnary
  <2>1. i.op \in UnaryOps
    BY <1>4 DEF ExecuteUnary, Executing
  <2>2. Taken(i) = 1 /\ Given(i) = 1
    BY <2>1, TakenOf, GivenOf
  <2>3. i.op \notin {"JUMP"} \union ReturnOps
    BY <2>1 DEF UnaryOps, ReturnOps
  <2>4. stack_count' = stack_count - 1 + 1
    BY <1>4 DEF ExecuteUnary, PopPush
  <2> HIDE DEF i
  <2> QED
    BY <1>4, <2>2, <2>3, <2>4 DEF ExecuteUnary, Executing, i
<1>5. CASE PushClosure
  <2>1. i.op = "CLOSURE"
    BY <1>5 DEF PushClosure, Executing
  <2>2. Taken(i) = i.operand2 /\ Given(i) = 1
    BY <2>1, TakenOf, GivenOf
  <2>3. i.op \notin {"JUMP"} \union ReturnOps
    BY <2>1 DEF ReturnOps
  <2>4. stack_count' = stack_count - i.operand2 + 1
    BY <1>5 DEF PushClosure, PopPush
  <2>5. closure_count + 1 \notin 0 .. closure_count
    BY VmAssumption DEF VmAssumption, Inv, TypeOK
  <2>6. /\ closure_count \in 0 .. MaxVmClosures
        /\ DOMAIN closures = 0 .. MaxVmClosures
    BY DEF Inv, TypeOK
  <2>7. ASSUME NEW c \in 0 .. closure_count
        PROVE  closures'[c] = closures[c]
    <3>1. c \in 0 .. MaxVmClosures /\ c # closure_count + 1
      BY <2>5, <2>6, VmAssumption DEF VmAssumption
    <3> QED
      BY <1>5, <2>6, <3>1 DEF PushClosure
  <2> HIDE DEF i
  <2> QED
    BY <1>5, <2>2, <2>3, <2>4, <2>7 DEF PushClosure, Executing, i
<1> QED
  BY <1>1, <1>2, <1>3, <1>4, <1>5

(* Both ways of a jump have the verifier's height. *)
LEMMA JumpKeepsDiscipline == Inv /\ Jump => StackDiscipline'
<1> SUFFICES ASSUME Inv, Jump PROVE StackDiscipline'
  OBVIOUS
<1> DEFINE i == Instruction
<1>1. /\ running /\ ~AtEnd /\ i.op \in JumpOps
      /\ i \in Instructions
      /\ Position \in 1 .. Len(Code)
      /\ i = Code[Position]
      /\ stack_count \in Int
  BY CurrentFrame, CurrentHeight, VmAssumption
     DEF VmAssumption, Jump, Executing, Inv, TypeOK
<1>2. i.operand \in Nat
  BY <1>1 DEF Instructions
<1>3. Given(i) = 0
  BY <1>1, GivenOf
<1>4. PICK ip \in Nat : GoTo(ip) /\ ip + 1 \in Successors(Code, Position)
  <2>1. /\ Frame.instruction_pointer \in Nat
        /\ Position = Frame.instruction_pointer + 1
    BY <1>1, CurrentFrame DEF Inv, Frames, Position
  <2>2. /\ i.operand + 1 \in Successors(Code, Position)
        /\ i.op = "JUMP_NOT_TRUTHY" => Position + 1 \in Successors(Code, Position)
    BY <1>1, SuccessorsOf DEF JumpOps
  <2>3. \/ GoTo(i.operand)
        \/ i.op = "JUMP_NOT_TRUTHY" /\ GoTo(Frame.instruction_pointer + 1)
    BY <1>1 DEF Jump, JumpOps, Advance
  <2> HIDE DEF i
  <2> QED
    BY <1>2, <2>1, <2>2, <2>3
<1>5. stack_count' = stack_count - Taken(i) + Given(i)
  <2>1. CASE i.op = "JUMP"
    <3>1. stack_count' = stack_count /\ Taken(i) = 0
      BY <2>1, TakenOf DEF Jump
    <3> QED
      BY <1>1, <1>3, <3>1
  <2>2. CASE i.op = "JUMP_NOT_TRUTHY"
    <3>1. stack_count' = stack_count - 1 /\ Taken(i) = 1
      BY <2>2, TakenOf DEF Jump
    <3> QED
      BY <1>1, <1>3, <3>1
  <2> QED
    BY <1>1, <2>1, <2>2 DEF JumpOps
<1> QED
  BY <1>1, <1>4, <1>5, MoveKeepsDiscipline DEF Jump

(* A call: the caller waits with its result's place on top, the callee starts
   at the beginning of its code. *)
LEMMA CallKeepsDiscipline == Inv /\ Call => StackDiscipline'
<1> SUFFICES ASSUME Inv, Call PROVE StackDiscipline'
  OBVIOUS
<1> DEFINE i == Instruction
           closure == Peek(i.operand).data
           callee == closures[closure].function
           base == stack_count - i.operand
<1>1. /\ frame_count \in 1 .. MaxVmFrames - 1
      /\ frame_count' = frame_count + 1
      /\ stack_count' = base + callee.local_count
      /\ frames'[frame_count] = [closure |-> closure, instruction_pointer |-> 0,
                                 base_pointer |-> base]
      /\ frames'[frame_count - 1] = [Frame EXCEPT !.instruction_pointer = @ + 1]
      /\ \A k \in 0 .. frame_count - 2 : frames'[k] = frames[k]
  BY CallFrames
<1>2. /\ closure \in 0 .. closure_count
      /\ base \in 1 .. MaxVmStackValues
      /\ i.operand \in Nat
      /\ callee \in CompiledFunctions
  BY CallFacts DEF Inv, Call, ArgumentBase
<1>3. /\ running /\ ~AtEnd /\ i.op = "CALL"
      /\ closures' = closures
      /\ stack_count \in Int
  BY VmAssumption DEF VmAssumption, Call, ArgumentBase, Executing, Inv, TypeOK
<1>4. closure # 0
  <2>1. /\ i.operand < stack_count
        /\ Peek(i.operand).type = "CLOSURE"
    <3>1. CallFault(i) = "none"
      BY FaultOf DEF Call, ArgumentBase, Executing
    <3>2. ~(stack_count < i.operand + 1) /\ Peek(i.operand).type = "CLOSURE"
      BY <3>1 DEF CallFault
    <3> QED
      BY <1>2, <1>3, <3>2
  <2>2. NotMain(Peek(i.operand))
    BY <1>2, <2>1, PeekNotMain, HiddenParts DEF Inv, VerifiedInv
  <2> QED
    BY <2>1, <2>2 DEF NotMain
<1>5. Heights(callee.instructions)[1] = 0
  <2>1. closure \in 1 .. closure_count
    <3>1. closure_count \in Nat
      BY VmAssumption DEF VmAssumption, Inv, TypeOK
    <3> HIDE DEF closure
    <3> QED
      BY <1>2, <1>4, <3>1
  <2>2. PICK k \in 1 .. Len(functions) : callee = functions[k]
    BY <2>1 DEF Inv, VerifiedInv, LiveCodeVerified
  <2>3. VerifiedFunction(RunningBytecode, callee)
    BY <1>3, <2>2 DEF Verified, RunningBytecode, Inv, VerifiedInv, LiveCodeVerified
  <2> QED
    BY <2>3 DEF VerifiedFunction, HeightsAgree
<1>6. callee.local_count \in Nat /\ Len(callee.instructions) \in Nat
  BY <1>2 DEF CompiledFunctions
<1>7. Frame \in Frames
  BY <1>3, CurrentFrame DEF Inv
<1> HIDE DEF closure, callee, base, i
<1>8. ASSUME NEW k \in 0 .. frame_count' - 1
      PROVE  Standing(k, IF k = frame_count - 1
                           THEN stack_count ELSE frames[k + 1].base_pointer)'
  <2>0. /\ k \in Int /\ frame_count \in Int
        /\ k = frame_count \/ k = frame_count - 1 \/ k \in 0 .. frame_count - 2
        /\ k = frame_count' - 1 <=> k = frame_count
    <3>1. ASSUME NEW a \in Int, NEW b \in Int, a = b + 1, NEW j \in 0 .. a - 1
          PROVE  /\ j \in Int
                 /\ j = b \/ j = b - 1 \/ j \in 0 .. b - 2
                 /\ j = a - 1 <=> j = b
      BY <3>1
    <3>2. frame_count \in Int /\ frame_count' \in Int
      BY <1>1, VmAssumption DEF VmAssumption
    <3> QED
      BY <1>1, <3>1, <3>2
  <2>1. CASE k = frame_count
    <3>1. /\ frames'[k] = [closure |-> closure, instruction_pointer |-> 0,
                           base_pointer |-> base]
          /\ closures'[frames'[k].closure].function = callee
      BY <1>1, <1>3, <2>1 DEF callee
    <3>2. /\ closures'[frames'[k].closure].function = callee
          /\ frames'[k].instruction_pointer = 0
          /\ frames'[k].base_pointer = base
      BY <3>1
    <3>3. /\ FrameFunction(k)' = callee
          /\ FrameHeight(k)' = Heights(callee.instructions)[0 + 1]
      BY <3>2 DEF FrameFunction, FrameHeight
    <3>4. FrameHeight(k)' = 0
      BY <1>5, <3>3
    <3>5. Standing(k, stack_count)'
      BY <1>1, <1>2, <1>6, <3>2, <3>3, <3>4 DEF Standing
    <3> QED
      BY <2>0, <2>1, <3>5
  <2>2. CASE k = frame_count - 1
    <3>1. /\ frames'[k].closure = Frame.closure
          /\ frames'[k].base_pointer = Frame.base_pointer
          /\ frames'[k].instruction_pointer = Frame.instruction_pointer + 1
      BY <1>1, <1>7, <2>2 DEF Frames
    <3>2. Frame.instruction_pointer + 1 \in Nat
      BY <1>7 DEF Frames
    <3>3. Frame.instruction_pointer + 1 + 1 \in Successors(Code, Position)
      <4>1. Position + 1 \in Successors(Code, Position)
        BY <1>3, CurrentHeight, SuccessorsOf DEF i, ReturnOps
      <4> QED
        BY <4>1 DEF Position
    <3>4. stack_count - Taken(Instruction) + Given(Instruction) = base
      <4>1. Taken(i) = i.operand + 1 /\ Given(i) = 1
        BY <1>3, TakenOf, GivenOf
      <4> QED
        BY <1>2, <1>3, <4>1 DEF base, i
    <3>5. frames'[k + 1].base_pointer = base
      BY <1>1, <2>0, <2>2
    <3>6. /\ frames'[k].instruction_pointer
               \in 0 .. Len(closures'[frames'[k].closure].function.instructions)
          /\ Heights(closures'[frames'[k].closure].function.instructions)
               [frames'[k].instruction_pointer + 1] >= 0
          /\ frames'[k].base_pointer
               + closures'[frames'[k].closure].function.local_count
               + Heights(closures'[frames'[k].closure].function.instructions)
                   [frames'[k].instruction_pointer + 1]
               = stack_count - Taken(Instruction) + Given(Instruction)
      BY <1>3, <2>2, <3>1, <3>2, <3>3, StandingMoved
    <3>7. Standing(k, frames[k + 1].base_pointer)'
      BY <3>4, <3>5, <3>6 DEF Standing, FrameFunction, FrameHeight
    <3>8. k # frame_count' - 1
      BY <2>0, <2>2
    <3> QED
      BY <3>7, <3>8 DEF Standing
  <2>3. CASE k \in 0 .. frame_count - 2
    <3>1. /\ k \in 0 .. MaxVmFrames - 1 /\ k \in 0 .. frame_count - 1
          /\ k # frame_count /\ k # frame_count - 1
          /\ k + 1 \in 0 .. frame_count - 2 \/ k + 1 = frame_count - 1
      BY <1>1, <2>3, VmAssumption DEF VmAssumption
    <3>2. Standing(k, frames[k + 1].base_pointer)
      BY <1>3, <3>1, DisciplineStanding DEF Inv, VerifiedInv
    <3>3. frames'[k] = frames[k]
      BY <1>1, <2>3
    <3>4. frames'[k + 1].base_pointer = frames[k + 1].base_pointer
      <4>1. CASE k + 1 \in 0 .. frame_count - 2
        BY <1>1, <4>1
      <4>2. CASE k + 1 = frame_count - 1
        BY <1>1, <1>7, <4>2 DEF Frames, Frame
      <4> QED
        BY <3>1, <4>1, <4>2
    <3>5. Standing(k, frames[k + 1].base_pointer)'
      BY <1>3, <3>1, <3>2, <3>3, <3>4, StandingKept DEF Standing
    <3> QED
      BY <2>0, <3>1, <3>5 DEF Standing
  <2> QED
    BY <2>0, <2>1, <2>2, <2>3
<1> QED
  BY <1>8, DisciplineStanding DEF StackDiscipline, Standing

(* A return: the callee's frame goes, and the stack ends with the result, where
   the caller waits for it. *)
LEMMA ReturnKeepsDiscipline == Inv /\ ReturnToCaller => StackDiscipline'
<1> SUFFICES ASSUME Inv, ReturnToCaller PROVE StackDiscipline'
  OBVIOUS
<1>1. /\ running /\ running' = running
      /\ frame_count > 1
      /\ frame_count' = frame_count - 1
      /\ stack_count' = Frame.base_pointer
      /\ closures' = closures
      /\ GoTo(Frame.instruction_pointer + 1)
  BY DEF ReturnToCaller, Executing, Advance
<1>2. frame_count \in 2 .. MaxVmFrames
  BY <1>1, VmAssumption DEF VmAssumption, Inv, TypeOK
<1>3. \A k \in 0 .. MaxVmFrames - 1 :
        /\ k # frame_count - 1 => frames'[k] = frames[k]
        /\ frames'[k].base_pointer = frames[k].base_pointer
  BY <1>1, GoToKeepsFrames DEF Inv
<1>4. ASSUME NEW k \in 0 .. frame_count' - 1
      PROVE  Standing(k, IF k = frame_count - 1
                           THEN stack_count ELSE frames[k + 1].base_pointer)'
  <2>1. k \in 0 .. frame_count - 2
    <3>1. ASSUME NEW a \in Int, NEW b \in Int, a = b - 1, NEW j \in 0 .. a - 1
          PROVE  j \in 0 .. b - 2
      BY <3>1
    <3>2. frame_count \in Int /\ frame_count' \in Int
      BY <1>1, <1>2, VmAssumption DEF VmAssumption
    <3> QED
      BY <1>1, <3>1, <3>2
  <2>2. /\ k \in 0 .. MaxVmFrames - 1 /\ k \in 0 .. frame_count - 1
        /\ k # frame_count - 1
        /\ k + 1 \in 0 .. MaxVmFrames - 1
        /\ k = frame_count - 1 - 1 <=> k + 1 = frame_count - 1
    BY <1>2, <2>1, VmAssumption DEF VmAssumption
  <2>3. Standing(k, frames[k + 1].base_pointer)
    BY <1>1, <2>2, DisciplineStanding DEF Inv, VerifiedInv
  <2>4. /\ frames'[k] = frames[k]
        /\ frames'[k + 1].base_pointer = frames[k + 1].base_pointer
    BY <1>3, <2>2
  <2>5. Standing(k, frames[k + 1].base_pointer)'
    BY <1>1, <2>2, <2>3, <2>4, StandingKept DEF Standing
  <2>6. k = frame_count' - 1 => stack_count' = frames'[k + 1].base_pointer
    BY <1>1, <2>2, <2>4 DEF Frame
  <2> QED
    BY <2>5, <2>6 DEF Standing
<1> QED
  BY <1>4, DisciplineStanding DEF StackDiscipline, Standing

(* A new line starts with one frame and an empty stack. *)
LEMMA RunLineKeepsDiscipline ==
  Inv /\ AllVerified /\ RunLine => StackDiscipline'
<1> SUFFICES ASSUME Inv, AllVerified, RunLine PROVE StackDiscipline'
  OBVIOUS
<1>1. PICK b \in Bytecodes : VmRun(b)
  BY DEF RunLine
<1>2. /\ b.instructions \in Seq(Instructions)
      /\ Heights(b.instructions)[1] = 0
  BY BytecodesAssumption
     DEF IsBytecode, AllVerified, Verified, VerifiedMain, HeightsAgree
<1>3. /\ frame_count' = 1
      /\ stack_count' = 0
      /\ frames'[0] = [closure |-> 0, instruction_pointer |-> 0, base_pointer |-> 0]
      /\ closures'[0].function
           = [NoFunction EXCEPT !.instructions = b.instructions]
  BY <1>1, VmAssumption DEF VmAssumption, VmRun, Inv, TypeOK
<1>4. /\ closures'[0].function.instructions = b.instructions
      /\ closures'[0].function.local_count = 0
  BY <1>3 DEF NoFunction
<1>5. /\ FrameFunction(0)'.instructions = b.instructions
      /\ FrameFunction(0)'.local_count = 0
      /\ frames'[0].instruction_pointer = 0
      /\ frames'[0].base_pointer = 0
  <2>1. /\ frames'[0].closure = 0
        /\ frames'[0].instruction_pointer = 0
        /\ frames'[0].base_pointer = 0
    BY <1>3
  <2> QED
    BY <1>4, <2>1 DEF FrameFunction
<1>6. FrameHeight(0)' = 0
  BY <1>2, <1>5 DEF FrameHeight
<1>7. Len(b.instructions) \in Nat
  BY <1>2
<1>8. Standing(0, stack_count)'
  BY <1>3, <1>5, <1>6, <1>7 DEF Standing
<1>9. \A k \in 0 .. frame_count' - 1 : k = 0 /\ k = frame_count' - 1
  BY <1>3
<1> QED
  BY <1>8, <1>9, DisciplineStanding DEF StackDiscipline, Standing

(* Every step keeps the discipline. *)
LEMMA NextKeepsDiscipline ==
  Inv /\ AllVerified /\ [Next]_vmVars => StackDiscipline'
<1> SUFFICES ASSUME Inv, AllVerified, [Next]_vmVars PROVE StackDiscipline'
  OBVIOUS
<1>1. CASE \/ Load \/ Pop \/ ExecuteBinary \/ ExecuteUnary
           \/ SetGlobal \/ SetLocal \/ PushClosure
  BY <1>1, StackCountMoves, AdvanceKeepsDiscipline
<1>2. CASE ReturnFromMain \/ Finish \/ Abort
  BY <1>2 DEF ReturnFromMain, Finish, Abort, StackDiscipline
<1>3. CASE UNCHANGED vmVars
  BY <1>3 DEF Inv, VerifiedInv, vmVars, StackDiscipline, FrameFunction, FrameHeight
<1> QED
  BY <1>1, <1>2, <1>3, JumpKeepsDiscipline, CallKeepsDiscipline,
     ReturnKeepsDiscipline, RunLineKeepsDiscipline DEF Next, VmStep

-----------------------------------------------------------------------------
(* The invariant *)

(* The invariant holds at the start. *)
LEMMA InitInv == VmInit => Inv
<1> SUFFICES ASSUME VmInit PROVE Inv
  OBVIOUS
<1>1. TypeOK /\ ValuesSound /\ FrameBasePositive
  BY InitType, InitSound DEF VmInit, FrameBasePositive
<1>2. LiveCodeVerified
  <2>1. 1 .. closure_count = {}
    BY DEF VmInit
  <2> QED
    BY <2>1 DEF VmInit, LiveCodeVerified
<1>3. MainClosureHidden
  <2>1. NotMain(Null)
    BY DEF Null, NotMain
  <2>2. ASSUME NEW c \in 0 .. MaxVmClosures
        PROVE  1 .. Len(closures[c].free_values) = {}
    BY DEF VmInit
  <2> QED
    BY <2>1, <2>2 DEF VmInit, MainClosureHidden
<1>4. StackDiscipline
  BY DEF VmInit, StackDiscipline
<1> QED
  BY <1>1, <1>2, <1>3, <1>4 DEF Inv, VerifiedInv

(* Every step keeps the invariant. *)
LEMMA NextKeepsInv == Inv /\ AllVerified /\ [Next]_vmVars => Inv'
<1> SUFFICES ASSUME Inv, AllVerified, [Next]_vmVars PROVE Inv'
  OBVIOUS
<1>1. TypeOK' /\ ValuesSound' /\ FrameBasePositive'
  BY NextKeepsType, NextKeepsSound, NextKeepsFrameBase DEF Inv
<1>2. MainClosureHidden'
  <2>1. ValuesNotMain /\ FramesNotMain
    BY HiddenParts DEF Inv, VerifiedInv
  <2>2. ValuesNotMain' /\ FramesNotMain'
    BY <2>1, NextKeepsValuesNotMain, NextKeepsFramesNotMain
  <2> QED
    BY <2>2 DEF MainClosureHidden, ValuesNotMain, FramesNotMain
<1> QED
  BY <1>1, <1>2, NextKeepsLiveCode, NextKeepsDiscipline DEF Inv, VerifiedInv

(* Given only verified bytecode, the stack is at all times its frames one
   above the other, each at the height the verifier computed from the code
   alone: vm_call and vm_return keep base pointers and stack_count in step. *)
THEOREM StackAlwaysDisciplined ==
  ASSUME AllVerified
  PROVE  Spec => []StackDiscipline
<1>1. VmInit => Inv
  BY InitInv
<1>2. Inv /\ [Next]_vmVars => Inv'
  BY NextKeepsInv
<1>3. Inv => StackDiscipline
  BY DEF Inv, VerifiedInv
<1> QED
  BY <1>1, <1>2, <1>3, PTL DEF Spec

(* Given only verified bytecode, no PANIC about the machine's own bookkeeping
   is reached: the checks of stack underflow, local, global, constant and free
   value indices, jump targets and missing returns in vm.c never fire. *)
THEOREM VerifiedNeverFaults ==
  ASSUME AllVerified
  PROVE  Spec => []NoInternalFault
<1>1. VmInit => Inv /\ NoInternalFault
  BY InitInv DEF VmInit, NoInternalFault, InternalFaults
<1>2. Inv /\ [Next]_vmVars => Inv'
  BY NextKeepsInv
<1>3. Inv /\ NoInternalFault /\ [Next]_vmVars => NoInternalFault'
  <2> SUFFICES ASSUME Inv, NoInternalFault, [Next]_vmVars PROVE NoInternalFault'
    OBVIOUS
  <2>1. CASE Abort
    BY <2>1, VerifiedStepFault DEF Abort, NoInternalFault
  <2>2. CASE Load \/ Pop \/ ExecuteBinary \/ ExecuteUnary \/ Jump
    BY <2>2 DEF Load, Pop, ExecuteBinary, ExecuteUnary, Jump, NoInternalFault
  <2>3. CASE SetGlobal \/ SetLocal \/ PushClosure \/ Call
    BY <2>3 DEF SetGlobal, SetLocal, PushClosure, Call, ArgumentBase, NoInternalFault
  <2>4. CASE ReturnFromMain \/ ReturnToCaller \/ Finish
    BY <2>4 DEF ReturnFromMain, ReturnToCaller, Finish, NoInternalFault
  <2>5. CASE RunLine \/ UNCHANGED vmVars
    BY <2>5 DEF RunLine, VmRun, vmVars, NoInternalFault
  <2> QED
    BY <2>1, <2>2, <2>3, <2>4, <2>5 DEF Next, VmStep
<1> QED
  BY <1>1, <1>2, <1>3, PTL DEF Spec

-----------------------------------------------------------------------------
(* A function cannot touch its callers *)

(* A step writes to the stack only above the callee's slot. *)
LEMMA CallerStackKept ==
  ASSUME Inv, VmStep, running
  PROVE  \A k \in 0 .. Frame.base_pointer - 2 : stack'[k] = stack[k]
<1> DEFINE i == Instruction
           untouched == 0 .. Frame.base_pointer - 2
<1>1. /\ Frame.base_pointer \in 0 .. MaxVmStackValues
      /\ Function.local_count \in Nat
      /\ stack_count \in 0 .. MaxVmStackValues
      /\ stack_count = Floor + Height
      /\ Height \in Nat
      /\ Floor = Frame.base_pointer + Function.local_count
  BY CurrentFrame, CurrentHeight DEF Inv, TypeOK, Frames, CompiledFunctions, Floor
<1>2. untouched \subseteq 0 .. MaxVmStackValues - 1
  BY <1>1, VmAssumption DEF VmAssumption
<1>3. DOMAIN stack = 0 .. MaxVmStackValues - 1
  BY DEF Inv, TypeOK
<1>4. ASSUME NEW pops \in Nat, NEW v, PopPush(pops, v), Height >= pops
      PROVE  \A k \in untouched : stack'[k] = stack[k]
  <2>1. stack_count - pops \notin untouched
    BY <1>1, <1>4, VmAssumption DEF VmAssumption
  <2> HIDE DEF untouched
  <2> QED
    BY <1>2, <1>3, <1>4, <2>1 DEF PopPush
<1>5. CASE Load
  <2>1. Height >= 0
    BY <1>1
  <2> QED
    BY <1>4, <1>5, <2>1 DEF Load
<1>6. CASE ExecuteBinary
  <2>1. Height >= 2
    BY <1>6, CurrentInstruction, TakenOf DEF ExecuteBinary, Executing
  <2> QED
    BY <1>4, <1>6, <2>1 DEF ExecuteBinary
<1>7. CASE ExecuteUnary
  <2>1. Height >= 1
    BY <1>7, CurrentInstruction, TakenOf DEF ExecuteUnary, Executing
  <2> QED
    BY <1>4, <1>7, <2>1 DEF ExecuteUnary
<1>8. CASE PushClosure
  <2>1. /\ Height >= i.operand2
        /\ i.operand2 \in Nat
    BY <1>8, CurrentFrame, CurrentInstruction, TakenOf
       DEF PushClosure, Executing, Instructions, Inv
  <2> QED
    BY <1>4, <1>8, <2>1 DEF PushClosure
<1>9. CASE SetLocal
  <2>1. i.operand \in Nat
    BY <1>9, CurrentFrame DEF SetLocal, Executing, Instructions, Inv
  <2>2. Frame.base_pointer + i.operand \notin untouched
    <3> HIDE DEF i
    <3> QED
      BY <1>1, <2>1, VmAssumption DEF VmAssumption
  <2>3. stack' = [stack EXCEPT ![Frame.base_pointer + i.operand] = Peek(0)]
    BY <1>9 DEF SetLocal
  <2> HIDE DEF i, untouched
  <2> QED
    BY <1>2, <1>3, <2>2, <2>3 DEF untouched
<1>10. CASE Call
  <2>1. /\ i.op = "CALL" /\ ~AtEnd
        /\ i.operand \in Nat
        /\ Height >= i.operand + 1
    BY <1>10, CurrentFrame, CurrentInstruction, TakenOf
       DEF Call, ArgumentBase, Executing, Instructions, Inv
  <2>2. PICK top :
          stack' = [k \in 0 .. MaxVmStackValues - 1 |->
                      IF k \in stack_count - i.operand + i.operand .. top - 1
                        THEN Null ELSE stack[k]]
    BY <1>10 DEF Call, ArgumentBase
  <2>3. ASSUME NEW k \in untouched
        PROVE  k \notin stack_count - i.operand + i.operand .. top - 1
    <3>1. k < stack_count
      BY <1>1, VmAssumption DEF VmAssumption
    <3>2. stack_count - i.operand + i.operand = stack_count
      BY <1>1, <2>1, VmAssumption DEF VmAssumption
    <3> QED
      BY <1>1, <3>1, <3>2, VmAssumption DEF VmAssumption
  <2> HIDE DEF untouched
  <2> QED
    BY <1>2, <2>2, <2>3 DEF untouched
<1>11. CASE ReturnToCaller
  <2>1. Frame.base_pointer - 1 \notin untouched
    BY <1>1, VmAssumption DEF VmAssumption
  <2>2. stack' = [stack EXCEPT ![Frame.base_pointer - 1] = ReturnedValue]
    BY <1>11 DEF ReturnToCaller
  <2> HIDE DEF untouched
  <2> QED
    BY <1>2, <1>3, <2>1, <2>2 DEF untouched
<1>12. CASE Pop \/ Jump \/ SetGlobal \/ ReturnFromMain \/ Finish \/ Abort
  BY <1>12 DEF Pop, Jump, SetGlobal, ReturnFromMain, Finish, Abort
<1> QED
  BY <1>5, <1>6, <1>7, <1>8, <1>9, <1>10, <1>11, <1>12 DEF VmStep

(* A step writes to no frame but the current one and the one it pushes. *)
LEMMA CallerFramesKept ==
  ASSUME Inv, VmStep, running
  PROVE  \A k \in 0 .. frame_count - 2 : frames'[k] = frames[k]
<1>1. frame_count \in 1 .. MaxVmFrames
  BY CurrentFrame DEF Inv
<1>2. ASSUME \E ip : GoTo(ip)
      PROVE  \A k \in 0 .. frame_count - 2 : frames'[k] = frames[k]
  <2>1. \A k \in 0 .. MaxVmFrames - 1 :
          k # frame_count - 1 => frames'[k] = frames[k]
    BY <1>2, GoToKeepsFrames DEF Inv
  <2>2. \A k \in 0 .. frame_count - 2 :
          k \in 0 .. MaxVmFrames - 1 /\ k # frame_count - 1
    BY <1>1, VmAssumption DEF VmAssumption
  <2> QED
    BY <2>1, <2>2
<1>3. CASE Call
  BY <1>3, CallFrames
<1>4. CASE Load \/ Pop \/ ExecuteBinary \/ ExecuteUnary \/ Jump
  BY <1>2, <1>4 DEF Load, Pop, ExecuteBinary, ExecuteUnary, Jump, Advance
<1>5. CASE SetGlobal \/ SetLocal \/ PushClosure \/ ReturnFromMain \/ ReturnToCaller
  BY <1>2, <1>5
     DEF SetGlobal, SetLocal, PushClosure, ReturnFromMain, ReturnToCaller, Advance
<1>6. CASE Finish \/ Abort
  BY <1>6 DEF Finish, Abort
<1> QED
  BY <1>3, <1>4, <1>5, <1>6 DEF VmStep

(* No step changes a closure that exists. *)
LEMMA ClosuresKept ==
  ASSUME Inv, VmStep
  PROVE  \A c \in 0 .. closure_count : closures'[c] = closures[c]
<1>1. CASE PushClosure
  BY <1>1, StackCountMoves
<1>2. CASE Load \/ Pop \/ ExecuteBinary \/ ExecuteUnary \/ Jump \/ SetGlobal
  BY <1>2 DEF Load, Pop, ExecuteBinary, ExecuteUnary, Jump, SetGlobal
<1>3. CASE SetLocal \/ Call \/ ReturnFromMain \/ ReturnToCaller
  BY <1>3 DEF SetLocal, Call, ArgumentBase, ReturnFromMain, ReturnToCaller
<1>4. CASE Finish \/ Abort
  BY <1>4 DEF Finish, Abort
<1> QED
  BY <1>1, <1>2, <1>3, <1>4 DEF VmStep

(* Given only verified bytecode, what a function does while it runs stays in
   its own frame: SET_LOCAL, CALL and the returns write above the callee's slot,
   and no existing closure or waiting frame changes. *)
THEOREM CallersUntouched ==
  ASSUME AllVerified
  PROVE  Spec => CallerSlotsKept
<1> DEFINE Kept ==
      running =>
        /\ \A k \in 0 .. Frame.base_pointer - 2 : stack'[k] = stack[k]
        /\ \A k \in 0 .. frame_count - 2 : frames'[k] = frames[k]
        /\ \A c \in 0 .. closure_count : closures'[c] = closures[c]
<1>1. VmInit => Inv
  BY InitInv
<1>2. Inv /\ [Next]_vmVars => Inv'
  BY NextKeepsInv
<1>3. Inv /\ [Next]_vmVars => [Kept]_vmVars
  <2> SUFFICES ASSUME Inv, Next, running PROVE Kept
    OBVIOUS
  <2>1. VmStep
    BY DEF Next, RunLine, VmRun
  <2> QED
    BY <2>1, CallerStackKept, CallerFramesKept, ClosuresKept
<1> QED
  BY <1>1, <1>2, <1>3, PTL DEF Spec, CallerSlotsKept

===============================================================================
