------------------------- MODULE VmActivations_proofs -------------------------
(***************************************************************************)
(* On verified bytecode vm.c implements Activations: the one stack, cut at *)
(* the base pointers, is a sequence of calls with locals and operands of   *)
(* their own.                                                              *)
(***************************************************************************)
EXTENDS VmSafety_proofs, VmActivations

-----------------------------------------------------------------------------
(* Sequences given by their length and their elements *)

Row(s, n) == n \in Nat /\ s = [k \in 1 .. n |-> s[k]]

(* A row is a sequence of its length. *)
LEMMA RowSeq ==
  ASSUME NEW n, NEW s, Row(s, n)
  PROVE  /\ n \in Nat
         /\ s \in Seq({s[k] : k \in 1 .. n})
         /\ Len(s) = n
         /\ DOMAIN s = 1 .. n
<1>1. n \in Nat /\ s = [k \in 1 .. n |-> s[k]]
  BY DEF Row
<1> QED
  BY <1>1

(* Rows with the same elements are equal. *)
LEMMA RowEqual ==
  ASSUME NEW n, NEW s, NEW t, Row(s, n), Row(t, n),
         \A k \in 1 .. n : s[k] = t[k]
  PROVE  s = t
<1>1. s = [k \in 1 .. n |-> s[k]] /\ t = [k \in 1 .. n |-> t[k]]
  BY DEF Row
<1>2. [k \in 1 .. n |-> s[k]] = [k \in 1 .. n |-> t[k]]
  OBVIOUS
<1> QED
  BY <1>1, <1>2

(* A sequence is a row. *)
LEMMA SeqRow ==
  ASSUME NEW S, NEW s \in Seq(S)
  PROVE  Row(s, Len(s))
BY DEF Row

(* Append, element by element. *)
LEMMA RowAppend ==
  ASSUME NEW n, NEW s, Row(s, n), NEW e
  PROVE  /\ Row(Append(s, e), n + 1)
         /\ \A k \in 1 .. n : Append(s, e)[k] = s[k]
         /\ Append(s, e)[n + 1] = e
<1> DEFINE S == {s[k] : k \in 1 .. n} \union {e}
<1>1. n \in Nat /\ s \in Seq({s[k] : k \in 1 .. n}) /\ Len(s) = n
  BY RowSeq
<1>2. s \in Seq(S) /\ e \in S
  BY <1>1
<1> HIDE DEF S
<1>3. Append(s, e) \in Seq(S) /\ Len(Append(s, e)) = n + 1
  BY <1>1, <1>2
<1>4. Row(Append(s, e), n + 1)
  BY <1>3, SeqRow
<1> QED
  BY <1>1, <1>2, <1>4

(* SubSeq, element by element. *)
LEMMA RowSubSeq ==
  ASSUME NEW n, NEW s, Row(s, n), NEW m \in 1 .. n + 1, NEW l \in m - 1 .. n
  PROVE  /\ Row(SubSeq(s, m, l), l - m + 1)
         /\ \A k \in 1 .. l - m + 1 : SubSeq(s, m, l)[k] = s[m + k - 1]
<1> DEFINE S == {s[k] : k \in 1 .. n}
<1>1. n \in Nat /\ s \in Seq(S) /\ Len(s) = n
  BY RowSeq
<1> HIDE DEF S
<1>2. SubSeq(s, m, l) = [k \in 1 .. l - m + 1 |-> s[m + k - 1]]
  BY <1>1
<1>3. l - m + 1 \in Nat
  BY <1>1
<1> QED
  BY <1>2, <1>3 DEF Row

(* All but the last element, and the last. *)
LEMMA RowFront ==
  ASSUME NEW n, NEW s, Row(s, n), n > 0
  PROVE  /\ Row(Front(s), n - 1)
         /\ \A k \in 1 .. n - 1 : Front(s)[k] = s[k]
         /\ Last(s) = s[n]
<1>1. n \in Nat /\ Len(s) = n
  BY RowSeq
<1>2. Front(s) = SubSeq(s, 1, n - 1)
  BY <1>1 DEF Front
<1>3. 1 \in 1 .. n + 1 /\ n - 1 \in 1 - 1 .. n /\ n - 1 - 1 + 1 = n - 1
  BY <1>1
<1>4. \A k \in 1 .. n - 1 : 1 + k - 1 = k
  BY <1>1
<1> QED
  BY <1>1, <1>2, <1>3, <1>4, RowSubSeq DEF Last

(* The first element, and the others. *)
LEMMA RowTail ==
  ASSUME NEW n, NEW s, Row(s, n), n > 0
  PROVE  /\ Head(s) = s[1]
         /\ Row(Tail(s), n - 1)
         /\ \A k \in 1 .. n - 1 : Tail(s)[k] = s[k + 1]
<1> DEFINE S == {s[k] : k \in 1 .. n}
<1>1. n \in Nat /\ s \in Seq(S) /\ Len(s) = n
  BY RowSeq
<1> HIDE DEF S
<1>2. Tail(s) \in Seq(S) /\ Len(Tail(s)) = n - 1
  BY <1>1
<1>3. Row(Tail(s), n - 1)
  BY <1>2, SeqRow
<1> QED
  BY <1>1, <1>3

-----------------------------------------------------------------------------
(* The operators of the two specifications are the same *)

(* Constants, opcodes and faults. *)
LEMMA SameConstants ==
  /\ Machine!Null = Null
  /\ Machine!LoadOps = LoadOps
  /\ Machine!BinaryOps = BinaryOps
  /\ Machine!UnaryOps = UnaryOps
  /\ Machine!JumpOps = JumpOps
  /\ Machine!ReturnOps = ReturnOps
  /\ Machine!OpCodes = OpCodes
  /\ Machine!CapacityFaults = CapacityFaults
BY DEF Null, LoadOps, BinaryOps, ArithmeticOps, ComparisonOps, UnaryOps, JumpOps,
       ReturnOps, OpCodes, CapacityFaults,
       Machine!Null, Machine!LoadOps, Machine!BinaryOps, Machine!ArithmeticOps,
       Machine!ComparisonOps, Machine!UnaryOps, Machine!JumpOps,
       Machine!ReturnOps, Machine!OpCodes, Machine!CapacityFaults

(* Operations on values. *)
LEMMA SameOperations ==
  ASSUME NEW op, NEW l, NEW r
  PROVE  /\ Machine!BinaryFault(op, l, r) = BinaryFault(op, l, r)
         /\ Machine!Binary(op, l, r) = Binary(op, l, r)
         /\ Machine!Truthy(l) = Truthy(l)
         /\ Machine!IntegerValue(l) = IntegerValue(l)
         /\ Machine!BooleanValue(l) = BooleanValue(l)
         /\ Machine!ClosureValue(l) = ClosureValue(l)
<1>1. /\ Machine!Truthy(l) = Truthy(l)
      /\ Machine!IntegerValue(l) = IntegerValue(l)
      /\ Machine!BooleanValue(l) = BooleanValue(l)
      /\ Machine!ClosureValue(l) = ClosureValue(l)
  BY DEF Truthy, IntegerValue, BooleanValue, ClosureValue, Machine!Truthy,
         Machine!IntegerValue, Machine!BooleanValue, Machine!ClosureValue
<1>2. \A a, b : Machine!Arithmetic(op, a, b) = Arithmetic(op, a, b)
  <2>1. \A a, b : Machine!Quotient(a, b) = Quotient(a, b)
    BY DEF Quotient, Magnitude, Machine!Quotient, Machine!Magnitude
  <2> QED
    BY <2>1 DEF Arithmetic, Machine!Arithmetic
<1>3. \A a, b : Machine!IntegerFault(op, a, b) = IntegerFault(op, a, b)
  BY <1>2 DEF IntegerFault, ArithmeticOps, MinInt, Machine!IntegerFault,
              Machine!ArithmeticOps, Machine!MinInt
<1>4. Machine!BinaryFault(op, l, r) = BinaryFault(op, l, r)
  BY <1>3 DEF BinaryFault, Machine!BinaryFault
<1>5. Machine!Binary(op, l, r) = Binary(op, l, r)
  BY <1>2 DEF Binary, Compare, ArithmeticOps, IntegerValue, BooleanValue,
              Machine!Binary, Machine!Compare, Machine!ArithmeticOps,
              Machine!IntegerValue, Machine!BooleanValue
<1> QED
  BY <1>1, <1>4, <1>5

(* Sequence operators. *)
LEMMA SameSequences ==
  ASSUME NEW s, NEW t
  PROVE  /\ Machine!Front(s) = Front(s)
         /\ Machine!Last(s) = Last(s)
         /\ Machine!IsPrefix(s, t) = IsPrefix(s, t)
BY DEF Front, Last, IsPrefix, Machine!Front, Machine!Last, Machine!IsPrefix

-----------------------------------------------------------------------------
(* Frames stay apart *)

(* The frames in use, and what they are made of. *)
LEMMA LiveFrame ==
  ASSUME Inv, running, NEW k \in 0 .. frame_count - 1
  PROVE  /\ k \in 0 .. MaxVmFrames - 1
         /\ frames[k] \in Frames
         /\ frames[k].closure \in 0 .. closure_count
         /\ frames[k].base_pointer \in Nat
         /\ FrameFunction(k) \in CompiledFunctions
         /\ FirstOperand(k) \in Nat
         /\ frames[k].base_pointer <= FirstOperand(k)
<1>1. k \in 0 .. MaxVmFrames - 1
  BY CurrentFrame, VmAssumption DEF VmAssumption, Inv
<1>2. /\ frames[k] \in Frames
      /\ frames[k].closure \in 0 .. closure_count
  BY <1>1 DEF Inv, TypeOK, ValuesSound
<1>3. frames[k].base_pointer \in Nat /\ frames[k].closure \in 0 .. MaxVmClosures
  BY <1>2, VmAssumption DEF VmAssumption, Frames
<1>4. FrameFunction(k) \in CompiledFunctions
  BY <1>3 DEF FrameFunction, Inv, TypeOK, Closures
<1>5. FrameFunction(k).local_count \in Nat
  BY <1>4 DEF CompiledFunctions
<1> QED
  BY <1>1, <1>2, <1>3, <1>4, <1>5 DEF FirstOperand

(* A step leaves the closure and the base of every frame in use, and the
   function it runs. *)
LEMMA LiveFrameKept ==
  ASSUME Inv, running, VmStep, NEW k \in 0 .. frame_count - 1
  PROVE  /\ frames'[k].closure = frames[k].closure
         /\ frames'[k].base_pointer = frames[k].base_pointer
         /\ closures'[frames[k].closure] = closures[frames[k].closure]
         /\ FrameFunction(k)' = FrameFunction(k)
         /\ FirstOperand(k)' = FirstOperand(k)
<1>1. k \in 0 .. MaxVmFrames - 1 /\ frames[k].closure \in 0 .. closure_count
  BY LiveFrame
<1>2. closures'[frames[k].closure] = closures[frames[k].closure]
  BY <1>1, ClosuresKept
<1>3. /\ frames'[k].closure = frames[k].closure
      /\ frames'[k].base_pointer = frames[k].base_pointer
  <2>1. ASSUME \E ip : GoTo(ip)
        PROVE  /\ frames'[k].closure = frames[k].closure
               /\ frames'[k].base_pointer = frames[k].base_pointer
    BY <1>1, <2>1, GoToKeepsFrames DEF Inv
  <2>2. CASE Call
    <3>1. /\ \A j \in 0 .. frame_count - 2 : frames'[j] = frames[j]
          /\ frames'[frame_count - 1] = [Frame EXCEPT !.instruction_pointer = @ + 1]
      BY <2>2, CallFrames
    <3>2. k \in 0 .. frame_count - 2 \/ k = frame_count - 1
      BY CurrentFrame, VmAssumption DEF VmAssumption, Inv
    <3>3. Frame \in Frames
      BY CurrentFrame DEF Inv
    <3> QED
      BY <3>1, <3>2, <3>3 DEF Frame, Frames
  <2>3. CASE Finish \/ Abort
    BY <2>3 DEF Finish, Abort
  <2>4. CASE Load \/ Pop \/ ExecuteBinary \/ ExecuteUnary \/ Jump
    BY <2>1, <2>4 DEF Load, Pop, ExecuteBinary, ExecuteUnary, Jump, Advance
  <2>5. CASE SetGlobal \/ SetLocal \/ PushClosure \/ ReturnFromMain \/ ReturnToCaller
    BY <2>1, <2>5
       DEF SetGlobal, SetLocal, PushClosure, ReturnFromMain, ReturnToCaller, Advance
  <2> QED
    BY <2>2, <2>3, <2>4, <2>5 DEF VmStep
<1>4. FrameFunction(k)' = FrameFunction(k)
  BY <1>2, <1>3 DEF FrameFunction
<1>5. FirstOperand(k)' = FirstOperand(k)
  BY <1>2, <1>3 DEF FirstOperand, FrameFunction
<1> QED
  BY <1>2, <1>3, <1>4, <1>5

(* How a step changes the number of frames. *)
LEMMA FrameCountMoves ==
  ASSUME Inv, running, VmStep, running'
  PROVE  \/ Call /\ frame_count' = frame_count + 1
         \/ ReturnToCaller /\ frame_count' = frame_count - 1
         \/ frame_count' = frame_count
<1>1. CASE Load \/ Pop \/ ExecuteBinary \/ ExecuteUnary \/ Jump
  BY <1>1 DEF Load, Pop, ExecuteBinary, ExecuteUnary, Jump
<1>2. CASE SetGlobal \/ SetLocal \/ PushClosure \/ Call
  BY <1>2 DEF SetGlobal, SetLocal, PushClosure, Call
<1>3. CASE ReturnFromMain \/ ReturnToCaller \/ Finish \/ Abort
  BY <1>3 DEF ReturnFromMain, ReturnToCaller, Finish, Abort
<1> QED
  BY <1>1, <1>2, <1>3 DEF VmStep

(* A new frame starts above the locals of its caller and its callee. *)
LEMMA CallAbove ==
  ASSUME Inv, Call
  PROVE  /\ frames'[frame_count].base_pointer \in Nat
         /\ Floor < frames'[frame_count].base_pointer
<1> DEFINE i == Instruction
<1>1. running /\ ~AtEnd /\ i.op = "CALL"
  BY DEF Call, Executing
<1>2. i.operand \in Nat
  BY <1>1, CurrentFrame DEF Inv, Instructions
<1>3. /\ Height >= i.operand + 1
      /\ Height \in Nat /\ Floor \in Nat
      /\ stack_count = Floor + Height
  BY <1>1, CurrentInstruction, CurrentHeight, TakenOf
<1>4. frames'[frame_count].base_pointer = stack_count - i.operand
  BY CallFrames
<1> HIDE DEF i
<1> QED
  BY <1>2, <1>3, <1>4

(* Every step keeps the frames apart. *)
LEMMA NextKeepsApart == Inv /\ FramesApart /\ [Next]_vmVars => FramesApart'
<1> SUFFICES ASSUME Inv, FramesApart, [Next]_vmVars, running' PROVE FramesApart'
  BY DEF FramesApart
<1>1. CASE RunLine
  <2>1. frame_count' = 1
    BY <1>1 DEF RunLine, VmRun
  <2>2. \A j, k \in 0 .. 0 : ~(j < k)
    OBVIOUS
  <2> QED
    BY <2>1, <2>2 DEF FramesApart
<1>2. CASE UNCHANGED vmVars
  BY <1>2 DEF vmVars, FramesApart, FirstOperand, FrameFunction
<1>3. CASE VmStep
  <2>1. running
    BY <1>3 DEF VmStep, Load, Pop, ExecuteBinary, ExecuteUnary, Jump, SetGlobal,
           SetLocal, PushClosure, Call, ReturnFromMain, ReturnToCaller, Finish,
           Abort, Executing
  <2>2. frame_count \in Nat
    BY VmAssumption DEF VmAssumption, Inv, TypeOK
  <2>3. ASSUME NEW j \in 0 .. frame_count - 1, NEW k \in 0 .. frame_count - 1, j < k
        PROVE  FirstOperand(j)' < frames'[k].base_pointer
    <3>1. FirstOperand(j) < frames[k].base_pointer
      BY <2>1, <2>3 DEF FramesApart
    <3> QED
      BY <1>3, <2>1, <3>1, LiveFrameKept
  <2>4. CASE Call /\ frame_count' = frame_count + 1
    <3>1. ASSUME NEW j \in 0 .. frame_count - 1
          PROVE  FirstOperand(j)' < frames'[frame_count].base_pointer
      <4>1. FirstOperand(j) <= Floor
        <5>1. CASE j = frame_count - 1
          <6>1. FirstOperand(j) = Floor
            BY <5>1 DEF FirstOperand, FrameFunction, Floor, Frame, Function
          <6> QED
            BY <2>1, <6>1, LiveFrame
        <5>2. CASE j # frame_count - 1
          <6>1. /\ frame_count - 1 \in 0 .. frame_count - 1
                /\ j < frame_count - 1
            BY <2>2, <5>2
          <6>2. FirstOperand(j) < Frame.base_pointer
            BY <2>1, <6>1 DEF FramesApart, Frame
          <6>3. Frame.base_pointer <= FirstOperand(frame_count - 1)
            BY <2>1, <6>1, LiveFrame DEF Frame
          <6>4. FirstOperand(frame_count - 1) = Floor
            BY DEF FirstOperand, FrameFunction, Floor, Frame, Function
          <6>5. /\ FirstOperand(j) \in Nat
                /\ FirstOperand(frame_count - 1) \in Nat
                /\ Frame.base_pointer \in Nat
            BY <2>1, <6>1, LiveFrame DEF Frame
          <6> QED
            BY <6>2, <6>3, <6>4, <6>5
        <5> QED
          BY <5>1, <5>2
      <4>2. FirstOperand(j)' = FirstOperand(j) /\ FirstOperand(j) \in Nat
        BY <1>3, <2>1, LiveFrame, LiveFrameKept
      <4>3. Floor \in Nat
        BY <2>1, CurrentHeight
      <4>4. /\ frames'[frame_count].base_pointer \in Nat
            /\ Floor < frames'[frame_count].base_pointer
        BY <2>4, CallAbove
      <4> QED
        BY <4>1, <4>2, <4>3, <4>4
    <3>2. ASSUME NEW j \in 0 .. frame_count' - 1, NEW k \in 0 .. frame_count' - 1, j < k
          PROVE  FirstOperand(j)' < frames'[k].base_pointer
      <4>1. /\ j \in 0 .. frame_count - 1
            /\ k = frame_count \/ k \in 0 .. frame_count - 1
        BY <2>2, <2>4, <3>2
      <4> QED
        BY <2>3, <3>1, <3>2, <4>1
    <3> QED
      BY <3>2 DEF FramesApart
  <2>5. CASE frame_count' = frame_count - 1 \/ frame_count' = frame_count
    <3>1. ASSUME NEW j \in 0 .. frame_count' - 1
          PROVE  j \in 0 .. frame_count - 1
      BY <2>2, <2>5
    <3> QED
      BY <2>3, <3>1 DEF FramesApart
  <2> QED
    BY <1>3, <2>1, <2>4, <2>5, FrameCountMoves
<1> QED
  BY <1>1, <1>2, <1>3 DEF Next

-----------------------------------------------------------------------------
(* The current call is the current frame *)

(* A part of the stack, slot by slot. *)
LEMMA SlotsRow ==
  ASSUME NEW from \in Int, NEW to \in Int, from <= to
  PROVE  /\ Row(Slots(from, to), to - from)
         /\ \A k \in 1 .. to - from : Slots(from, to)[k] = stack[from + k - 1]
<1>1. \A k \in 1 .. to - from : Slots(from, to)[k] = stack[from + k - 1]
  BY DEF Slots
<1>2. to - from \in Nat
  OBVIOUS
<1> QED
  BY <1>1, <1>2 DEF Row, Slots

(* While the machine runs there is one call for every frame. *)
LEMMA CallsRow ==
  ASSUME Inv, running
  PROVE  /\ frame_count \in Nat \ {0}
         /\ Row(Calls, frame_count)
         /\ \A k \in 1 .. frame_count : Calls[k] = ActivationOf(k - 1)
<1>1. frame_count \in Nat \ {0}
  BY CurrentFrame, VmAssumption DEF VmAssumption, Inv
<1>2. Calls = [k \in 1 .. frame_count |-> ActivationOf(k - 1)]
  BY DEF Calls
<1> QED
  BY <1>1, <1>2 DEF Row

(* The last call, part by part. *)
LEMMA CurrentCall ==
  ASSUME Inv, running
  PROVE  Machine!Current =
           [closure |-> Frame.closure, code |-> Code,
            free_values |-> closures[Frame.closure].free_values,
            next |-> Position, locals |-> Slots(Frame.base_pointer, Floor),
            operands |-> Slots(Floor, stack_count)]
<1>1. Machine!Current = ActivationOf(frame_count - 1)
  BY CallsRow, RowFront, SameSequences DEF Machine!Current
<1>2. /\ FrameFunction(frame_count - 1) = Function
      /\ FirstOperand(frame_count - 1) = Floor
      /\ OperandsEnd(frame_count - 1) = stack_count
  BY DEF FrameFunction, FirstOperand, OperandsEnd, Frame, Function, Floor
<1> QED
  BY <1>1, <1>2 DEF ActivationOf, Code, Position, Frame

(* It is at the instruction the machine is at. *)
LEMMA CurrentAt ==
  ASSUME Inv, running
  PROVE  /\ Machine!Instruction = Instruction
         /\ Machine!AtEnd <=> AtEnd
         /\ Machine!Current.next = Position
         /\ Machine!Operands = Slots(Floor, stack_count)
<1>1. /\ Machine!Current.code = Code
      /\ Machine!Current.next = Position
      /\ Machine!Current.operands = Slots(Floor, stack_count)
  BY CurrentCall
<1>2. Machine!Instruction = Instruction
  BY <1>1 DEF Machine!Instruction, Instruction, Position
<1>3. Machine!AtEnd <=> AtEnd
  <2>1. Position \in 1 .. Len(Code) + 1 /\ (AtEnd <=> Position = Len(Code) + 1)
    BY CurrentHeight
  <2>2. Len(Code) \in Nat
    BY CurrentFrame DEF Inv
  <2> QED
    BY <1>1, <2>1, <2>2 DEF Machine!AtEnd
<1> QED
  BY <1>1, <1>2, <1>3 DEF Machine!Operands

(* Its operands are what is on the stack above the locals. *)
LEMMA OperandsOf ==
  ASSUME Inv, running
  PROVE  /\ Row(Machine!Operands, Height)
         /\ \A k \in 1 .. Height : Machine!Operands[k] = stack[Floor + k - 1]
         /\ Height > 0 => Machine!Last(Machine!Operands) = Peek(0)
<1>1. /\ Height \in Nat /\ Floor \in Nat
      /\ stack_count = Floor + Height
  BY CurrentHeight
<1>2. Machine!Operands = Slots(Floor, stack_count)
  BY CurrentAt
<1>3. /\ Floor <= stack_count
      /\ stack_count - Floor = Height
      /\ Floor \in Int /\ stack_count \in Int
      /\ Floor + Height - 1 = stack_count - 1 - 0
  BY <1>1
<1>4. /\ Row(Machine!Operands, Height)
      /\ \A k \in 1 .. Height : Machine!Operands[k] = stack[Floor + k - 1]
  BY <1>2, <1>3, SlotsRow
<1>5. ASSUME Height > 0
      PROVE  Machine!Last(Machine!Operands) = Peek(0)
  <2>1. Height \in 1 .. Height
    BY <1>1, <1>5
  <2>2. Machine!Last(Machine!Operands) = Machine!Operands[Height]
    BY <1>4, <1>5, RowFront, SameSequences
  <2> QED
    BY <1>3, <1>4, <2>1, <2>2 DEF Peek
<1> QED
  BY <1>4, <1>5

(* The n operands on top, and what is below them. *)
LEMMA TopBelow ==
  ASSUME Inv, running, NEW n \in Nat, n <= Height
  PROVE  /\ Row(Machine!Top(n), n)
         /\ \A k \in 1 .. n : Machine!Top(n)[k] = stack[stack_count - n + k - 1]
         /\ Row(Machine!Below(n), Height - n)
         /\ \A k \in 1 .. Height - n : Machine!Below(n)[k] = stack[Floor + k - 1]
<1>1. /\ Height \in Nat /\ Floor \in Nat
      /\ stack_count = Floor + Height
  BY CurrentHeight
<1>2. /\ Row(Machine!Operands, Height)
      /\ \A k \in 1 .. Height : Machine!Operands[k] = stack[Floor + k - 1]
  BY OperandsOf
<1>3. Len(Machine!Operands) = Height
  BY <1>2, RowSeq
<1>4. /\ Machine!Top(n) = SubSeq(Machine!Operands, Height - n + 1, Height)
      /\ Machine!Below(n) = SubSeq(Machine!Operands, 1, Height - n)
  BY <1>3 DEF Machine!Top, Machine!Below
<1>5. /\ Row(Machine!Top(n), n)
      /\ \A k \in 1 .. n : Machine!Top(n)[k] = stack[stack_count - n + k - 1]
  <2>1. /\ Height - n + 1 \in 1 .. Height + 1
        /\ Height \in Height - n + 1 - 1 .. Height
        /\ Height - (Height - n + 1) + 1 = n
    BY <1>1
  <2>2. /\ Row(Machine!Top(n), n)
        /\ \A k \in 1 .. n :
             Machine!Top(n)[k] = Machine!Operands[Height - n + 1 + k - 1]
    BY <1>2, <1>4, <2>1, RowSubSeq
  <2>3. \A k \in 1 .. n : /\ Height - n + 1 + k - 1 \in 1 .. Height
                          /\ Floor + (Height - n + 1 + k - 1) - 1
                               = stack_count - n + k - 1
    BY <1>1
  <2> QED
    BY <1>2, <2>2, <2>3
<1>6. /\ Row(Machine!Below(n), Height - n)
      /\ \A k \in 1 .. Height - n : Machine!Below(n)[k] = stack[Floor + k - 1]
  <2>1. /\ 1 \in 1 .. Height + 1
        /\ Height - n \in 1 - 1 .. Height
        /\ Height - n - 1 + 1 = Height - n
    BY <1>1
  <2>2. /\ Row(Machine!Below(n), Height - n)
        /\ \A k \in 1 .. Height - n :
             Machine!Below(n)[k] = Machine!Operands[1 + k - 1]
    BY <1>2, <1>4, <2>1, RowSubSeq
  <2>3. \A k \in 1 .. Height - n : k \in 1 .. Height /\ 1 + k - 1 = k
    BY <1>1
  <2> QED
    BY <1>2, <2>2, <2>3
<1> QED
  BY <1>5, <1>6

-----------------------------------------------------------------------------
(* The faults of a program are the same *)

(* The abstract machine's conditions, opcode by opcode. *)
LEMMA MachineFaultOf ==
  ASSUME NEW i
  PROVE  /\ i.op \in BinaryOps =>
              Machine!ProgramFault(i) =
                BinaryFault(i.op, Machine!Top(2)[1], Machine!Top(2)[2])
         /\ i.op = "MINUS" =>
              Machine!ProgramFault(i) =
                IF Machine!Last(Machine!Operands).type # "INT"
                  THEN "prefix operator"
                ELSE IF Machine!Last(Machine!Operands).data = MinInt
                  THEN "integer overflow" ELSE "none"
         /\ i.op = "CALL" =>
              Machine!ProgramFault(i) =
                IF ~Machine!Callable(i) THEN "not callable"
                ELSE IF i.operand # Machine!Callee(i).function.parameter_count
                  THEN "argument count" ELSE "none"
         /\ i.op \notin BinaryOps \union {"MINUS", "CALL"} =>
              Machine!ProgramFault(i) = "none"
<1>1. {"MINUS", "CALL"} \cap BinaryOps = {}
  BY DEF BinaryOps, ArithmeticOps, ComparisonOps
<1>2. Machine!BinaryOps = BinaryOps /\ Machine!MinInt = MinInt
  BY SameConstants DEF MinInt, Machine!MinInt
<1>3. i.op \in BinaryOps =>
        Machine!ProgramFault(i) =
          BinaryFault(i.op, Machine!Top(2)[1], Machine!Top(2)[2])
  <2>1. i.op \in BinaryOps =>
          Machine!ProgramFault(i) =
            Machine!BinaryFault(i.op, Machine!Top(2)[1], Machine!Top(2)[2])
    BY <1>1, <1>2 DEF Machine!ProgramFault
  <2> QED
    BY <2>1, SameOperations
<1>4. i.op = "MINUS" =>
        Machine!ProgramFault(i) =
          IF Machine!Last(Machine!Operands).type # "INT"
            THEN "prefix operator"
          ELSE IF Machine!Last(Machine!Operands).data = MinInt
            THEN "integer overflow" ELSE "none"
  BY <1>1, <1>2 DEF Machine!ProgramFault
<1>5. i.op = "CALL" =>
        Machine!ProgramFault(i) =
          IF ~Machine!Callable(i) THEN "not callable"
          ELSE IF i.operand # Machine!Callee(i).function.parameter_count
            THEN "argument count" ELSE "none"
  BY <1>1, <1>2 DEF Machine!ProgramFault
<1>6. i.op \notin BinaryOps \union {"MINUS", "CALL"} =>
        Machine!ProgramFault(i) = "none"
  BY <1>2 DEF Machine!ProgramFault
<1> QED
  BY <1>3, <1>4, <1>5, <1>6

(* The closures made so far are the heap. *)
LEMMA HeapRow ==
  ASSUME Inv
  PROVE  /\ closure_count \in Nat
         /\ Row(Heap, closure_count)
         /\ \A c \in 1 .. closure_count : Heap[c] = closures[c]
<1>1. closure_count \in Nat
  BY VmAssumption DEF VmAssumption, Inv, TypeOK
<1> QED
  BY <1>1 DEF Heap, Row

(* What a CALL finds below its arguments. *)
LEMMA CalleeOf ==
  ASSUME Inv, running, ~AtEnd, Instruction.op = "CALL"
  PROVE  /\ Instruction.operand \in Nat
         /\ Instruction.operand + 1 <= Height
         /\ Head(Machine!Top(Instruction.operand + 1))
              = Peek(Instruction.operand)
         /\ Machine!Callable(Instruction)
              <=> Peek(Instruction.operand).type = "CLOSURE"
         /\ Peek(Instruction.operand).type = "CLOSURE" =>
              /\ Peek(Instruction.operand).data \in 1 .. closure_count
              /\ Machine!Callee(Instruction)
                   = closures[Peek(Instruction.operand).data]
<1> DEFINE i == Instruction
           callee == Peek(i.operand)
<1>1. i.operand \in Nat
  BY CurrentFrame DEF Inv, Instructions
<1>2. /\ i.operand + 1 <= Height
      /\ Height \in Nat /\ Floor \in Nat
      /\ stack_count = Floor + Height
  <2>1. Height >= Taken(i) /\ Taken(i) = i.operand + 1
    BY CurrentInstruction, TakenOf
  <2> QED
    BY <1>1, <2>1, CurrentHeight
<1>3. Head(Machine!Top(i.operand + 1)) = callee
  <2>1. i.operand + 1 \in Nat /\ i.operand + 1 > 0 /\ 1 \in 1 .. i.operand + 1
    BY <1>1
  <2>2. stack_count - (i.operand + 1) + 1 - 1 = stack_count - 1 - i.operand
    BY <1>1, <1>2
  <2>3. Machine!Top(i.operand + 1)[1] = stack[stack_count - 1 - i.operand]
    BY <1>2, <2>1, <2>2, TopBelow
  <2> QED
    BY <1>2, <2>1, <2>3, RowTail, TopBelow DEF Peek
<1>4. Machine!Callable(i) <=> callee.type = "CLOSURE"
  BY <1>3 DEF Machine!Callable
<1>5. ASSUME callee.type = "CLOSURE"
      PROVE  /\ callee.data \in 1 .. closure_count
             /\ Machine!Callee(i) = closures[callee.data]
  <2>1. i.operand < stack_count
    BY <1>1, <1>2
  <2>2. Sound(callee, closure_count) /\ NotMain(callee)
    BY <1>1, <2>1, PeekSound, PeekNotMain, HiddenParts DEF Inv, VerifiedInv
  <2>3. callee.data \in 0 .. closure_count /\ callee.data # 0
    BY <1>5, <2>2 DEF Sound, NotMain
  <2>4. closure_count \in Nat /\ \A c \in 1 .. closure_count : Heap[c] = closures[c]
    BY HeapRow
  <2>5. Machine!Callee(i) = Heap[callee.data]
    BY <1>3 DEF Machine!Callee
  <2> HIDE DEF callee
  <2>6. callee.data \in 1 .. closure_count
    BY <2>3, <2>4
  <2> QED
    BY <2>4, <2>5, <2>6
<1> QED
  BY <1>1, <1>2, <1>3, <1>4, <1>5

(* An instruction that goes well goes well; a fault of the program is that
   fault; a lack of room is no fault of the program. *)
LEMMA SameFaults ==
  ASSUME Inv, running, ~AtEnd
  PROVE  /\ Fault(Instruction) = "none" =>
              Machine!ProgramFault(Instruction) = "none"
         /\ Fault(Instruction) \in ProgramFaults =>
              Machine!ProgramFault(Instruction) = Fault(Instruction)
         /\ Fault(Instruction) \in CapacityFaults =>
              Machine!ProgramFault(Instruction) = "none"
<1> DEFINE i == Instruction
           Agree(fault) ==
             /\ fault = "none" => Machine!ProgramFault(i) = "none"
             /\ fault \in ProgramFaults => Machine!ProgramFault(i) = fault
             /\ fault \in CapacityFaults => Machine!ProgramFault(i) = "none"
<1>1. i \in Instructions
  BY CurrentFrame DEF Inv
<1>2. Fault(i) \notin InternalFaults
  BY VerifiedFault
<1>3. Height >= Taken(i) /\ Height \in Nat /\ stack_count = Floor + Height
      /\ Floor \in Nat
  BY CurrentInstruction, CurrentHeight
<1>4. ASSUME NEW fault, fault = Machine!ProgramFault(i), fault \notin CapacityFaults
      PROVE  Agree(fault)
  BY <1>4
<1> SUFFICES Agree(Fault(i))
  OBVIOUS
<1> HIDE DEF i
<1>5. ASSUME i.op \notin BinaryOps \union {"MINUS", "CALL"},
             Fault(i) \notin ProgramFaults
      PROVE  Agree(Fault(i))
  BY <1>5, MachineFaultOf
<1>6. CASE i.op \in BinaryOps
  <2>1. Taken(i) = 2
    BY <1>6, TakenOf
  <2>2. ~(stack_count < 2) /\ 2 <= Height
    BY <1>3, <2>1
  <2>3. Fault(i) = BinaryFault(i.op, Peek(1), Peek(0))
    BY <1>6, <2>2, FaultOf
  <2>4. Machine!Top(2)[1] = Peek(1) /\ Machine!Top(2)[2] = Peek(0)
    <3>1. /\ stack_count - 2 + 1 - 1 = stack_count - 1 - 1
          /\ stack_count - 2 + 2 - 1 = stack_count - 1 - 0
          /\ 1 \in 1 .. 2 /\ 2 \in 1 .. 2 /\ 2 \in Nat
      BY <1>3
    <3>2. \A k \in 1 .. 2 : Machine!Top(2)[k] = stack[stack_count - 2 + k - 1]
      BY <2>2, <3>1, TopBelow
    <3> QED
      BY <3>1, <3>2 DEF Peek
  <2>5. Machine!ProgramFault(i) = BinaryFault(i.op, Peek(1), Peek(0))
    BY <1>6, <2>4, MachineFaultOf
  <2>6. BinaryFault(i.op, Peek(1), Peek(0)) \notin CapacityFaults
    BY DEF BinaryFault, IntegerFault, CapacityFaults
  <2> QED
    BY <1>4, <2>3, <2>5, <2>6
<1>7. CASE i.op \in UnaryOps
  <2>1. Taken(i) = 1
    BY <1>7, TakenOf
  <2>2. stack_count # 0 /\ Height > 0
    BY <1>3, <2>1
  <2>3. Fault(i) = UnaryFault(i)
    BY <1>7, FaultOf
  <2>4. CASE i.op = "BANG"
    <3>1. Fault(i) = "none"
      BY <2>2, <2>3, <2>4 DEF UnaryFault
    <3> QED
      BY <1>5, <2>4, <3>1
         DEF ProgramFaults, BinaryOps, ArithmeticOps, ComparisonOps
  <2>5. CASE i.op = "MINUS"
    <3>1. Machine!Last(Machine!Operands) = Peek(0)
      BY <2>2, OperandsOf
    <3>2. UnaryFault(i) = IF Peek(0).type # "INT" THEN "prefix operator"
                          ELSE IF Peek(0).data = MinInt
                            THEN "integer overflow" ELSE "none"
      BY <2>2, <2>5 DEF UnaryFault
    <3>3. UnaryFault(i) = Machine!ProgramFault(i)
      <4>1. Machine!ProgramFault(i) =
              IF Machine!Last(Machine!Operands).type # "INT"
                THEN "prefix operator"
              ELSE IF Machine!Last(Machine!Operands).data = MinInt
                THEN "integer overflow" ELSE "none"
        BY <2>5, MachineFaultOf
      <4> QED
        BY <3>1, <3>2, <4>1
    <3>4. UnaryFault(i) \notin CapacityFaults
      BY <3>2 DEF CapacityFaults
    <3> QED
      BY <1>4, <2>3, <3>3, <3>4
  <2> QED
    BY <1>7, <2>4, <2>5 DEF UnaryOps
<1>8. CASE i.op = "CALL"
  <2>1. /\ i.operand \in Nat /\ i.operand + 1 <= Height
        /\ Machine!Callable(i) <=> Peek(i.operand).type = "CLOSURE"
        /\ Peek(i.operand).type = "CLOSURE" =>
             Machine!Callee(i) = closures[Peek(i.operand).data]
    BY <1>8, CalleeOf DEF i
  <2>2. ~(stack_count < i.operand + 1)
    BY <1>3, <2>1
  <2>3. Fault(i) = CallFault(i)
    BY <1>8, FaultOf
  <2>4. \/ /\ CallFault(i) = Machine!ProgramFault(i)
           /\ CallFault(i) \notin CapacityFaults
        \/ CallFault(i) \in CapacityFaults /\ Machine!ProgramFault(i) = "none"
    BY <1>8, <2>1, <2>2, MachineFaultOf DEF CallFault, CapacityFaults
  <2> QED
    BY <1>4, <2>3, <2>4 DEF CapacityFaults, ProgramFaults
<1>9. CASE i.op \in LoadOps
  <2>1. Fault(i) = LoadFault(i)
    BY <1>9, FaultOf
  <2>2. LoadFault(i) \notin ProgramFaults
    BY DEF LoadFault, PushFault, ProgramFaults
  <2> QED
    BY <1>5, <1>9, <2>1, <2>2
       DEF LoadOps, BinaryOps, ArithmeticOps, ComparisonOps
<1>10. CASE i.op \in JumpOps \union ReturnOps
  <2>1. Fault(i) \in {JumpFault(i), ReturnFault(i)}
    BY <1>10, FaultOf
  <2>2. {JumpFault(i), ReturnFault(i)} \cap ProgramFaults = {}
    BY DEF JumpFault, ReturnFault, ProgramFaults
  <2> QED
    BY <1>5, <1>10, <2>1, <2>2
       DEF JumpOps, ReturnOps, BinaryOps, ArithmeticOps, ComparisonOps
<1>11. CASE i.op \in {"POP", "SET_GLOBAL", "SET_LOCAL", "CLOSURE"}
  <2>1. Fault(i) \in {PopFault, "global index", "local index", ClosureFault(i)}
    BY <1>11, FaultOf
  <2>2. {PopFault, "global index", "local index", ClosureFault(i)}
          \cap ProgramFaults = {}
    BY DEF PopFault, ClosureFault, PushFault, ProgramFaults
  <2> QED
    BY <1>5, <1>11, <2>1, <2>2 DEF BinaryOps, ArithmeticOps, ComparisonOps
<1>12. i.op \in LoadOps \union BinaryOps \union UnaryOps \union JumpOps
                \union ReturnOps
                \union {"POP", "SET_GLOBAL", "SET_LOCAL", "CLOSURE", "CALL"}
  BY <1>1 DEF Instructions, OpCodes
<1> QED
  BY <1>6, <1>7, <1>8, <1>9, <1>10, <1>11, <1>12

(* An instruction the machine carries out is one the abstract machine finds
   correct. *)
LEMMA ExecutingCorrect ==
  ASSUME Inv, NEW ops, Executing(ops)
  PROVE  Machine!Correct(ops)
BY SameFaults, CurrentAt DEF Executing, Machine!Correct, Machine!Executing

-----------------------------------------------------------------------------
(* What a step does to the calls *)

(* A step leaves a waiting frame alone, with its locals and its operands. *)
LEMMA WaitingFrame ==
  ASSUME Inv, FramesApart, running, VmStep, NEW k \in 0 .. frame_count - 2
  PROVE  /\ k \in 0 .. frame_count - 1
         /\ k + 1 \in 0 .. frame_count - 1
         /\ frames'[k] = frames[k]
         /\ frames[k + 1].base_pointer \in Nat
         /\ FirstOperand(k) <= frames[k + 1].base_pointer - 1
         /\ \A j \in frames[k].base_pointer .. frames[k + 1].base_pointer - 2 :
              stack'[j] = stack[j]
<1>1. frame_count \in Nat
  BY VmAssumption DEF VmAssumption, Inv, TypeOK
<1>2. /\ k \in 0 .. frame_count - 1 /\ k + 1 \in 0 .. frame_count - 1
      /\ frame_count - 1 \in 0 .. frame_count - 1
      /\ k < k + 1
      /\ k + 1 # frame_count - 1 => k + 1 < frame_count - 1
  BY <1>1
<1>3. /\ frames[k].base_pointer \in Nat /\ frames[k + 1].base_pointer \in Nat
      /\ FirstOperand(k) \in Nat /\ FirstOperand(k + 1) \in Nat
      /\ Frame.base_pointer \in Nat
      /\ frames[k + 1].base_pointer <= FirstOperand(k + 1)
  BY <1>2, LiveFrame DEF Frame
<1>4. FirstOperand(k) < frames[k + 1].base_pointer
  BY <1>2 DEF FramesApart
<1>5. frames[k + 1].base_pointer <= Frame.base_pointer
  <2>1. CASE k + 1 = frame_count - 1
    <3>1. frames[k + 1].base_pointer = Frame.base_pointer
      BY <2>1 DEF Frame
    <3> QED
      BY <1>3, <3>1
  <2>2. CASE k + 1 # frame_count - 1
    <3>1. FirstOperand(k + 1) < Frame.base_pointer
      BY <1>2, <2>2 DEF FramesApart, Frame
    <3> QED
      BY <1>3, <3>1
  <2> QED
    BY <2>1, <2>2
<1>6. frames[k].base_pointer .. frames[k + 1].base_pointer - 2
        \subseteq 0 .. Frame.base_pointer - 2
  BY <1>3, <1>5
<1>7. \A j \in frames[k].base_pointer .. frames[k + 1].base_pointer - 2 :
        stack'[j] = stack[j]
  BY <1>6, CallerStackKept
<1>8. frames'[k] = frames[k]
  BY CallerFramesKept
<1> QED
  BY <1>2, <1>3, <1>4, <1>7, <1>8

(* What a waiting call is after a step, but for its operands. *)
LEMMA WaitingCall ==
  ASSUME Inv, FramesApart, running, VmStep, NEW k \in 0 .. frame_count - 2,
         NEW operands, Row(operands, OperandsEnd(k)' - FirstOperand(k)),
         \A n \in 1 .. OperandsEnd(k)' - FirstOperand(k) :
           operands[n] = stack'[FirstOperand(k) + n - 1]
  PROVE  ActivationOf(k)' = [ActivationOf(k) EXCEPT !.operands = operands]
<1>1. /\ k \in 0 .. frame_count - 1
      /\ frames'[k] = frames[k]
      /\ FirstOperand(k) <= frames[k + 1].base_pointer - 1
      /\ frames[k + 1].base_pointer \in Nat
      /\ \A j \in frames[k].base_pointer .. frames[k + 1].base_pointer - 2 :
           stack'[j] = stack[j]
  BY WaitingFrame
<1>2. /\ frames[k].base_pointer \in Nat
      /\ FirstOperand(k) \in Nat
  BY <1>1, LiveFrame
<1>3. /\ closures'[frames[k].closure] = closures[frames[k].closure]
      /\ FrameFunction(k)' = FrameFunction(k)
      /\ FirstOperand(k)' = FirstOperand(k)
  BY <1>1, LiveFrameKept
<1>4. \A j \in frames[k].base_pointer .. FirstOperand(k) - 1 : stack'[j] = stack[j]
  BY <1>1, <1>2
<1>5. [n \in 1 .. FirstOperand(k) - frames[k].base_pointer |->
         stack'[frames[k].base_pointer + n - 1]]
        = Slots(frames[k].base_pointer, FirstOperand(k))
  <2>1. \A n \in 1 .. FirstOperand(k) - frames[k].base_pointer :
          frames[k].base_pointer + n - 1
            \in frames[k].base_pointer .. FirstOperand(k) - 1
    BY <1>2
  <2> QED
    BY <1>4, <2>1 DEF Slots
<1>6. ActivationOf(k)' =
        [closure |-> frames[k].closure,
         code |-> FrameFunction(k).instructions,
         free_values |-> closures[frames[k].closure].free_values,
         next |-> frames[k].instruction_pointer + 1,
         locals |-> Slots(frames[k].base_pointer, FirstOperand(k)),
         operands |-> operands]
  <2>1. Slots(frames[k].base_pointer, FirstOperand(k))'
          = Slots(frames[k].base_pointer, FirstOperand(k))
    BY <1>1, <1>3, <1>5 DEF Slots
  <2>2. Slots(FirstOperand(k), OperandsEnd(k))' = operands
    BY <1>3 DEF Slots, Row
  <2> QED
    BY <1>1, <1>3, <2>1, <2>2 DEF ActivationOf
<1>7. ActivationOf(k) =
        [closure |-> frames[k].closure,
         code |-> FrameFunction(k).instructions,
         free_values |-> closures[frames[k].closure].free_values,
         next |-> frames[k].instruction_pointer + 1,
         locals |-> Slots(frames[k].base_pointer, FirstOperand(k)),
         operands |-> Slots(FirstOperand(k), OperandsEnd(k))]
  BY DEF ActivationOf
<1> QED
  BY <1>6, <1>7

(* A call that goes on waiting is not changed. *)
LEMMA WaitingKept ==
  ASSUME Inv, FramesApart, running, VmStep, NEW k \in 0 .. frame_count - 2,
         k # frame_count' - 1
  PROVE  ActivationOf(k)' = ActivationOf(k)
<1>1. /\ k + 1 \in 0 .. frame_count - 1 /\ k \in 0 .. frame_count - 1
      /\ FirstOperand(k) <= frames[k + 1].base_pointer - 1
      /\ frames[k + 1].base_pointer \in Nat
      /\ \A j \in frames[k].base_pointer .. frames[k + 1].base_pointer - 2 :
           stack'[j] = stack[j]
  BY WaitingFrame
<1>2. /\ frames[k].base_pointer \in Nat
      /\ FirstOperand(k) \in Nat
      /\ frames[k].base_pointer <= FirstOperand(k)
  BY <1>1, LiveFrame
<1>3. OperandsEnd(k) = frames[k + 1].base_pointer - 1
  <2>1. k # frame_count - 1
    BY VmAssumption DEF VmAssumption, Inv, TypeOK
  <2> QED
    BY <2>1 DEF OperandsEnd
<1>4. OperandsEnd(k)' = OperandsEnd(k)
  <2>1. frames'[k + 1].base_pointer = frames[k + 1].base_pointer
    BY <1>1, LiveFrameKept
  <2> QED
    BY <1>3, <2>1 DEF OperandsEnd
<1>5. \A j \in FirstOperand(k) .. OperandsEnd(k) - 1 : stack'[j] = stack[j]
  BY <1>1, <1>2, <1>3
<1>6. ActivationOf(k).operands = Slots(FirstOperand(k), OperandsEnd(k))
  BY DEF ActivationOf
<1>7. /\ OperandsEnd(k) \in Int /\ FirstOperand(k) \in Int
      /\ FirstOperand(k) <= OperandsEnd(k)
  BY <1>1, <1>2, <1>3
<1>8. /\ Row(ActivationOf(k).operands, OperandsEnd(k)' - FirstOperand(k))
      /\ \A n \in 1 .. OperandsEnd(k)' - FirstOperand(k) :
           ActivationOf(k).operands[n] = stack[FirstOperand(k) + n - 1]
  BY <1>4, <1>6, <1>7, SlotsRow
<1>9. \A n \in 1 .. OperandsEnd(k) - FirstOperand(k) :
        FirstOperand(k) + n - 1 \in FirstOperand(k) .. OperandsEnd(k) - 1
  BY <1>7
<1>10. ActivationOf(k)' = [ActivationOf(k) EXCEPT !.operands = ActivationOf(k).operands]
  BY <1>4, <1>5, <1>8, <1>9, WaitingCall
<1> QED
  BY <1>10 DEF ActivationOf

(* The current call after a step within it. *)
LEMMA MovedCall ==
  ASSUME Inv, running, NEW ip \in Nat, GoTo(ip), frame_count' = frame_count,
         \A c \in 0 .. closure_count : closures'[c] = closures[c],
         NEW locals, Row(locals, Floor - Frame.base_pointer),
         \A n \in 1 .. Floor - Frame.base_pointer :
           locals[n] = stack'[Frame.base_pointer + n - 1],
         NEW operands, Row(operands, stack_count' - Floor),
         \A n \in 1 .. stack_count' - Floor :
           operands[n] = stack'[Floor + n - 1]
  PROVE  ActivationOf(frame_count - 1)' =
           [closure |-> Frame.closure, code |-> Code,
            free_values |-> closures[Frame.closure].free_values,
            next |-> ip + 1, locals |-> locals, operands |-> operands]
<1> DEFINE top == frame_count - 1
<1>1. top \in 0 .. MaxVmFrames - 1 /\ frames[top].closure \in 0 .. closure_count
  BY CurrentFrame DEF Inv, ValuesSound
<1>2. /\ frames'[top].closure = Frame.closure
      /\ frames'[top].base_pointer = Frame.base_pointer
      /\ frames'[top].instruction_pointer = ip
  BY <1>1, GoToKeepsFrames DEF Inv, Frame
<1>3. closures'[Frame.closure] = closures[Frame.closure]
  BY <1>1 DEF Frame
<1>4. top' = top
  OBVIOUS
<1>5. closures'[frames'[top].closure].function = Function
  BY <1>2, <1>3 DEF Function
<1>6. OperandsEnd(top)' = stack_count' /\ FirstOperand(top)' = Floor
  BY <1>2, <1>5 DEF OperandsEnd, FirstOperand, FrameFunction, Floor
<1>7. /\ Slots(frames[top].base_pointer, FirstOperand(top))' = locals
      /\ Slots(FirstOperand(top), OperandsEnd(top))' = operands
  <2>1. Slots(frames[top].base_pointer, FirstOperand(top))'
          = [n \in 1 .. Floor - Frame.base_pointer |->
               stack'[Frame.base_pointer + n - 1]]
    BY <1>2, <1>6 DEF Slots
  <2>2. Slots(FirstOperand(top), OperandsEnd(top))'
          = [n \in 1 .. stack_count' - Floor |-> stack'[Floor + n - 1]]
    BY <1>6 DEF Slots
  <2>3. locals = [n \in 1 .. Floor - Frame.base_pointer |->
                    stack'[Frame.base_pointer + n - 1]]
    BY DEF Row
  <2>4. operands = [n \in 1 .. stack_count' - Floor |-> stack'[Floor + n - 1]]
    BY DEF Row
  <2> QED
    BY <2>1, <2>2, <2>3, <2>4
<1>8. ActivationOf(top)' =
        [closure |-> frames'[top].closure,
         code |-> closures'[frames'[top].closure].function.instructions,
         free_values |-> closures'[frames'[top].closure].free_values,
         next |-> frames'[top].instruction_pointer + 1,
         locals |-> locals, operands |-> operands]
  BY <1>7 DEF ActivationOf, FrameFunction
<1> QED
  BY <1>2, <1>3, <1>5, <1>8 DEF Code

(* A sequence with another last element. *)
LEMMA ReplaceLast ==
  ASSUME NEW n \in Nat \ {0}, NEW s, Row(s, n), NEW t, Row(t, n),
         \A k \in 1 .. n - 1 : t[k] = s[k]
  PROVE  t = Append(Front(s), t[n])
<1>1. Row(Front(s), n - 1) /\ \A k \in 1 .. n - 1 : Front(s)[k] = s[k]
  <2>1. n > 0
    OBVIOUS
  <2> QED
    BY <2>1, RowFront
<1> DEFINE u == Append(Front(s), t[n])
<1>2. /\ Row(u, n)
      /\ \A k \in 1 .. n - 1 : u[k] = s[k]
      /\ u[n] = t[n]
  <2>1. n - 1 + 1 = n
    OBVIOUS
  <2>2. Row(u, n - 1 + 1)
    BY <1>1, RowAppend
  <2>3. n - 1 \in Nat /\ Len(Front(s)) = n - 1
    BY <1>1, RowSeq
  <2>4. \A k \in 1 .. n - 1 : u[k] = Front(s)[k]
    BY <2>3
  <2>5. u[n - 1 + 1] = t[n]
    BY <2>1, <2>3
  <2> HIDE DEF u
  <2> QED
    BY <1>1, <2>1, <2>2, <2>4, <2>5
<1> HIDE DEF u
<1>3. \A k \in 1 .. n : u[k] = t[k]
  BY <1>2
<1>4. u = t
  BY <1>2, <1>3, RowEqual
<1> QED
  BY <1>4 DEF u

(* The calls after a step that leaves the machine running, one for each frame. *)
LEMMA CallsAfter ==
  ASSUME running', frame_count' \in Nat
  PROVE  /\ Row(Calls', frame_count')
         /\ \A k \in 1 .. frame_count' : Calls'[k] = ActivationOf(k - 1)'
<1>1. Calls' = [k \in 1 .. frame_count' |-> ActivationOf(k - 1)']
  BY DEF Calls
<1> QED
  BY <1>1 DEF Row

(* The current call, moved, part by part. *)
LEMMA GoneOnWith ==
  ASSUME Inv, running, NEW position, NEW operands
  PROVE  /\ Machine!GoneOn(position, operands) =
              [closure |-> Frame.closure, code |-> Code,
               free_values |-> closures[Frame.closure].free_values,
               next |-> position, locals |-> Slots(Frame.base_pointer, Floor),
               operands |-> operands]
         /\ \A locals :
              [Machine!GoneOn(position, operands) EXCEPT !.locals = locals] =
                [closure |-> Frame.closure, code |-> Code,
                 free_values |-> closures[Frame.closure].free_values,
                 next |-> position, locals |-> locals, operands |-> operands]
<1>1. Machine!Current =
        [closure |-> Frame.closure, code |-> Code,
         free_values |-> closures[Frame.closure].free_values,
         next |-> Position, locals |-> Slots(Frame.base_pointer, Floor),
         operands |-> Slots(Floor, stack_count)]
  BY CurrentCall
<1>2. Machine!GoneOn(position, operands) =
        [closure |-> Frame.closure, code |-> Code,
         free_values |-> closures[Frame.closure].free_values,
         next |-> position, locals |-> Slots(Frame.base_pointer, Floor),
         operands |-> operands]
  <2> DEFINE moved == [Machine!Current EXCEPT !.next = position]
  <2>1. moved =
          [closure |-> Frame.closure, code |-> Code,
           free_values |-> closures[Frame.closure].free_values,
           next |-> position, locals |-> Slots(Frame.base_pointer, Floor),
           operands |-> Slots(Floor, stack_count)]
    BY <1>1
  <2> HIDE DEF moved
  <2>2. [moved EXCEPT !.operands = operands] =
          [closure |-> Frame.closure, code |-> Code,
           free_values |-> closures[Frame.closure].free_values,
           next |-> position, locals |-> Slots(Frame.base_pointer, Floor),
           operands |-> operands]
    BY <2>1
  <2> QED
    BY <2>2, Zenon DEF Machine!GoneOn, moved
<1> QED
  BY <1>2

(* A step within the current frame changes the current call only. *)
LEMMA StepWithin ==
  ASSUME Inv, FramesApart, running, running', VmStep,
         NEW ip \in Nat, GoTo(ip), frame_count' = frame_count,
         NEW locals, Row(locals, Floor - Frame.base_pointer),
         \A n \in 1 .. Floor - Frame.base_pointer :
           locals[n] = stack'[Frame.base_pointer + n - 1],
         NEW operands, Row(operands, stack_count' - Floor),
         \A n \in 1 .. stack_count' - Floor :
           operands[n] = stack'[Floor + n - 1]
  PROVE  Calls' = Append(Machine!Front(Calls),
                         [Machine!GoneOn(ip + 1, operands) EXCEPT !.locals = locals])
<1>1. /\ frame_count \in Nat \ {0}
      /\ Row(Calls, frame_count)
      /\ \A k \in 1 .. frame_count : Calls[k] = ActivationOf(k - 1)
  BY CallsRow
<1>2. /\ Row(Calls', frame_count)
      /\ \A k \in 1 .. frame_count : Calls'[k] = ActivationOf(k - 1)'
  BY <1>1, CallsAfter
<1>3. ASSUME NEW k \in 1 .. frame_count - 1
      PROVE  Calls'[k] = Calls[k]
  <2>1. k - 1 \in 0 .. frame_count - 2 /\ k - 1 # frame_count - 1
        /\ k \in 1 .. frame_count
    BY <1>1
  <2>2. ActivationOf(k - 1)' = ActivationOf(k - 1)
    BY <2>1, WaitingKept
  <2> QED
    BY <1>1, <1>2, <2>1, <2>2
<1>4. Calls' = Append(Front(Calls), Calls'[frame_count])
  BY <1>1, <1>2, <1>3, ReplaceLast
<1>5. Calls'[frame_count] = ActivationOf(frame_count - 1)'
  BY <1>1, <1>2
<1>6. ActivationOf(frame_count - 1)' =
        [closure |-> Frame.closure, code |-> Code,
         free_values |-> closures[Frame.closure].free_values,
         next |-> ip + 1, locals |-> locals, operands |-> operands]
  BY ClosuresKept, MovedCall
<1>7. [Machine!GoneOn(ip + 1, operands) EXCEPT !.locals = locals] =
        [closure |-> Frame.closure, code |-> Code,
         free_values |-> closures[Frame.closure].free_values,
         next |-> ip + 1, locals |-> locals, operands |-> operands]
  BY GoneOnWith
<1> QED
  BY <1>4, <1>5, <1>6, <1>7, SameSequences

(* A step that leaves the locals alone gives the current call another position
   and other operands. *)
LEMMA GoesOn ==
  ASSUME Inv, FramesApart, running, running', VmStep,
         NEW ip \in Nat, GoTo(ip), frame_count' = frame_count,
         \A j \in 0 .. Floor - 1 : stack'[j] = stack[j],
         NEW operands, Row(operands, stack_count' - Floor),
         \A n \in 1 .. stack_count' - Floor :
           operands[n] = stack'[Floor + n - 1]
  PROVE  Machine!GoOn(ip + 1, operands)
<1> DEFINE locals == Slots(Frame.base_pointer, Floor)
<1>1. /\ Frame.base_pointer \in Nat
      /\ Floor \in Nat
      /\ Frame.base_pointer <= Floor
  <2>1. Frame.base_pointer \in Nat /\ Function.local_count \in Nat
    BY CurrentFrame, VmAssumption
       DEF VmAssumption, Inv, Frames, CompiledFunctions
  <2> QED
    BY <2>1 DEF Floor
<1>2. /\ Row(locals, Floor - Frame.base_pointer)
      /\ \A n \in 1 .. Floor - Frame.base_pointer :
           locals[n] = stack[Frame.base_pointer + n - 1]
  BY <1>1, SlotsRow
<1>3. \A n \in 1 .. Floor - Frame.base_pointer :
        Frame.base_pointer + n - 1 \in 0 .. Floor - 1
  BY <1>1
<1>4. Machine!GoneOn(ip + 1, operands) =
        [Machine!GoneOn(ip + 1, operands) EXCEPT !.locals = locals]
  BY GoneOnWith
<1> HIDE DEF locals
<1>5. Calls' = Append(Machine!Front(Calls),
                      [Machine!GoneOn(ip + 1, operands) EXCEPT !.locals = locals])
  BY <1>2, <1>3, StepWithin
<1> QED
  BY <1>4, <1>5 DEF Machine!GoOn

(* A step on to the next instruction, as the abstract machine takes it. *)
LEMMA GoesOnNext ==
  ASSUME Inv, FramesApart, running, running', VmStep, Advance,
         frame_count' = frame_count,
         \A j \in 0 .. Floor - 1 : stack'[j] = stack[j],
         NEW operands, Row(operands, stack_count' - Floor),
         \A n \in 1 .. stack_count' - Floor :
           operands[n] = stack'[Floor + n - 1]
  PROVE  Machine!GoOnNext(operands)
<1>1. Position \in Nat /\ GoTo(Position)
  BY CurrentFrame DEF Inv, Frames, Advance, Position
<1>2. Machine!GoOn(Position + 1, operands)
  BY <1>1, GoesOn
<1> QED
  BY <1>2, CurrentAt DEF Machine!GoOnNext

(* The heap is what it was while no closure is made. *)
LEMMA HeapKept ==
  ASSUME closures' = closures, closure_count' = closure_count
  PROVE  Heap' = Heap
BY DEF Heap

(* Taking values off the stack and putting one on it, as operands. *)
LEMMA Pushed ==
  ASSUME Inv, running, NEW n \in Nat, n <= Height,
         stack_count - n <= MaxVmStackValues - 1,
         NEW v, PopPush(n, v)
  PROVE  /\ \A j \in 0 .. Floor - 1 : stack'[j] = stack[j]
         /\ Row(Append(Machine!Below(n), v), stack_count' - Floor)
         /\ \A k \in 1 .. stack_count' - Floor :
              Append(Machine!Below(n), v)[k] = stack'[Floor + k - 1]
<1> DEFINE below == Machine!Below(n)
<1>1. /\ Height \in Nat /\ Floor \in Nat
      /\ stack_count = Floor + Height
  BY CurrentHeight
<1>2. /\ Row(below, Height - n)
      /\ \A k \in 1 .. Height - n : below[k] = stack[Floor + k - 1]
  BY TopBelow
<1>3. stack_count' - Floor = Height - n + 1
  BY <1>1 DEF PopPush
<1>4. /\ stack'[stack_count - n] = v
      /\ \A j \in 0 .. stack_count - n - 1 : stack'[j] = stack[j]
  <2>1. /\ stack_count - n \in 0 .. MaxVmStackValues - 1
        /\ \A j \in 0 .. stack_count - n - 1 :
             j \in 0 .. MaxVmStackValues - 1 /\ j # stack_count - n
    BY <1>1, VmAssumption DEF VmAssumption
  <2>2. DOMAIN stack = 0 .. MaxVmStackValues - 1
    BY DEF Inv, TypeOK
  <2> QED
    BY <2>1, <2>2 DEF PopPush
<1> HIDE DEF below
<1>5. Row(Append(below, v), Height - n + 1)
  BY <1>2, RowAppend
<1>6. Height - n \in Nat /\ Len(below) = Height - n
  BY <1>2, RowSeq
<1>7. /\ \A k \in 1 .. Height - n : Append(below, v)[k] = below[k]
      /\ Append(below, v)[Height - n + 1] = v
  BY <1>6
<1>8. \A k \in 1 .. Height - n : Floor + k - 1 \in 0 .. stack_count - n - 1
  BY <1>1
<1>9. \A j \in 0 .. Floor - 1 : j \in 0 .. stack_count - n - 1
  BY <1>1, <1>6
<1>10. /\ Floor + (Height - n + 1) - 1 = stack_count - n
       /\ \A k \in 1 .. Height - n + 1 :
            k \in 1 .. Height - n \/ k = Height - n + 1
  BY <1>1
<1>11. \A k \in 1 .. Height - n + 1 :
         Append(below, v)[k] = stack'[Floor + k - 1]
  BY <1>2, <1>4, <1>7, <1>8, <1>10
<1> QED
  BY <1>3, <1>4, <1>5, <1>9, <1>11 DEF below

(* Taking one value off the stack leaves the operands below it. *)
LEMMA Dropped ==
  ASSUME Inv, running, Height >= 1, stack_count' = stack_count - 1
  PROVE  /\ Row(Machine!Below(1), stack_count' - Floor)
         /\ \A k \in 1 .. stack_count' - Floor :
              Machine!Below(1)[k] = stack[Floor + k - 1]
<1>1. /\ Height \in Nat /\ Floor \in Nat
      /\ stack_count = Floor + Height
  BY CurrentHeight
<1>2. /\ Row(Machine!Below(1), Height - 1)
      /\ \A k \in 1 .. Height - 1 : Machine!Below(1)[k] = stack[Floor + k - 1]
  BY <1>1, TopBelow
<1>3. stack_count' - Floor = Height - 1
  BY <1>1
<1> QED
  BY <1>2, <1>3

(* A load finds in the activation what vm.c finds at the base pointer. *)
LEMMA SameLoaded ==
  ASSUME Inv, running, ~AtEnd, Instruction.op \in LoadOps
  PROVE  Machine!Loaded(Instruction) = Loaded(Instruction)
<1> DEFINE i == Instruction
<1>1. /\ Machine!Current.locals = Slots(Frame.base_pointer, Floor)
      /\ Machine!Current.free_values = closures[Frame.closure].free_values
      /\ Machine!Current.closure = Frame.closure
  BY CurrentCall
<1>2. i.op = "GET_LOCAL" =>
        Machine!Current.locals[i.operand + 1] = stack[Frame.base_pointer + i.operand]
  <2> SUFFICES ASSUME i.op = "GET_LOCAL"
               PROVE  Machine!Current.locals[i.operand + 1]
                        = stack[Frame.base_pointer + i.operand]
    OBVIOUS
  <2>1. i.operand < Function.local_count
    BY CurrentInstruction
  <2>2. /\ i.operand \in Nat /\ Frame.base_pointer \in Nat
        /\ Function.local_count \in Nat
    BY CurrentFrame, VmAssumption
       DEF VmAssumption, Inv, Frames, CompiledFunctions, Instructions
  <2>3. /\ Frame.base_pointer \in Int /\ Floor \in Int
        /\ Frame.base_pointer <= Floor
        /\ i.operand + 1 \in 1 .. Floor - Frame.base_pointer
        /\ Frame.base_pointer + (i.operand + 1) - 1
             = Frame.base_pointer + i.operand
    BY <2>1, <2>2 DEF Floor
  <2>4. Slots(Frame.base_pointer, Floor)[i.operand + 1]
          = stack[Frame.base_pointer + (i.operand + 1) - 1]
    BY <2>3, SlotsRow
  <2> QED
    BY <1>1, <2>3, <2>4
<1>3. /\ Machine!Null = Null
      /\ Machine!BooleanValue(TRUE) = BooleanValue(TRUE)
      /\ Machine!BooleanValue(FALSE) = BooleanValue(FALSE)
      /\ Machine!ClosureValue(Frame.closure) = ClosureValue(Frame.closure)
  BY SameConstants, SameOperations
<1>4. i.op \in {"CONSTANT", "NULL", "TRUE", "FALSE", "GET_GLOBAL", "GET_LOCAL",
                "GET_FREE", "CURRENT_CLOSURE"}
  BY DEF LoadOps
<1>5. CASE i.op = "GET_LOCAL"
  BY <1>2, <1>5 DEF Loaded, Machine!Loaded
<1>6. CASE i.op = "GET_FREE"
  BY <1>1, <1>6 DEF Loaded, Machine!Loaded
<1>7. CASE i.op = "CURRENT_CLOSURE"
  BY <1>1, <1>3, <1>7 DEF Loaded, Machine!Loaded
<1>8. CASE i.op \in {"CONSTANT", "NULL", "TRUE", "FALSE", "GET_GLOBAL"}
  BY <1>3, <1>8 DEF Loaded, Machine!Loaded
<1> QED
  BY <1>4, <1>5, <1>6, <1>7, <1>8

-----------------------------------------------------------------------------
(* Every step is a step of the abstract machine *)

(* A load. *)
LEMMA LoadImplements ==
  ASSUME Inv, FramesApart, Load
  PROVE  Machine!Load
<1> DEFINE v == Loaded(Instruction)
<1>1. /\ Executing(LoadOps) /\ running /\ ~AtEnd /\ running' /\ VmStep
      /\ Instruction.op \in LoadOps
      /\ PopPush(0, v) /\ Advance /\ frame_count' = frame_count
  BY DEF Load, Executing, VmStep
<1>2. Machine!Correct(Machine!LoadOps)
  BY <1>1, ExecutingCorrect, SameConstants
<1>3. stack_count - 0 <= MaxVmStackValues - 1
  <2>1. LoadFault(Instruction) = "none"
    BY <1>1, FaultOf DEF Executing
  <2>2. stack_count < MaxVmStackValues
    BY <2>1 DEF LoadFault, PushFault
  <2> QED
    BY <2>2, VmAssumption DEF VmAssumption, Inv, TypeOK
<1>4. /\ Row(Machine!Operands, Height)
      /\ Machine!Below(0) = Machine!Operands
      /\ 0 <= Height
  <2>1. Row(Machine!Operands, Height) /\ Height \in Nat
    BY <1>1, CurrentHeight, OperandsOf
  <2>2. Machine!Below(0) = SubSeq(Machine!Operands, 1, Height - 0)
    BY <2>1, RowSeq DEF Machine!Below
  <2>3. Row(Machine!Below(0), Height - 0)
    BY <1>1, <2>1, TopBelow
  <2>4. \A k \in 1 .. Height : Machine!Below(0)[k] = Machine!Operands[k]
    <3>1. Height - 0 = Height
      BY <2>1
    <3> QED
      BY <1>1, <2>1, <3>1, TopBelow, OperandsOf
  <2>5. Height - 0 = Height
    BY <2>1
  <2> QED
    BY <2>1, <2>3, <2>4, <2>5, RowEqual
<1> HIDE DEF v
<1>5. Machine!GoOnNext(Append(Machine!Below(0), v))
  BY <1>1, <1>3, <1>4, Pushed, GoesOnNext
<1>6. Machine!Loaded(Machine!Instruction) = v
  BY <1>1, CurrentAt, SameLoaded DEF v
<1>7. Heap' = Heap
  BY HeapKept DEF Load
<1> QED
  BY <1>2, <1>4, <1>5, <1>6, <1>7 DEF Load, Machine!Load

(* A pop. *)
LEMMA PopImplements ==
  ASSUME Inv, FramesApart, Pop
  PROVE  Machine!Pop
<1>1. /\ Executing({"POP"}) /\ running /\ ~AtEnd /\ running' /\ VmStep
      /\ Instruction.op = "POP" /\ stack' = stack
      /\ stack_count' = stack_count - 1 /\ Advance /\ frame_count' = frame_count
  BY DEF Pop, Executing, VmStep
<1>2. Machine!Correct({"POP"})
  BY <1>1, ExecutingCorrect
<1>3. Height >= 1 /\ Height \in Nat
  BY <1>1, CurrentInstruction, CurrentHeight, TakenOf
<1>4. Machine!GoOnNext(Machine!Below(1))
  BY <1>1, <1>3, Dropped, GoesOnNext
<1>5. Machine!Last(Machine!Operands) = Peek(0)
  BY <1>1, <1>3, OperandsOf
<1>6. Heap' = Heap
  BY HeapKept DEF Pop
<1> QED
  BY <1>2, <1>4, <1>5, <1>6 DEF Pop, Machine!Pop

(* The two operands on top. *)
LEMMA TopTwo ==
  ASSUME Inv, running, 2 <= Height
  PROVE  Machine!Top(2)[1] = Peek(1) /\ Machine!Top(2)[2] = Peek(0)
<1>1. /\ stack_count - 2 + 1 - 1 = stack_count - 1 - 1
      /\ stack_count - 2 + 2 - 1 = stack_count - 1 - 0
      /\ 1 \in 1 .. 2 /\ 2 \in 1 .. 2 /\ 2 \in Nat
  BY CurrentHeight
<1>2. \A k \in 1 .. 2 : Machine!Top(2)[k] = stack[stack_count - 2 + k - 1]
  BY <1>1, TopBelow
<1> QED
  BY <1>1, <1>2 DEF Peek

(* A binary operation. *)
LEMMA ExecuteBinaryImplements ==
  ASSUME Inv, FramesApart, ExecuteBinary
  PROVE  Machine!ExecuteBinary
<1> DEFINE v == Binary(Instruction.op, Peek(1), Peek(0))
<1>1. /\ Executing(BinaryOps) /\ running /\ ~AtEnd /\ running' /\ VmStep
      /\ Instruction.op \in BinaryOps
      /\ PopPush(2, v) /\ Advance /\ frame_count' = frame_count
  BY DEF ExecuteBinary, Executing, VmStep
<1>2. Machine!Correct(Machine!BinaryOps)
  BY <1>1, ExecutingCorrect, SameConstants
<1>3. /\ Height >= 2 /\ Height \in Nat
      /\ stack_count - 2 <= MaxVmStackValues - 1
  <2>1. Height >= 2 /\ Height \in Nat
    BY <1>1, CurrentInstruction, CurrentHeight, TakenOf
  <2> QED
    BY <2>1, VmAssumption DEF VmAssumption, Inv, TypeOK
<1> HIDE DEF v
<1>4. Machine!GoOnNext(Append(Machine!Below(2), v))
  <2>1. 2 \in Nat /\ 2 <= Height
    BY <1>3
  <2> QED
    BY <1>1, <1>3, <2>1, Pushed, GoesOnNext
<1>5. Machine!Binary(Machine!Instruction.op, Machine!Top(2)[1], Machine!Top(2)[2]) = v
  BY <1>1, <1>3, CurrentAt, TopTwo, SameOperations DEF v
<1>6. Heap' = Heap
  BY HeapKept DEF ExecuteBinary
<1> QED
  BY <1>2, <1>4, <1>5, <1>6 DEF ExecuteBinary, Machine!ExecuteBinary

(* A unary operation. *)
LEMMA ExecuteUnaryImplements ==
  ASSUME Inv, FramesApart, ExecuteUnary
  PROVE  Machine!ExecuteUnary
<1> DEFINE v == IF Instruction.op = "BANG" THEN BooleanValue(~Truthy(Peek(0)))
                                           ELSE IntegerValue(-Peek(0).data)
<1>1. /\ Executing(UnaryOps) /\ running /\ ~AtEnd /\ running' /\ VmStep
      /\ Instruction.op \in UnaryOps
      /\ PopPush(1, v) /\ Advance /\ frame_count' = frame_count
  BY DEF ExecuteUnary, Executing, VmStep
<1>2. Machine!Correct(Machine!UnaryOps)
  BY <1>1, ExecutingCorrect, SameConstants
<1>3. /\ Height >= 1 /\ Height \in Nat
      /\ stack_count - 1 <= MaxVmStackValues - 1
  <2>1. Height >= 1 /\ Height \in Nat
    BY <1>1, CurrentInstruction, CurrentHeight, TakenOf
  <2> QED
    BY <2>1, VmAssumption DEF VmAssumption, Inv, TypeOK
<1> HIDE DEF v
<1>4. Machine!GoOnNext(Append(Machine!Below(1), v))
  <2>1. 1 \in Nat /\ 1 <= Height
    BY <1>3
  <2> QED
    BY <1>1, <1>3, <2>1, Pushed, GoesOnNext
<1>5. (IF Machine!Instruction.op = "BANG"
         THEN Machine!BooleanValue(~Machine!Truthy(Machine!Last(Machine!Operands)))
         ELSE Machine!IntegerValue(-Machine!Last(Machine!Operands).data)) = v
  <2>1. /\ Machine!Instruction = Instruction
        /\ Machine!Last(Machine!Operands) = Peek(0)
    BY <1>1, <1>3, CurrentAt, OperandsOf
  <2>2. /\ Machine!BooleanValue(~Machine!Truthy(Peek(0)))
             = BooleanValue(~Truthy(Peek(0)))
        /\ Machine!IntegerValue(-Peek(0).data) = IntegerValue(-Peek(0).data)
    BY DEF Machine!BooleanValue, BooleanValue, Machine!Truthy, Truthy,
           Machine!IntegerValue, IntegerValue
  <2> QED
    BY <2>1, <2>2 DEF v
<1>6. Heap' = Heap
  BY HeapKept DEF ExecuteUnary
<1> QED
  BY <1>2, <1>4, <1>5, <1>6 DEF ExecuteUnary, Machine!ExecuteUnary

(* A jump. *)
LEMMA JumpImplements ==
  ASSUME Inv, FramesApart, Jump
  PROVE  Machine!Jump
<1> DEFINE i == Instruction
           target == IF Truthy(Peek(0)) THEN Position ELSE i.operand
<1>1. /\ Executing(JumpOps) /\ running /\ ~AtEnd /\ running' /\ VmStep
      /\ i.op \in JumpOps /\ stack' = stack /\ frame_count' = frame_count
  BY DEF Jump, Executing, VmStep
<1>2. Machine!Correct(Machine!JumpOps)
  BY <1>1, ExecutingCorrect, SameConstants
<1>3. i.operand \in Nat /\ Position \in Nat
  BY <1>1, CurrentFrame DEF Inv, Frames, Instructions, Position
<1>4. Heap' = Heap
  BY HeapKept DEF Jump
<1>5. CASE i.op = "JUMP"
  <2>1. GoTo(i.operand) /\ stack_count' = stack_count
    BY <1>5 DEF Jump
  <2>2. /\ Row(Machine!Operands, stack_count' - Floor)
        /\ \A k \in 1 .. stack_count' - Floor :
             Machine!Operands[k] = stack'[Floor + k - 1]
    <3>1. stack_count' - Floor = Height
      BY <1>1, <2>1, CurrentHeight
    <3> QED
      BY <1>1, <3>1, OperandsOf
  <2>3. Machine!GoOn(i.operand + 1, Machine!Operands)
    BY <1>1, <1>3, <2>1, <2>2, GoesOn
  <2> QED
    BY <1>1, <1>2, <1>4, <1>5, <2>3, CurrentAt DEF Jump, Machine!Jump
<1>6. CASE i.op = "JUMP_NOT_TRUTHY"
  <2>1. GoTo(target) /\ stack_count' = stack_count - 1
    BY <1>6 DEF Jump, Advance, Position
  <2>2. Height >= 1 /\ Height \in Nat
    BY <1>1, <1>6, CurrentInstruction, CurrentHeight, TakenOf
  <2>3. target \in Nat
    BY <1>3
  <2> HIDE DEF target
  <2>4. Machine!GoOn(target + 1, Machine!Below(1))
    BY <1>1, <2>1, <2>2, <2>3, Dropped, GoesOn
  <2>5. /\ Machine!Instruction = i
        /\ Machine!Current.next = Position
        /\ Machine!Last(Machine!Operands) = Peek(0)
        /\ Machine!Truthy(Peek(0)) = Truthy(Peek(0))
    BY <1>1, <2>2, CurrentAt, OperandsOf, SameOperations
  <2>6. (IF Machine!Truthy(Machine!Last(Machine!Operands))
           THEN Machine!Current.next + 1 ELSE Machine!Instruction.operand + 1)
          = target + 1
    BY <2>5 DEF target
  <2> QED
    BY <1>1, <1>2, <1>4, <1>6, <2>4, <2>5, <2>6 DEF Jump, Machine!Jump
<1> QED
  BY <1>1, <1>5, <1>6 DEF JumpOps

(* An assignment to a global. *)
LEMMA SetGlobalImplements ==
  ASSUME Inv, FramesApart, SetGlobal
  PROVE  Machine!SetGlobal
<1>1. /\ Executing({"SET_GLOBAL"}) /\ running /\ ~AtEnd /\ running' /\ VmStep
      /\ Instruction.op = "SET_GLOBAL" /\ stack' = stack
      /\ stack_count' = stack_count - 1 /\ Advance /\ frame_count' = frame_count
  BY DEF SetGlobal, Executing, VmStep
<1>2. Machine!Correct({"SET_GLOBAL"})
  BY <1>1, ExecutingCorrect
<1>3. Height >= 1 /\ Height \in Nat
  BY <1>1, CurrentInstruction, CurrentHeight, TakenOf
<1>4. Machine!GoOnNext(Machine!Below(1))
  BY <1>1, <1>3, Dropped, GoesOnNext
<1>5. /\ Machine!Last(Machine!Operands) = Peek(0)
      /\ Machine!Instruction = Instruction
  BY <1>1, <1>3, OperandsOf, CurrentAt
<1>6. Heap' = Heap
  BY HeapKept DEF SetGlobal
<1> QED
  BY <1>2, <1>4, <1>5, <1>6 DEF SetGlobal, Machine!SetGlobal

(* Another value in one place. *)
LEMMA RowReplace ==
  ASSUME NEW n, NEW s, Row(s, n), NEW k \in 1 .. n, NEW e
  PROVE  /\ Row([s EXCEPT ![k] = e], n)
         /\ \A m \in 1 .. n : [s EXCEPT ![k] = e][m] = IF m = k THEN e ELSE s[m]
<1>1. n \in Nat /\ DOMAIN s = 1 .. n
  BY RowSeq
<1>2. \A m \in 1 .. n : [s EXCEPT ![k] = e][m] = IF m = k THEN e ELSE s[m]
  BY <1>1
<1>3. [s EXCEPT ![k] = e] = [m \in 1 .. n |-> [s EXCEPT ![k] = e][m]]
  BY <1>1
<1> QED
  BY <1>1, <1>2, <1>3 DEF Row

(* An assignment to a local: below the operands, in the current frame. *)
LEMMA SetLocalImplements ==
  ASSUME Inv, FramesApart, SetLocal
  PROVE  Machine!SetLocal
<1> DEFINE base == Frame.base_pointer
           n == Instruction.operand
           v == Peek(0)
           old == Slots(base, Floor)
           locals == [old EXCEPT ![n + 1] = v]
<1>1. /\ Executing({"SET_LOCAL"}) /\ running /\ ~AtEnd /\ running' /\ VmStep
      /\ Instruction.op = "SET_LOCAL"
      /\ stack' = [stack EXCEPT ![base + n] = v]
      /\ stack_count' = stack_count - 1 /\ GoTo(Position)
      /\ frame_count' = frame_count
  BY DEF SetLocal, Executing, VmStep, Advance, Position
<1>2. Machine!Correct({"SET_LOCAL"})
  BY <1>1, ExecutingCorrect
<1>3. /\ Height >= 1 /\ Height \in Nat /\ Floor \in Nat
      /\ stack_count = Floor + Height
      /\ stack_count \in 0 .. MaxVmStackValues
  BY <1>1, CurrentInstruction, CurrentHeight, TakenOf DEF Inv, TypeOK
<1>4. /\ n \in Nat /\ base \in Nat /\ Position \in Nat
      /\ Floor - base \in Nat
      /\ n + 1 \in 1 .. Floor - base
      /\ base <= Floor /\ base \in Int /\ Floor \in Int
  <2>1. n < Function.local_count
    BY <1>1, CurrentInstruction
  <2>2. n \in Nat
    BY <1>1, CurrentFrame DEF Inv, Instructions
  <2>3. base \in Nat /\ Position \in Nat
    BY <1>1, CurrentFrame, VmAssumption DEF VmAssumption, Inv, Frames, Position
  <2>4. Function.local_count \in Nat
    BY <1>1, CurrentFrame DEF Inv, CompiledFunctions
  <2>5. Floor = base + Function.local_count
    BY DEF Floor
  <2> HIDE DEF base, n
  <2> QED
    BY <2>1, <2>2, <2>3, <2>4, <2>5
<1>5. /\ stack'[base + n] = v
      /\ \A j \in 0 .. stack_count - 1 : j # base + n => stack'[j] = stack[j]
      /\ base + n < Floor
  <2> HIDE DEF base, n, v
  <2>1. /\ base + n \in 0 .. MaxVmStackValues - 1
        /\ base + n < Floor
        /\ \A j \in 0 .. stack_count - 1 : j \in 0 .. MaxVmStackValues - 1
    BY <1>3, <1>4, VmAssumption DEF VmAssumption
  <2>2. DOMAIN stack = 0 .. MaxVmStackValues - 1
    BY DEF Inv, TypeOK
  <2> QED
    BY <1>1, <2>1, <2>2
<1>6. /\ Row(old, Floor - base)
      /\ \A m \in 1 .. Floor - base : old[m] = stack[base + m - 1]
  BY <1>4, SlotsRow
<1> HIDE DEF old
<1>7. /\ Row(locals, Floor - base)
      /\ \A m \in 1 .. Floor - base : locals[m] = IF m = n + 1 THEN v ELSE old[m]
  <2> HIDE DEF base, n, v
  <2>1. Row(locals, Floor - base)
    BY <1>4, <1>6, RowReplace
  <2>2. DOMAIN old = 1 .. Floor - base
    BY <1>6, RowSeq
  <2>3. \A m \in 1 .. Floor - base : locals[m] = IF m = n + 1 THEN v ELSE old[m]
    BY <1>4, <2>2
  <2> QED
    BY <2>1, <2>3
<1> HIDE DEF locals, v, n, base
<1>8. \A m \in 1 .. Floor - base : locals[m] = stack'[base + m - 1]
  <2>1. \A m \in 1 .. Floor - base :
          /\ base + m - 1 \in 0 .. stack_count - 1
          /\ base + m - 1 = base + n <=> m = n + 1
    BY <1>3, <1>4
  <2> QED
    BY <1>5, <1>6, <1>7, <2>1
<1>9. /\ Row(Machine!Below(1), stack_count' - Floor)
      /\ \A k \in 1 .. stack_count' - Floor :
           Machine!Below(1)[k] = stack[Floor + k - 1]
  BY <1>1, <1>3, Dropped
<1>10. \A k \in 1 .. stack_count' - Floor :
         Machine!Below(1)[k] = stack'[Floor + k - 1]
  <2>1. \A k \in 1 .. stack_count' - Floor :
          /\ Floor + k - 1 \in 0 .. stack_count - 1
          /\ Floor + k - 1 # base + n
    BY <1>1, <1>3, <1>4, <1>5
  <2> QED
    BY <1>5, <1>9, <2>1
<1>11. Calls' = Append(Machine!Front(Calls),
                       [Machine!GoneOn(Position + 1, Machine!Below(1))
                          EXCEPT !.locals = locals])
  BY <1>1, <1>4, <1>7, <1>8, <1>9, <1>10, StepWithin DEF base
<1>12. /\ Machine!Current.next = Position
       /\ Machine!Last(Machine!Operands) = v
       /\ Machine!Instruction.operand = n
       /\ Machine!GoneOn(Position + 1, Machine!Below(1)).locals = old
  <2>1. Machine!GoneOn(Position + 1, Machine!Below(1)) =
          [closure |-> Frame.closure, code |-> Code,
           free_values |-> closures[Frame.closure].free_values,
           next |-> Position + 1, locals |-> Slots(Frame.base_pointer, Floor),
           operands |-> Machine!Below(1)]
    BY <1>1, GoneOnWith
  <2> QED
    BY <1>1, <1>3, <2>1, CurrentAt, OperandsOf DEF old, base, n, v
<1>13. Calls' = Append(Machine!Front(Calls),
                       [Machine!GoneOn(Machine!Current.next + 1, Machine!Below(1))
                          EXCEPT !.locals =
                            [@ EXCEPT ![Machine!Instruction.operand + 1] =
                               Machine!Last(Machine!Operands)]])
  BY <1>11, <1>12 DEF locals
<1>14. Heap' = Heap
  BY HeapKept DEF SetLocal
<1> QED
  BY <1>2, <1>13, <1>14 DEF SetLocal, Machine!SetLocal

(* A new closure: the heap grows by one, with the values on top. *)
LEMMA PushClosureImplements ==
  ASSUME Inv, FramesApart, PushClosure
  PROVE  Machine!PushClosure
<1> DEFINE i == Instruction
           count == i.operand2
           made == [function |-> functions[constants[i.operand + 1].data],
                    free_values |-> Machine!Top(count)]
           v == ClosureValue(closure_count + 1)
<1>1. /\ Executing({"CLOSURE"}) /\ running /\ ~AtEnd /\ running' /\ VmStep
      /\ i.op = "CLOSURE"
      /\ PopPush(count, v) /\ Advance /\ frame_count' = frame_count
      /\ closure_count' = closure_count + 1
  BY DEF PushClosure, Executing, VmStep
<1>2. Machine!Correct({"CLOSURE"})
  BY <1>1, ExecutingCorrect
<1>3. /\ count \in Nat /\ count <= Height
      /\ Height \in Nat /\ Floor \in Nat
      /\ stack_count = Floor + Height
      /\ stack_count \in 0 .. MaxVmStackValues
      /\ closure_count \in Nat
  <2>1. count \in Nat
    BY <1>1, CurrentFrame DEF Inv, Instructions
  <2>2. Height >= Taken(i) /\ Taken(i) = count
    BY <1>1, CurrentInstruction, TakenOf
  <2> QED
    BY <1>1, <2>1, <2>2, CurrentHeight, HeapRow DEF Inv, TypeOK
<1>4. ClosureFault(i) = "none"
  BY <1>1, FaultOf DEF Executing
<1>5. /\ closure_count + 1 \in 0 .. MaxVmClosures
      /\ closure_count + 1 \notin 1 .. closure_count
      /\ \A c \in 1 .. closure_count : c \in 0 .. MaxVmClosures
  <2>1. ~(closure_count >= MaxVmClosures)
    BY <1>4 DEF ClosureFault
  <2> QED
    BY <1>3, <2>1, VmAssumption DEF VmAssumption
<1>6. stack_count - count <= MaxVmStackValues - 1
  <2>1. count = 0 => PushFault = "none"
    BY <1>4 DEF ClosureFault
  <2>2. count = 0 => stack_count < MaxVmStackValues
    BY <2>1 DEF PushFault
  <2> HIDE DEF count
  <2> QED
    BY <1>3, <2>2, VmAssumption DEF VmAssumption
<1>7. Machine!GoOnNext(Append(Machine!Below(count), v))
  <2> HIDE DEF count, v
  <2> QED
    BY <1>1, <1>3, <1>6, Pushed, GoesOnNext
<1>8. [k \in 1 .. count |-> stack[stack_count - count + k - 1]] = Machine!Top(count)
  <2>1. /\ Row(Machine!Top(count), count)
        /\ \A k \in 1 .. count :
             Machine!Top(count)[k] = stack[stack_count - count + k - 1]
    BY <1>1, <1>3, TopBelow
  <2> QED
    BY <2>1 DEF Row
<1>9. closures' = [closures EXCEPT ![closure_count + 1] = made]
  BY <1>8 DEF PushClosure
<1> HIDE DEF made, v, count, i
<1>10. Heap' = Append(Heap, made)
  <2>1. /\ Row(Heap, closure_count)
        /\ \A c \in 1 .. closure_count : Heap[c] = closures[c]
    BY HeapRow
  <2>2. /\ closures'[closure_count + 1] = made
        /\ \A c \in 1 .. closure_count : closures'[c] = closures[c]
    <3>1. DOMAIN closures = 0 .. MaxVmClosures
      BY DEF Inv, TypeOK
    <3> QED
      BY <1>5, <1>9, <3>1
  <2>3. Heap' = [c \in 1 .. closure_count + 1 |-> closures'[c]]
    BY <1>1 DEF Heap
  <2>4. Row(Heap', closure_count + 1)
    BY <1>3, <2>3 DEF Row
  <2>5. \A c \in 1 .. closure_count + 1 : Heap'[c] = closures'[c]
    BY <2>3
  <2>6. Row(Append(Heap, made), closure_count + 1)
    BY <2>1, RowAppend
  <2>7. \A c \in 1 .. closure_count + 1 :
          c \in 1 .. closure_count \/ c = closure_count + 1
    BY <1>3
  <2>8. Len(Heap) = closure_count /\ closure_count \in Nat
    BY <2>1, RowSeq
  <2>9. /\ \A c \in 1 .. closure_count : Append(Heap, made)[c] = Heap[c]
        /\ Append(Heap, made)[closure_count + 1] = made
    BY <2>8
  <2>10. \A c \in 1 .. closure_count + 1 : Append(Heap, made)[c] = Heap'[c]
    BY <2>1, <2>2, <2>5, <2>7, <2>9
  <2> QED
    BY <2>4, <2>6, <2>10, RowEqual
<1>11. Machine!ClosureValue(Len(Heap) + 1) = v
  <2>1. Len(Heap) = closure_count
    BY HeapRow, RowSeq
  <2> QED
    BY <2>1, SameOperations DEF v
<1>12. Machine!Instruction = i
  BY <1>1, CurrentAt DEF i
<1> QED
  BY <1>2, <1>7, <1>10, <1>11, <1>12
     DEF PushClosure, Machine!PushClosure, made, v, count

(* A sequence with two other elements for its last. *)
LEMMA ReplaceLastByTwo ==
  ASSUME NEW n \in Nat \ {0}, NEW s, Row(s, n), NEW t, Row(t, n + 1),
         \A k \in 1 .. n - 1 : t[k] = s[k]
  PROVE  t = Front(s) \o <<t[n], t[n + 1]>>
<1>1. n - 1 \in Nat
  OBVIOUS
<1>2. Row(Front(s), n - 1) /\ \A k \in 1 .. n - 1 : Front(s)[k] = s[k]
  <2>1. n > 0
    OBVIOUS
  <2> QED
    BY <2>1, RowFront
<1> DEFINE front == Front(s)
           u == front \o <<t[n], t[n + 1]>>
           S == {front[k] : k \in 1 .. n - 1} \union {t[n], t[n + 1]}
<1> HIDE DEF front
<1>3. front \in Seq({front[k] : k \in 1 .. n - 1}) /\ Len(front) = n - 1
  BY <1>2, RowSeq DEF front
<1>4. front \in Seq(S) /\ <<t[n], t[n + 1]>> \in Seq(S)
  BY <1>3
<1> HIDE DEF S
<1>5. u \in Seq(S) /\ Len(u) = n + 1
  BY <1>1, <1>3, <1>4
<1>6. Row(u, n + 1)
  BY <1>5, SeqRow
<1>7. /\ \A k \in 1 .. n - 1 : u[k] = front[k]
      /\ u[n] = t[n]
      /\ u[n + 1] = t[n + 1]
  BY <1>1, <1>3, <1>4
<1> HIDE DEF u
<1>8. \A k \in 1 .. n + 1 : k \in 1 .. n - 1 \/ k = n \/ k = n + 1
  OBVIOUS
<1>9. \A k \in 1 .. n + 1 : u[k] = t[k]
  BY <1>2, <1>7, <1>8 DEF front
<1>10. t = u
  BY <1>6, <1>9, RowEqual
<1> QED
  BY <1>10 DEF u, front

(* A call, in terms of the callee and its arguments. *)
LEMMA CallAt ==
  ASSUME Inv, FramesApart, Call,
         NEW n, n = Instruction.operand,
         NEW callee, callee = closures[Peek(n).data]
  PROVE  /\ running /\ ~AtEnd /\ VmStep /\ running'
         /\ n \in Nat /\ n + 1 <= Height
         /\ stack_count = Floor + Height /\ Height \in Nat /\ Floor \in Nat
         /\ stack_count \in 0 .. MaxVmStackValues
         /\ callee.function.local_count \in Nat
         /\ Head(Machine!Top(n + 1)).data = Peek(n).data
         /\ Machine!Callee(Instruction) = callee
         /\ stack_count - n + callee.function.local_count \in 0 .. MaxVmStackValues
         /\ stack_count' = stack_count - n + callee.function.local_count
         /\ stack' = [k \in 0 .. MaxVmStackValues - 1 |->
                        IF k \in stack_count .. stack_count'- 1 THEN Null
                                                               ELSE stack[k]]
<1>1. Executing({"CALL"}) /\ running /\ ~AtEnd /\ Instruction.op = "CALL"
      /\ VmStep /\ running'
  BY DEF Call, Executing, VmStep
<1>2. /\ n \in Nat /\ n + 1 <= Height
      /\ Head(Machine!Top(n + 1)) = Peek(n)
      /\ Peek(n).type = "CLOSURE" => Machine!Callee(Instruction) = callee
  BY <1>1, CalleeOf
<1>3. Peek(n).type = "CLOSURE"
  <2>1. CallFault(Instruction) = "none"
    BY <1>1, FaultOf DEF Executing
  <2> QED
    BY <2>1 DEF CallFault
<1>4. /\ callee.function \in CompiledFunctions
      /\ stack_count - n + callee.function.local_count \in 0 .. MaxVmStackValues
  BY <1>1, CallFacts DEF Inv
<1>5. callee.function.local_count \in Nat
  BY <1>4 DEF CompiledFunctions
<1>6. /\ stack_count = Floor + Height /\ Height \in Nat /\ Floor \in Nat
      /\ stack_count \in 0 .. MaxVmStackValues
  BY <1>1, CurrentHeight DEF Inv, TypeOK
<1>7. /\ stack_count' = stack_count - n + callee.function.local_count
      /\ stack' = [k \in 0 .. MaxVmStackValues - 1 |->
                     IF k \in stack_count - n + n .. stack_count' - 1 THEN Null
                                                                  ELSE stack[k]]
  BY DEF Call, ArgumentBase
<1>8. stack_count - n + n = stack_count
  BY <1>2, <1>6
<1> QED
  BY <1>1, <1>2, <1>3, <1>4, <1>5, <1>6, <1>7, <1>8

(* The caller waits after the call, without the callee and its arguments. *)
LEMMA CallerWaits ==
  ASSUME Inv, FramesApart, Call, NEW n, n = Instruction.operand,
         NEW top, top = frame_count - 1
  PROVE  ActivationOf(top)' =
           Machine!GoneOn(Machine!Current.next + 1, Machine!Below(n + 1))
<1> DEFINE callee == closures[Peek(n).data]
           base == Frame.base_pointer
<1>1. /\ running /\ VmStep
      /\ n \in Nat /\ n + 1 <= Height
      /\ stack_count = Floor + Height /\ Height \in Nat /\ Floor \in Nat
      /\ stack_count \in 0 .. MaxVmStackValues
      /\ stack' = [k \in 0 .. MaxVmStackValues - 1 |->
                     IF k \in stack_count .. stack_count'- 1 THEN Null
                                                            ELSE stack[k]]
  BY CallAt
<1>2. \A j \in 0 .. stack_count - 1 : stack'[j] = stack[j]
  <2>1. \A j \in 0 .. stack_count - 1 :
          j \in 0 .. MaxVmStackValues - 1 /\ j \notin stack_count .. stack_count' - 1
    BY <1>1, VmAssumption DEF VmAssumption
  <2> QED
    BY <1>1, <2>1
<1>3. /\ frames'[top] = [Frame EXCEPT !.instruction_pointer = @ + 1]
      /\ frames'[frame_count].base_pointer = stack_count - n
      /\ frame_count' = frame_count + 1
      /\ frame_count \in Nat
  BY CallFrames, VmAssumption DEF VmAssumption, Inv, TypeOK
<1>4. /\ Frame \in Frames /\ base \in Nat
      /\ top \in 0 .. frame_count - 1
      /\ base <= Floor
  <2>1. top \in 0 .. frame_count - 1
    BY <1>1, CurrentFrame, VmAssumption DEF VmAssumption, Inv
  <2>2. FirstOperand(top) = Floor
    BY DEF FirstOperand, FrameFunction, Floor, Frame, Function
  <2> QED
    BY <1>1, <2>1, <2>2, LiveFrame DEF Frame
<1>5. frames'[top].instruction_pointer + 1 = Position + 1
  BY <1>3, <1>4 DEF Frames, Position
<1>6. /\ frames'[top].closure = Frame.closure
      /\ frames'[top].base_pointer = base
      /\ closures'[Frame.closure] = closures[Frame.closure]
      /\ FirstOperand(top)' = Floor
      /\ FrameFunction(top)' = Function
  <2>1. /\ FirstOperand(top) = Floor
        /\ FrameFunction(top) = Function
        /\ frames[top] = Frame
    BY DEF FirstOperand, FrameFunction, Floor, Frame, Function
  <2> QED
    BY <1>1, <1>4, <2>1, LiveFrameKept
<1>7. OperandsEnd(top)' = stack_count - n - 1
  <2>1. top # frame_count' - 1 /\ top + 1 = frame_count
    BY <1>3
  <2> QED
    BY <1>3, <2>1 DEF OperandsEnd
<1>8. Slots(frames[top].base_pointer, FirstOperand(top))' = Slots(base, Floor)
  <2>1. \A m \in 1 .. Floor - base : base + m - 1 \in 0 .. stack_count - 1
    BY <1>1, <1>4
  <2>2. [m \in 1 .. Floor - base |-> stack'[base + m - 1]]
          = [m \in 1 .. Floor - base |-> stack[base + m - 1]]
    BY <1>2, <2>1
  <2> QED
    BY <1>6, <2>2 DEF Slots
<1>9. Slots(FirstOperand(top), OperandsEnd(top))' = Machine!Below(n + 1)
  <2>1. n + 1 \in Nat
    BY <1>1
  <2>2. /\ Row(Machine!Below(n + 1), Height - (n + 1))
        /\ \A k \in 1 .. Height - (n + 1) :
             Machine!Below(n + 1)[k] = stack[Floor + k - 1]
    BY <1>1, <2>1, TopBelow
  <2>3. /\ stack_count - n - 1 - Floor = Height - (n + 1)
        /\ \A k \in 1 .. Height - (n + 1) : Floor + k - 1 \in 0 .. stack_count - 1
    BY <1>1
  <2>4. Slots(FirstOperand(top), OperandsEnd(top))'
          = [k \in 1 .. Height - (n + 1) |-> stack'[Floor + k - 1]]
    BY <1>6, <1>7, <2>3 DEF Slots
  <2>5. [k \in 1 .. Height - (n + 1) |-> stack'[Floor + k - 1]]
          = [k \in 1 .. Height - (n + 1) |-> Machine!Below(n + 1)[k]]
    BY <1>2, <2>2, <2>3
  <2> QED
    BY <2>2, <2>4, <2>5 DEF Row
<1>10. ActivationOf(top)' =
         [closure |-> frames'[top].closure,
          code |-> FrameFunction(top)'.instructions,
          free_values |-> closures'[frames'[top].closure].free_values,
          next |-> frames'[top].instruction_pointer + 1,
          locals |-> Slots(base, Floor),
          operands |-> Machine!Below(n + 1)]
  BY <1>8, <1>9 DEF ActivationOf
<1>11. Machine!GoneOn(Position + 1, Machine!Below(n + 1)) =
         [closure |-> Frame.closure, code |-> Code,
          free_values |-> closures[Frame.closure].free_values,
          next |-> Position + 1, locals |-> Slots(Frame.base_pointer, Floor),
          operands |-> Machine!Below(n + 1)]
  BY <1>1, GoneOnWith
<1> QED
  BY <1>1, <1>5, <1>6, <1>10, <1>11, CurrentAt DEF Code

(* The callee starts with its arguments for its first locals. *)
LEMMA CalleeStarts ==
  ASSUME Inv, FramesApart, Call, NEW n, n = Instruction.operand,
         NEW callee, callee = closures[Peek(n).data],
         NEW new, new = frame_count
  PROVE  ActivationOf(new)' =
           [closure |-> Peek(n).data,
            code |-> callee.function.instructions,
            free_values |-> callee.free_values,
            next |-> 1,
            locals |-> Machine!LocalsOf(callee, Tail(Machine!Top(n + 1))),
            operands |-> << >>]
<1> DEFINE base == stack_count - n
           count == callee.function.local_count
           arguments == Tail(Machine!Top(n + 1))
           closure == Peek(n).data
<1>1. /\ running
      /\ n \in Nat /\ n + 1 <= Height /\ count \in Nat
      /\ stack_count = Floor + Height /\ Height \in Nat /\ Floor \in Nat
      /\ stack_count \in 0 .. MaxVmStackValues
      /\ base + count \in 0 .. MaxVmStackValues
      /\ stack_count' = base + count
      /\ stack' = [k \in 0 .. MaxVmStackValues - 1 |->
                     IF k \in stack_count .. stack_count'- 1 THEN Null
                                                            ELSE stack[k]]
  BY CallAt
<1>2. /\ frames'[new] = [closure |-> closure, instruction_pointer |-> 0,
                                 base_pointer |-> base]
      /\ frame_count' = frame_count + 1
      /\ frame_count \in Nat
  BY CallFrames, VmAssumption DEF VmAssumption, Inv, TypeOK
<1>3. closures' = closures
  BY DEF Call
<1> HIDE DEF closure
<1>4. /\ FrameFunction(new)' = callee.function
      /\ FirstOperand(new)' = base + count
      /\ frames'[new].base_pointer = base
  BY <1>2, <1>3 DEF FrameFunction, FirstOperand, closure
<1>5. OperandsEnd(new)' = base + count
  <2>1. new = frame_count' - 1
    BY <1>2
  <2> QED
    BY <1>1, <2>1 DEF OperandsEnd
<1>6. Slots(FirstOperand(new), OperandsEnd(new))' = << >>
  <2>1. Slots(FirstOperand(new), OperandsEnd(new))'
          = [m \in 1 .. OperandsEnd(new)' - FirstOperand(new)' |->
               stack'[FirstOperand(new)' + m - 1]]
    BY DEF Slots
  <2>2. OperandsEnd(new)' - FirstOperand(new)' = 0
    BY <1>1, <1>4, <1>5
  <2> QED
    BY <2>1, <2>2
<1>7. /\ Len(arguments) = n
      /\ \A m \in 1 .. n : arguments[m] = stack[base + m - 1]
  <2>1. n + 1 \in Nat
    BY <1>1
  <2>2. /\ Row(Machine!Top(n + 1), n + 1)
        /\ \A m \in 1 .. n + 1 :
             Machine!Top(n + 1)[m] = stack[stack_count - (n + 1) + m - 1]
    BY <1>1, <2>1, TopBelow
  <2>3. ASSUME NEW top, Row(top, n + 1)
        PROVE  /\ Len(Tail(top)) = n
               /\ \A m \in 1 .. n : Tail(top)[m] = top[m + 1]
    <3> DEFINE S == {top[k] : k \in 1 .. n + 1}
    <3>1. top \in Seq(S) /\ Len(top) = n + 1
      BY <2>3, RowSeq
    <3> HIDE DEF S
    <3>2. Len(Tail(top)) = Len(top) - 1 /\ Len(top) - 1 = n
      BY <1>1, <3>1
    <3>3. \A m \in 1 .. Len(top) - 1 : Tail(top)[m] = top[m + 1]
      BY <1>1, <3>1
    <3> QED
      BY <3>2, <3>3
  <2>4. /\ Len(arguments) = n
        /\ \A m \in 1 .. n : arguments[m] = Machine!Top(n + 1)[m + 1]
    BY <2>2, <2>3
  <2>5. \A m \in 1 .. n : /\ m + 1 \in 1 .. n + 1
                          /\ stack_count - (n + 1) + (m + 1) - 1 = base + m - 1
    BY <1>1
  <2> HIDE DEF arguments, base
  <2> QED
    BY <2>2, <2>4, <2>5
<1>8. ASSUME NEW m \in 1 .. count
      PROVE  stack'[base + m - 1] = IF m <= n THEN arguments[m] ELSE Null
  <2>1. /\ base \in Nat /\ count \in Nat /\ n \in Nat
        /\ base + count <= MaxVmStackValues
        /\ stack_count = base + n /\ stack_count' = base + count
    BY <1>1, VmAssumption DEF VmAssumption
  <2> HIDE DEF base, count
  <2>2. /\ base + m - 1 \in 0 .. MaxVmStackValues - 1
        /\ base + m - 1 \in stack_count .. stack_count' - 1 <=> ~(m <= n)
        /\ m <= n => m \in 1 .. n
    BY <2>1, VmAssumption DEF VmAssumption
  <2> HIDE DEF arguments
  <2> QED
    BY <1>1, <1>7, <2>2
<1>9. Slots(frames[new].base_pointer, FirstOperand(new))'
        = Machine!LocalsOf(callee, arguments)
  <2>1. FirstOperand(new)' - base = count
    BY <1>1, <1>4
  <2>2. Slots(frames[new].base_pointer, FirstOperand(new))'
          = [m \in 1 .. count |-> stack'[base + m - 1]]
    <3>1. Slots(frames[new].base_pointer, FirstOperand(new))'
            = [m \in 1 .. FirstOperand(new)' - base |-> stack'[base + m - 1]]
      BY <1>4 DEF Slots
    <3> QED
      BY <2>1, <3>1
  <2>3. Machine!LocalsOf(callee, arguments)
          = [m \in 1 .. count |-> IF m <= n THEN arguments[m] ELSE Null]
    BY <1>7, SameConstants DEF Machine!LocalsOf
  <2>4. [m \in 1 .. count |-> stack'[base + m - 1]]
          = [m \in 1 .. count |-> IF m <= n THEN arguments[m] ELSE Null]
    BY <1>8
  <2> QED
    BY <2>2, <2>3, <2>4
<1>10. /\ frames'[new].closure = closure
       /\ frames'[new].instruction_pointer + 1 = 1
       /\ closures'[closure].free_values = callee.free_values
  BY <1>2, <1>3 DEF closure
<1>11. ActivationOf(new)' =
         [closure |-> frames'[new].closure,
          code |-> FrameFunction(new)'.instructions,
          free_values |-> closures'[frames'[new].closure].free_values,
          next |-> frames'[new].instruction_pointer + 1,
          locals |-> Machine!LocalsOf(callee, arguments),
          operands |-> << >>]
  BY <1>6, <1>9 DEF ActivationOf
<1> QED
  BY <1>4, <1>10, <1>11 DEF closure

(* A call. *)
LEMMA CallImplements ==
  ASSUME Inv, FramesApart, Call
  PROVE  Machine!Call
<1> DEFINE n == Instruction.operand
           callee == closures[Peek(n).data]
<1>1. /\ running /\ ~AtEnd /\ VmStep /\ running' /\ Executing({"CALL"})
      /\ frame_count' = frame_count + 1
  BY DEF Call, Executing, VmStep
<1>2. Machine!Correct({"CALL"})
  BY <1>1, ExecutingCorrect
<1>3. /\ frame_count \in Nat \ {0}
      /\ Row(Calls, frame_count)
      /\ \A k \in 1 .. frame_count : Calls[k] = ActivationOf(k - 1)
  BY <1>1, CallsRow
<1>4. /\ Row(Calls', frame_count + 1)
      /\ \A k \in 1 .. frame_count + 1 : Calls'[k] = ActivationOf(k - 1)'
  <2>1. frame_count' \in Nat
    BY <1>1, <1>3
  <2> QED
    BY <1>1, <2>1, CallsAfter
<1> PICK count \in Nat \ {0} : count = frame_count
  BY <1>3
<1>5. ASSUME NEW k \in 1 .. frame_count - 1
      PROVE  Calls'[k] = Calls[k]
  <2>1. /\ k - 1 \in 0 .. frame_count - 2 /\ k - 1 # frame_count' - 1
        /\ k \in 1 .. frame_count /\ k \in 1 .. frame_count + 1
    BY <1>1, <1>3
  <2>2. ActivationOf(k - 1)' = ActivationOf(k - 1)
    BY <1>1, <2>1, WaitingKept
  <2> QED
    BY <1>3, <1>4, <2>1, <2>2
<1>6. Calls' = Front(Calls) \o <<Calls'[frame_count], Calls'[frame_count + 1]>>
  BY <1>3, <1>4, <1>5, ReplaceLastByTwo
<1>7. Calls'[frame_count] =
        Machine!GoneOn(Machine!Current.next + 1, Machine!Below(n + 1))
  <2>1. count \in 1 .. frame_count + 1
    BY <1>3
  <2>2. Calls'[count] = ActivationOf(count - 1)'
    BY <1>4, <2>1
  <2>3. count - 1 = frame_count - 1
    OBVIOUS
  <2> QED
    BY <2>2, <2>3, CallerWaits
<1>8. Calls'[frame_count + 1] =
        [closure |-> Peek(n).data,
         code |-> callee.function.instructions,
         free_values |-> callee.free_values,
         next |-> 1,
         locals |-> Machine!LocalsOf(callee, Tail(Machine!Top(n + 1))),
         operands |-> << >>]
  <2>1. count + 1 \in 1 .. frame_count + 1 /\ count + 1 - 1 = count
    BY <1>3
  <2>2. Calls'[count + 1] = ActivationOf(count)'
    BY <1>4, <2>1
  <2> QED
    BY <2>2, CalleeStarts
<1>9. /\ Machine!Instruction = Instruction
      /\ Head(Machine!Top(n + 1)).data = Peek(n).data
      /\ Machine!Callee(Instruction) = callee
      /\ Machine!Front(Calls) = Front(Calls)
  BY <1>1, CurrentAt, CallAt, SameSequences
<1>10. Heap' = Heap
  BY HeapKept DEF Call
<1> HIDE DEF callee
<1> QED
  BY <1>2, <1>6, <1>7, <1>8, <1>9, <1>10 DEF Call, Machine!Call

(* What a function returns. *)
LEMMA SameReturned ==
  ASSUME Inv, Executing(ReturnOps)
  PROVE  Machine!Returned = ReturnedValue
<1>1. running /\ ~AtEnd /\ Instruction.op \in {"RETURN", "RETURN_VALUE"}
  BY DEF Executing, ReturnOps
<1>2. Machine!Instruction = Instruction /\ Machine!Null = Null
  BY <1>1, CurrentAt, SameConstants
<1>3. CASE Instruction.op = "RETURN"
  BY <1>2, <1>3 DEF Machine!Returned, ReturnedValue
<1>4. CASE Instruction.op = "RETURN_VALUE"
  <2>1. Height >= 1 /\ Height \in Nat
    BY <1>1, <1>4, CurrentInstruction, CurrentHeight, TakenOf
  <2>2. Machine!Last(Machine!Operands) = Peek(0)
    BY <1>1, <2>1, OperandsOf
  <2> QED
    BY <1>2, <1>4, <2>2 DEF Machine!Returned, ReturnedValue
<1> QED
  BY <1>1, <1>3, <1>4

(* The return that ends the line. *)
LEMMA ReturnFromMainImplements ==
  ASSUME Inv, FramesApart, ReturnFromMain
  PROVE  Machine!ReturnFromMain
<1>1. Executing(ReturnOps) /\ running /\ frame_count = 1 /\ running' = FALSE
  BY DEF ReturnFromMain, Executing
<1>2. Machine!Correct(Machine!ReturnOps)
  BY <1>1, ExecutingCorrect, SameConstants
<1>3. Len(Calls) = 1
  BY <1>1, CallsRow, RowSeq
<1>4. Calls' = << >>
  BY <1>1 DEF Calls
<1>5. Machine!Returned = ReturnedValue
  BY <1>1, SameReturned
<1>6. Heap' = Heap
  BY HeapKept DEF ReturnFromMain
<1> QED
  BY <1>2, <1>3, <1>4, <1>5, <1>6 DEF ReturnFromMain, Machine!ReturnFromMain

(* A return to a caller, which finds the result where it left the callee and its
   arguments. *)
LEMMA ReturnToCallerImplements ==
  ASSUME Inv, FramesApart, ReturnToCaller
  PROVE  Machine!ReturnToCaller
<1> DEFINE v == ReturnedValue
           base == Frame.base_pointer
<1>1. /\ Executing(ReturnOps) /\ running /\ ~AtEnd /\ running' /\ VmStep
      /\ frame_count > 1
      /\ stack' = [stack EXCEPT ![base - 1] = v]
      /\ stack_count' = base
      /\ frame_count' = frame_count - 1
  BY DEF ReturnToCaller, Executing, VmStep
<1>2. Machine!Correct(Machine!ReturnOps)
  BY <1>1, ExecutingCorrect, SameConstants
<1>3. /\ frame_count \in Nat \ {0}
      /\ Row(Calls, frame_count)
      /\ \A k \in 1 .. frame_count : Calls[k] = ActivationOf(k - 1)
  BY <1>1, CallsRow
<1> PICK count \in Nat : count = frame_count - 1
  BY <1>3
<1>4. /\ count \in Nat \ {0} /\ frame_count = count + 1 /\ frame_count' = count
      /\ count - 1 \in 0 .. frame_count - 2
  BY <1>1, <1>3
<1>5. /\ Row(Front(Calls), count)
      /\ \A k \in 1 .. count : Front(Calls)[k] = Calls[k]
  <2>1. Row(Front(Calls), frame_count - 1)
        /\ \A k \in 1 .. frame_count - 1 : Front(Calls)[k] = Calls[k]
    <3>1. frame_count > 0
      BY <1>1, <1>3
    <3> QED
      BY <1>3, <3>1, RowFront
  <2> QED
    BY <2>1
<1>6. /\ Row(Calls', count)
      /\ \A k \in 1 .. count : Calls'[k] = ActivationOf(k - 1)'
  BY <1>1, <1>4, CallsAfter
<1>7. ASSUME NEW k \in 1 .. count - 1
      PROVE  Calls'[k] = Front(Calls)[k]
  <2>1. /\ k - 1 \in 0 .. frame_count - 2 /\ k - 1 # frame_count' - 1
        /\ k \in 1 .. frame_count /\ k \in 1 .. count
    BY <1>4
  <2>2. ActivationOf(k - 1)' = ActivationOf(k - 1)
    BY <1>1, <2>1, WaitingKept
  <2> QED
    BY <1>3, <1>5, <1>6, <2>1, <2>2
<1>8. Calls' = Append(Front(Front(Calls)), Calls'[count])
  BY <1>4, <1>5, <1>6, <1>7, ReplaceLast
<1>9. ActivationOf(count - 1)' =
        [ActivationOf(count - 1) EXCEPT
           !.operands = Append(ActivationOf(count - 1).operands, v)]
  <2> DEFINE caller == count - 1
             first == FirstOperand(caller)
             old == ActivationOf(caller).operands
             new == Append(old, v)
  <2>1. /\ caller \in 0 .. frame_count - 1
        /\ first <= base - 1 /\ base \in Nat
        /\ \A j \in frames[caller].base_pointer .. base - 2 : stack'[j] = stack[j]
    <3>1. frames[caller + 1] = Frame
      BY <1>4 DEF Frame
    <3> QED
      BY <1>1, <1>4, <3>1, WaitingFrame
  <2>2. /\ frames[caller].base_pointer \in Nat /\ first \in Nat
        /\ frames[caller].base_pointer <= first
    BY <1>1, <2>1, LiveFrame
  <2>3. OperandsEnd(caller) = base - 1
    <3>1. caller # frame_count - 1 /\ caller + 1 = frame_count - 1
      BY <1>4
    <3> QED
      BY <3>1 DEF OperandsEnd, Frame
  <2>4. OperandsEnd(caller)' = base
    <3>1. caller = frame_count' - 1
      BY <1>4
    <3> QED
      BY <1>1, <3>1 DEF OperandsEnd
  <2>5. old = Slots(first, base - 1)
    BY <2>3 DEF ActivationOf
  <2> HIDE DEF base, caller, first, v, old
  <2>6. /\ Row(old, base - 1 - first)
        /\ \A n \in 1 .. base - 1 - first : old[n] = stack[first + n - 1]
    <3>1. first \in Int /\ base - 1 \in Int /\ first <= base - 1
      BY <2>1, <2>2
    <3> QED
      BY <2>5, <3>1, SlotsRow
  <2>7. Len(old) = base - 1 - first /\ base - 1 - first \in Nat
    BY <2>6, RowSeq
  <2>8. Row(new, base - first)
    <3>1. Row(new, base - 1 - first + 1)
      BY <2>6, RowAppend
    <3>2. base - 1 - first + 1 = base - first
      BY <2>1, <2>2
    <3> QED
      BY <3>1, <3>2
  <2>9. /\ \A n \in 1 .. base - 1 - first : new[n] = old[n]
        /\ new[base - 1 - first + 1] = v
    BY <2>7
  <2>10. stack'[base - 1] = v
    <3>1. base - 1 \in 0 .. MaxVmStackValues - 1
      <4>1. base \in 0 .. MaxVmStackValues
        BY <1>1, CurrentFrame DEF Inv, Frames, base
      <4> QED
        BY <2>1, <2>2, <4>1, VmAssumption DEF VmAssumption
    <3>2. DOMAIN stack = 0 .. MaxVmStackValues - 1
      BY DEF Inv, TypeOK
    <3> QED
      BY <1>1, <3>1, <3>2
  <2>11. \A n \in 1 .. base - first : new[n] = stack'[first + n - 1]
    <3>1. /\ \A n \in 1 .. base - first :
               n \in 1 .. base - 1 - first \/ n = base - 1 - first + 1
          /\ first + (base - 1 - first + 1) - 1 = base - 1
          /\ \A n \in 1 .. base - 1 - first :
               first + n - 1 \in frames[caller].base_pointer .. base - 2
      BY <2>1, <2>2
    <3> QED
      BY <2>1, <2>6, <2>9, <2>10, <3>1
  <2> HIDE DEF new
  <2>12. ActivationOf(caller)' = [ActivationOf(caller) EXCEPT !.operands = new]
    BY <1>1, <1>4, <2>4, <2>8, <2>11, WaitingCall DEF caller, first
  <2> QED
    BY <2>12 DEF caller, new, old
<1>10. Machine!Last(Front(Calls)) = ActivationOf(count - 1)
  <2>1. Last(Front(Calls)) = Front(Calls)[count]
    <3>1. count > 0
      BY <1>4
    <3> QED
      BY <1>5, <3>1, RowFront
  <2>2. count \in 1 .. count /\ count \in 1 .. frame_count
    BY <1>4
  <2> QED
    BY <1>3, <1>5, <2>1, <2>2, SameSequences
<1>11. Calls'[count] = ActivationOf(count - 1)'
  <2>1. count \in 1 .. count
    BY <1>4
  <2> QED
    BY <1>6, <2>1
<1>12. /\ Machine!Returned = v
       /\ Machine!Front(Calls) = Front(Calls)
       /\ Machine!Front(Front(Calls)) = Front(Front(Calls))
  BY <1>1, SameReturned, SameSequences
<1>13. Len(Calls) > 1
  BY <1>1, <1>3, RowSeq
<1>14. Heap' = Heap
  BY HeapKept DEF ReturnToCaller
<1> HIDE DEF v
<1>15. Calls' = Append(Machine!Front(Machine!Front(Calls)),
                       [Machine!Last(Machine!Front(Calls)) EXCEPT
                          !.operands = Append(@, Machine!Returned)])
  BY <1>8, <1>9, <1>10, <1>11, <1>12
<1> QED
  BY <1>2, <1>13, <1>14, <1>15 DEF ReturnToCaller, Machine!ReturnToCaller

(* The end of the main code. *)
LEMMA FinishImplements ==
  ASSUME Inv, FramesApart, Finish
  PROVE  Machine!Finish
<1>1. running /\ AtEnd /\ frame_count = 1 /\ running' = FALSE
  BY DEF Finish
<1>2. Len(Calls) = 1
  BY <1>1, CallsRow, RowSeq
<1>3. Calls' = << >>
  BY <1>1 DEF Calls
<1>4. Machine!AtEnd
  BY <1>1, CurrentAt
<1>5. Heap' = Heap
  BY HeapKept DEF Finish
<1> QED
  BY <1>1, <1>2, <1>3, <1>4, <1>5 DEF Finish, Machine!Finish

(* A panic: what the program did wrong, or a lack of room. *)
LEMMA AbortImplements ==
  ASSUME Inv, FramesApart, Abort
  PROVE  Machine!Abort
<1>1. /\ running /\ running' = FALSE
      /\ StepFault # "none" /\ panic' = StepFault
      /\ StepFault \notin InternalFaults
  BY VerifiedStepFault DEF Abort
<1>2. ~AtEnd /\ StepFault = Fault(Instruction)
  BY <1>1 DEF StepFault, InternalFaults
<1>3. Instruction \in Instructions
  BY <1>1, <1>2, CurrentFrame DEF Inv
<1>4. Machine!Executing(Machine!OpCodes)
  <2>1. Instruction.op \in OpCodes
    BY <1>3 DEF Instructions
  <2> QED
    BY <1>1, <1>2, <2>1, CurrentAt, SameConstants DEF Machine!Executing
<1>5. Fault(Instruction) \in ProgramFaults \union CapacityFaults
  BY <1>1, <1>2, <1>3, FaultType DEF VmFaults
<1>6. panic' \in IF Machine!ProgramFault(Machine!Instruction) = "none"
                   THEN Machine!CapacityFaults
                   ELSE {Machine!ProgramFault(Machine!Instruction)}
  <2>1. Machine!Instruction = Instruction /\ Machine!CapacityFaults = CapacityFaults
    BY <1>1, CurrentAt, SameConstants
  <2>2. CASE Fault(Instruction) \in ProgramFaults
    BY <1>1, <1>2, <2>1, <2>2, SameFaults
  <2>3. CASE Fault(Instruction) \in CapacityFaults
    BY <1>1, <1>2, <2>1, <2>3, SameFaults
  <2> QED
    BY <1>5, <2>2, <2>3
<1>7. Calls' = << >>
  BY <1>1 DEF Calls
<1>8. Heap' = Heap
  BY HeapKept DEF Abort
<1> QED
  BY <1>1, <1>4, <1>6, <1>7, <1>8 DEF Abort, Machine!Abort

(* Another line: vm_run lays out one frame, on an empty stack. *)
LEMMA RunLineImplements ==
  ASSUME Inv, FramesApart, RunLine
  PROVE  \E b \in Bytecodes : Machine!Run(b)
<1>1. PICK b \in Bytecodes :
        /\ VmRun(b)
        /\ IsPrefix(constants, b.constants)
        /\ IsPrefix(functions, b.functions)
  BY DEF RunLine
<1>2. /\ frame_count' = 1 /\ running' /\ stack_count' = 0
      /\ running' = TRUE
  BY <1>1 DEF VmRun
<1>3. /\ frames'[0] = [closure |-> 0, instruction_pointer |-> 0, base_pointer |-> 0]
      /\ closures'[0] =
           [function |-> [NoFunction EXCEPT !.instructions = b.instructions],
            free_values |-> << >>]
  <2>1. 0 \in DOMAIN frames /\ 0 \in DOMAIN closures
    BY VmAssumption DEF VmAssumption, Inv, TypeOK
  <2> QED
    BY <1>1, <2>1 DEF VmRun
<1>4. /\ FrameFunction(0)'.instructions = b.instructions
      /\ FirstOperand(0)' = 0
      /\ OperandsEnd(0)' = 0
  <2>1. FrameFunction(0)' = [NoFunction EXCEPT !.instructions = b.instructions]
    BY <1>3 DEF FrameFunction
  <2>2. /\ FrameFunction(0)'.instructions = b.instructions
        /\ FrameFunction(0)'.local_count = 0
    BY <2>1 DEF NoFunction
  <2>3. FirstOperand(0)' = 0
    BY <1>3, <2>2 DEF FirstOperand
  <2>4. OperandsEnd(0)' = 0
    BY <1>2 DEF OperandsEnd
  <2> QED
    BY <2>2, <2>3, <2>4
<1>5. /\ Slots(frames[0].base_pointer, FirstOperand(0))' = << >>
      /\ Slots(FirstOperand(0), OperandsEnd(0))' = << >>
  <2>1. \A f : [n \in 1 .. 0 - 0 |-> f[n]] = << >>
    OBVIOUS
  <2> QED
    BY <1>3, <1>4, <2>1 DEF Slots
<1>6. ActivationOf(0)' =
        [closure |-> 0, code |-> b.instructions, free_values |-> << >>,
         next |-> 1, locals |-> << >>, operands |-> << >>]
  <2>1. ActivationOf(0)' =
          [closure |-> frames'[0].closure,
           code |-> FrameFunction(0)'.instructions,
           free_values |-> closures'[frames'[0].closure].free_values,
           next |-> frames'[0].instruction_pointer + 1,
           locals |-> << >>, operands |-> << >>]
    BY <1>5 DEF ActivationOf
  <2> QED
    BY <1>3, <1>4, <2>1
<1>7. Calls' = <<ActivationOf(0)'>>
  <2>1. /\ Row(Calls', frame_count')
        /\ \A k \in 1 .. frame_count' : Calls'[k] = ActivationOf(k - 1)'
    BY <1>2, CallsAfter
  <2>2. 1 \in 1 .. frame_count' /\ 1 - 1 = 0
    BY <1>2
  <2>3. Calls'[1] = ActivationOf(0)'
    BY <2>1, <2>2
  <2>4. Calls' = [k \in 1 .. 1 |-> Calls'[k]]
    BY <1>2, <2>1 DEF Row
  <2> QED
    BY <2>3, <2>4
<1>8. Heap' = Heap
  <2>1. /\ closure_count' = closure_count
        /\ \A c \in 1 .. closure_count : closures'[c] = closures[c]
    <3>1. \A c \in 1 .. closure_count : c \in 0 .. MaxVmClosures /\ c # 0
      BY VmAssumption DEF VmAssumption, Inv, TypeOK
    <3>2. DOMAIN closures = 0 .. MaxVmClosures
      BY DEF Inv, TypeOK
    <3> QED
      BY <1>1, <3>1, <3>2 DEF VmRun
  <2> QED
    BY <2>1 DEF Heap
<1>9. /\ Machine!IsPrefix(constants, b.constants)
      /\ Machine!IsPrefix(functions, b.functions)
      /\ Machine!Null = Null
  BY <1>1, SameSequences, SameConstants
<1>10. Machine!Run(b)
  BY <1>1, <1>2, <1>6, <1>7, <1>8, <1>9 DEF VmRun, Machine!Run
<1> QED
  BY <1>10

-----------------------------------------------------------------------------
(* The refinement *)

(* The machine starts where the abstract machine does. *)
LEMMA InitImplements == VmInit => Machine!MachineInit
<1> SUFFICES ASSUME VmInit PROVE Machine!MachineInit
  OBVIOUS
<1>1. Heap = << >>
  <2>1. Heap = [c \in 1 .. 0 |-> closures[c]]
    BY DEF VmInit, Heap
  <2> QED
    BY <2>1
<1>2. Calls = << >>
  BY DEF VmInit, Calls
<1>3. Machine!Null = Null
  BY SameConstants
<1> QED
  BY <1>1, <1>2, <1>3 DEF VmInit, Machine!MachineInit

(* Every step is a step of the abstract machine, or changes nothing of it. *)
LEMMA NextImplements ==
  Inv /\ FramesApart /\ [Next]_vmVars => [Machine!MachineNext]_(Machine!machineVars)
<1> SUFFICES ASSUME Inv, FramesApart, [Next]_vmVars
             PROVE  Machine!MachineNext \/ UNCHANGED Machine!machineVars
  OBVIOUS
<1>1. CASE Load \/ Pop \/ ExecuteBinary \/ ExecuteUnary \/ Jump
  BY <1>1, LoadImplements, PopImplements, ExecuteBinaryImplements,
     ExecuteUnaryImplements, JumpImplements DEF Machine!MachineNext
<1>2. CASE SetGlobal \/ SetLocal \/ PushClosure \/ Call
  BY <1>2, SetGlobalImplements, SetLocalImplements, PushClosureImplements,
     CallImplements DEF Machine!MachineNext
<1>3. CASE ReturnFromMain \/ ReturnToCaller \/ Finish \/ Abort
  BY <1>3, ReturnFromMainImplements, ReturnToCallerImplements, FinishImplements,
     AbortImplements DEF Machine!MachineNext
<1>4. CASE RunLine
  BY <1>4, RunLineImplements DEF Machine!MachineNext
<1>5. CASE UNCHANGED vmVars
  <2>1. Heap' = Heap
    BY <1>5, HeapKept DEF vmVars
  <2>2. Calls' = Calls
    <3>1. \A k : ActivationOf(k)' = ActivationOf(k)
      BY <1>5
         DEF vmVars, ActivationOf, FrameFunction, FirstOperand, OperandsEnd, Slots
    <3> QED
      BY <1>5, <3>1 DEF vmVars, Calls
  <2> QED
    BY <1>5, <2>1, <2>2 DEF vmVars, Machine!machineVars
<1> QED
  BY <1>1, <1>2, <1>3, <1>4, <1>5 DEF Next, VmStep

(* On verified bytecode vm.c is a machine in which every call has locals and
   operands of its own: laying the locals of a call over what is on the stack
   (vm_call), cutting it back (vm_return) and never clearing what is above
   stack_count are not seen by any function, and a line stops only for what
   the program did, or for lack of room. *)
THEOREM VmImplementsActivations ==
  ASSUME AllVerified
  PROVE  Spec => ImplementsActivations
<1>1. VmInit => Inv /\ FramesApart /\ Machine!MachineInit
  BY InitInv, InitImplements DEF VmInit, FramesApart
<1>2. Inv /\ FramesApart /\ [Next]_vmVars =>
        /\ Inv' /\ FramesApart'
        /\ [Machine!MachineNext]_(Machine!machineVars)
  BY NextKeepsInv, NextKeepsApart, NextImplements
<1> QED
  BY <1>1, <1>2, PTL DEF Spec, ImplementsActivations, Machine!MachineSpec

===============================================================================
