------------------------ MODULE CompiledMachine_proofs ------------------------
(***************************************************************************)
(* Compiler mode implements the machine of VmSafety, given nothing but     *)
(* verified bytecode: what is proved of that machine holds of the program. *)
(***************************************************************************)
EXTENDS CompilesVerified_proofs

-----------------------------------------------------------------------------
(* The machine that compiler mode implements *)

(* All the bytecode that meets the contract. *)
Handed == {b \in [instructions : Seq(Instructions), constants : Seq(Values),
                  functions : Seq(CompiledFunctions)] : IsBytecode(b) /\ Verified(b)}

(* Why vm.c aborted: a PANIC of compiler.c is none of the machine's. *)
MachinePanic == IF Failed(compiler) THEN "none" ELSE panic

VM == INSTANCE VmActivations_proofs WITH Bytecodes <- Handed, panic <- MachinePanic

-----------------------------------------------------------------------------
(* The operators of the two specifications are the same *)


(* Opcodes, types and faults. *)
LEMMA SameCodes ==
  /\ VM!LoadOps = LoadOps /\ VM!ArithmeticOps = ArithmeticOps
  /\ VM!ComparisonOps = ComparisonOps /\ VM!BinaryOps = BinaryOps
  /\ VM!UnaryOps = UnaryOps /\ VM!JumpOps = JumpOps /\ VM!ReturnOps = ReturnOps
  /\ VM!OpCodes = OpCodes /\ VM!MinInt = MinInt
  /\ VM!Instructions = Instructions /\ VM!Values = Values
  /\ VM!CompiledFunctions = CompiledFunctions
  /\ VM!InternalFaults = InternalFaults
  /\ VM!Null = Null /\ VM!NoFunction = NoFunction
<1>1. /\ VM!LoadOps = LoadOps /\ VM!ArithmeticOps = ArithmeticOps
      /\ VM!ComparisonOps = ComparisonOps
      /\ VM!UnaryOps = UnaryOps /\ VM!JumpOps = JumpOps /\ VM!ReturnOps = ReturnOps
      /\ VM!MinInt = MinInt /\ VM!Values = Values
      /\ VM!InternalFaults = InternalFaults
      /\ VM!Null = Null /\ VM!NoFunction = NoFunction
  BY DEF VM!LoadOps, LoadOps, VM!ArithmeticOps, ArithmeticOps, VM!ComparisonOps,
         ComparisonOps, VM!UnaryOps, UnaryOps, VM!JumpOps, JumpOps, VM!ReturnOps,
         ReturnOps, VM!MinInt, MinInt, VM!Values, Values, VM!ValueTypes, ValueTypes,
         VM!InternalFaults, InternalFaults, VM!Null, Null, VM!NoFunction, NoFunction
<1>2. VM!BinaryOps = BinaryOps
  BY <1>1 DEF VM!BinaryOps, BinaryOps
<1>3. VM!OpCodes = OpCodes
  BY <1>1, <1>2 DEF VM!OpCodes, OpCodes
<1>4. VM!Instructions = Instructions
  BY <1>3 DEF VM!Instructions, Instructions
<1>5. VM!CompiledFunctions = CompiledFunctions
  BY <1>4 DEF VM!CompiledFunctions, CompiledFunctions
<1> QED
  BY <1>1, <1>2, <1>3, <1>4, <1>5

(* What the verifier asks of bytecode. *)
LEMMA SameContract ==
  ASSUME NEW b
  PROVE  /\ VM!IsBytecode(b) <=> IsBytecode(b)
         /\ VM!Verified(b) <=> Verified(b)
<1>1. VM!IsBytecode(b) <=> IsBytecode(b)
  BY SameCodes DEF VM!IsBytecode, IsBytecode
<1>2. ASSUME NEW i
      PROVE  VM!Taken(i) = Taken(i) /\ VM!Given(i) = Given(i)
  BY SameCodes DEF VM!Taken, Taken, VM!Given, Given
<1>3. ASSUME NEW i, NEW h
      PROVE VM!HeightAfter(i, h) = HeightAfter(i, h)
  BY <1>2 DEF VM!HeightAfter, HeightAfter
<1>4. ASSUME NEW code, NEW k
      PROVE VM!Successors(code, k) = Successors(code, k)
  BY SameCodes DEF VM!Successors, Successors
<1>5. ASSUME NEW code PROVE VM!Heights(code) = Heights(code)
  BY DEF VM!Heights, Heights, VM!Unreached, Unreached, VM!HeightAfter, HeightAfter, VM!Taken, Taken, VM!Given, Given, VM!Successors, Successors, VM!BinaryOps, BinaryOps, VM!ArithmeticOps, ArithmeticOps, VM!ComparisonOps, ComparisonOps, VM!UnaryOps, UnaryOps, VM!JumpOps, JumpOps, VM!ReturnOps, ReturnOps
<1>6. ASSUME NEW code PROVE VM!HeightsAgree(code) <=> HeightsAgree(code)
  BY <1>2, <1>3, <1>4, <1>5 DEF VM!HeightsAgree, HeightsAgree
<1>7. ASSUME NEW c, NEW code, NEW n
      PROVE VM!OperandsValid(c, code, n) <=> OperandsValid(c, code, n)
  BY DEF VM!OperandsValid, OperandsValid, VM!IsFunctionConstant, IsFunctionConstant,
         VM!FunctionConstant, FunctionConstant, VM!FreeValuesNeeded, FreeValuesNeeded
<1>8. VM!VerifiedMain(b) <=> VerifiedMain(b)
  BY <1>6, <1>7 DEF VM!VerifiedMain, VerifiedMain, VM!FreeValuesNeeded, FreeValuesNeeded
<1>9. ASSUME NEW f PROVE VM!VerifiedFunction(b, f) <=> VerifiedFunction(b, f)
  BY <1>5, <1>6, <1>7 DEF VM!VerifiedFunction, VerifiedFunction
<1> QED
  BY <1>1, <1>8, <1>9 DEF VM!Verified, Verified

(* What VmSafety assumes of the bytecode, and its theorems ask. *)
LEMMA Assumed == VM!AllVerified /\ \A b \in Handed : VM!IsBytecode(b)
BY SameContract DEF VM!AllVerified, Handed

(* Operations on values. *)
LEMMA SameValues ==
  ASSUME NEW op, NEW l, NEW r
  PROVE  /\ VM!BinaryFault(op, l, r) = BinaryFault(op, l, r)
         /\ VM!Binary(op, l, r) = Binary(op, l, r)
         /\ VM!Truthy(l) = Truthy(l)
         /\ VM!IntegerValue(l) = IntegerValue(l)
         /\ VM!BooleanValue(l) = BooleanValue(l)
         /\ VM!ClosureValue(l) = ClosureValue(l)
<1>1. /\ VM!BinaryFault(op, l, r) = BinaryFault(op, l, r)
      /\ VM!Binary(op, l, r) = Binary(op, l, r)
  BY DEF VM!BinaryFault, BinaryFault, VM!Binary, Binary, VM!IntegerFault, IntegerFault, VM!Arithmetic, Arithmetic, VM!Quotient, Quotient, VM!Magnitude, Magnitude, VM!Compare, Compare, VM!ArithmeticOps, ArithmeticOps, VM!MinInt, MinInt, VM!IntegerValue, IntegerValue, VM!BooleanValue, BooleanValue
<1>2. /\ VM!Truthy(l) = Truthy(l)
      /\ VM!IntegerValue(l) = IntegerValue(l)
      /\ VM!BooleanValue(l) = BooleanValue(l)
      /\ VM!ClosureValue(l) = ClosureValue(l)
  BY DEF VM!Truthy, Truthy, VM!IntegerValue, IntegerValue, VM!BooleanValue, BooleanValue, VM!ClosureValue, ClosureValue
<1> QED
  BY <1>1, <1>2

(* The current frame. *)
LEMMA SameFrame ==
  /\ VM!Frame = Frame /\ VM!Function = Function /\ VM!Code = Code
  /\ VM!AtEnd = AtEnd /\ VM!Instruction = Instruction
  /\ \A n : VM!Peek(n) = Peek(n)
  /\ VM!ArgumentBase = ArgumentBase /\ VM!ReturnedValue = ReturnedValue
BY DEF VM!Frame, Frame, VM!Function, Function, VM!Code, Code, VM!AtEnd, AtEnd, VM!Instruction, Instruction, VM!Peek, Peek, VM!ArgumentBase, ArgumentBase, VM!ReturnedValue, ReturnedValue, VM!Null, Null

(* The PANIC conditions. *)
LEMMA SameFault == ASSUME NEW i PROVE VM!Fault(i) = Fault(i)
<1>1. VM!LoadFault(i) = LoadFault(i)
  BY SameFrame DEF VM!LoadFault, LoadFault, VM!PushFault, PushFault
<1>2. VM!UnaryFault(i) = UnaryFault(i)
  BY SameFrame, SameValues, SameCodes DEF VM!UnaryFault, UnaryFault
<1>3. VM!JumpFault(i) = JumpFault(i)
  BY SameFrame, SameValues DEF VM!JumpFault, JumpFault
<1>4. VM!ClosureFault(i) = ClosureFault(i)
  BY DEF VM!ClosureFault, ClosureFault, VM!PushFault, PushFault
<1>5. VM!CallFault(i) = CallFault(i)
  BY SameFrame DEF VM!CallFault, CallFault
<1>6. VM!ReturnFault(i) = ReturnFault(i)
  BY SameFrame DEF VM!ReturnFault, ReturnFault
<1> QED
  BY <1>1, <1>2, <1>3, <1>4, <1>5, <1>6, SameFrame, SameValues, SameCodes
     DEF VM!Fault, Fault, VM!PopFault, PopFault

(* A step of the loop in vm_run. *)
LEMMA SameStep ==
  ASSUME VmStep, MachinePanic = panic, MachinePanic' = panic'
  PROVE  VM!VmStep
<1>1. /\ \A ops : VM!Executing(ops) <=> Executing(ops)
      /\ VM!StepFault = StepFault
  BY SameFrame, SameFault DEF VM!Executing, Executing, VM!StepFault, StepFault
<1>2. /\ \A n, v : VM!PopPush(n, v) <=> PopPush(n, v)
      /\ \A n : VM!GoTo(n) <=> GoTo(n)
      /\ VM!Advance <=> Advance
  BY SameFrame DEF VM!PopPush, PopPush, VM!GoTo, GoTo, VM!Advance, Advance
<1>3. ASSUME Load PROVE VM!Load
  <2>1. ASSUME NEW i PROVE VM!Loaded(i) = Loaded(i)
    BY SameFrame, SameValues, SameCodes DEF VM!Loaded, Loaded
  <2> QED
    BY <1>1, <1>2, <1>3, <2>1, SameFrame, SameCodes DEF VM!Load, Load
<1>4. ASSUME Pop PROVE VM!Pop
  BY <1>1, <1>2, <1>4, SameFrame DEF VM!Pop, Pop
<1>5. ASSUME ExecuteBinary PROVE VM!ExecuteBinary
  BY <1>1, <1>2, <1>5, SameFrame, SameCodes, SameValues DEF VM!ExecuteBinary, ExecuteBinary
<1>6. ASSUME ExecuteUnary PROVE VM!ExecuteUnary
  BY <1>1, <1>2, <1>6, SameFrame, SameCodes, SameValues DEF VM!ExecuteUnary, ExecuteUnary
<1>7. ASSUME Jump PROVE VM!Jump
  BY <1>1, <1>2, <1>7, SameFrame, SameCodes, SameValues DEF VM!Jump, Jump
<1>8. ASSUME SetGlobal PROVE VM!SetGlobal
  BY <1>1, <1>2, <1>8, SameFrame DEF VM!SetGlobal, SetGlobal
<1>9. ASSUME SetLocal PROVE VM!SetLocal
  BY <1>1, <1>2, <1>9, SameFrame DEF VM!SetLocal, SetLocal
<1>10. ASSUME PushClosure PROVE VM!PushClosure
  BY <1>1, <1>2, <1>10, SameFrame, SameValues DEF VM!PushClosure, PushClosure
<1>11. ASSUME Call PROVE VM!Call
  BY <1>1, <1>2, <1>11, SameFrame, SameCodes DEF VM!Call, Call
<1>12. ASSUME ReturnFromMain PROVE VM!ReturnFromMain
  BY <1>1, <1>2, <1>12, SameFrame, SameCodes DEF VM!ReturnFromMain, ReturnFromMain
<1>13. ASSUME ReturnToCaller PROVE VM!ReturnToCaller
  BY <1>1, <1>2, <1>13, SameFrame, SameCodes DEF VM!ReturnToCaller, ReturnToCaller
<1>14. ASSUME Finish PROVE VM!Finish
  BY <1>1, <1>14, SameFrame DEF VM!Finish, Finish
<1>15. ASSUME Abort PROVE VM!Abort
  BY <1>1, <1>15, SameFrame DEF VM!Abort, Abort
<1> QED
  BY <1>3, <1>4, <1>5, <1>6, <1>7, <1>8, <1>9, <1>10, <1>11, <1>12, <1>13, <1>14, <1>15
     DEF VmStep, VM!VmStep

(* Entering vm_run. *)
LEMMA SameRun ==
  ASSUME NEW b, VmRun(b), MachinePanic = panic, MachinePanic' = panic'
  PROVE  VM!VmRun(b)
BY SameCodes DEF VmRun, VM!VmRun

(* Growing. *)
LEMMA SamePrefix ==
  ASSUME NEW s, NEW t
  PROVE  VM!IsPrefix(s, t) <=> IsPrefix(s, t)
BY DEF VM!IsPrefix, IsPrefix

-----------------------------------------------------------------------------
(* The process *)

(* It is alive as long as it compiles or runs, and the compiler's PANIC is the
   process's. *)
Alive ==
  /\ compiling \/ running => panic = "none"
  /\ Failed(compiler) => panic = compiler.panic

(* Only a running machine makes steps. *)
LEMMA StepsRun == VmStep => running
BY DEF VmStep, Load, Pop, ExecuteBinary, ExecuteUnary, Jump, SetGlobal, SetLocal,
       PushClosure, Call, ReturnFromMain, ReturnToCaller, Finish, Abort, Executing

(* It is so at the start. *)
LEMMA InitAlive == CompiledInit => Alive
BY DEF CompiledInit, CompilerInit, VmInit, Alive, Failed

(* It stays so in every step. *)
LEMMA NextAlive == CompilerInv /\ Alive /\ [CompiledNext]_compiledVars => Alive'
<1> SUFFICES ASSUME CompilerInv, Alive, [CompiledNext]_compiledVars PROVE Alive'
  OBVIOUS
<1>1. CASE ReadLine
  <2>1. PICK stmts \in Lines : compiler' = Compile(compiler, stmts)
    BY <1>1 DEF ReadLine, Enters
  <2>2. compiler \in Compilers /\ ~Failed(compiler) /\ Compiled(compiler) /\ Sane(compiler)
    BY <1>1 DEF ReadLine, Ready, CompilerInv
  <2>3. ~Failed(compiler')
    BY <2>1, <2>2, CompileStarts
  <2> QED
    BY <1>1, <2>3 DEF ReadLine, Ready, Enters, vmVars, Alive
<1>2. ASSUME NEW d, Becomes(d), compiling PROVE Alive'
  <2>1. /\ panic' = d.panic /\ compiling' = ~Failed(d) /\ running' = running /\ ~running
        /\ compiler' = d
    BY <1>2 DEF Becomes, CompilerInv
  <2> QED
    BY <2>1 DEF Alive, Failed
<1>3. CASE RunCompiled
  BY <1>3 DEF RunCompiled, VmRun, CompilerInv, Alive
<1>4. CASE Execute
  <2>1. running /\ ~compiling /\ ~compiling' /\ panic = "none"
    <3>1. running
      BY <1>4, StepsRun DEF Execute
    <3> QED
      BY <1>4, <3>1 DEF Execute, CompilerInv, Alive
  <2>2. ~running' \/ panic' = panic
    BY <1>4 DEF Execute, VmStep, Load, Pop, ExecuteBinary, ExecuteUnary, Jump, SetGlobal,
                SetLocal, PushClosure, Call, ReturnFromMain, ReturnToCaller, Finish, Abort
  <2>3. ~Failed(compiler')
    BY <1>4, <2>1 DEF Execute, CompilerInv
  <2> QED
    BY <2>1, <2>2, <2>3 DEF Alive
<1>5. CASE UNCHANGED compiledVars
  BY <1>5 DEF compiledVars, vmVars, Alive
<1>6. CASE CompileStep \/ CompileEndFunction
  <2>1. compiling /\ \E d : Becomes(d)
    BY <1>6 DEF CompileStep, Doing, CompileEndFunction
  <2> QED
    BY <1>2, <2>1
<1> QED
  BY <1>1, <1>3, <1>4, <1>5, <1>6 DEF CompiledNext, GoOn

-----------------------------------------------------------------------------
(* The refinement *)

Kept == IsPrefix(constants, constants') /\ IsPrefix(functions, functions')

(* Reading a line and compiling it are nothing to the machine; running it is a line of
   verified bytecode that extends the last; and a step of vm_run is a step. *)
LEMMA StepImplements ==
  ASSUME CompilerInv, AlignedInv, NamedInv, Alive, CompiledNext, Kept
  PROVE  [VM!Next]_(VM!vmVars)
<1>1. Failed(compiler) => ~running /\ ~compiling /\ panic # "none"
  BY DEF CompilerInv
<1>2. ASSUME NEW d, Becomes(d), compiling PROVE UNCHANGED VM!vmVars
  <2>1. panic = "none" /\ ~Failed(compiler) /\ compiler' = d /\ panic' = d.panic
    BY <1>1, <1>2 DEF Becomes, Alive
  <2>2. MachinePanic' = MachinePanic
    BY <2>1 DEF MachinePanic, Failed
  <2> QED
    BY <1>2, <2>2 DEF Becomes, VM!vmVars
<1>3. CASE ReadLine
  <2>1. panic = "none" /\ UNCHANGED vmVars
    BY <1>3 DEF ReadLine, Ready, Enters
  <2>2. MachinePanic' = MachinePanic
    BY <2>1 DEF MachinePanic, vmVars
  <2> QED
    BY <2>1, <2>2 DEF vmVars, VM!vmVars
<1>4. CASE CompileStep \/ CompileEndFunction
  <2>1. compiling /\ \E d : Becomes(d)
    BY <1>4 DEF CompileStep, Doing, CompileEndFunction
  <2> QED
    BY <1>2, <2>1
<1>5. CASE RunCompiled
  <2> DEFINE b == BytecodeOf(compiler)
  <2>1. /\ compiling /\ Compiled(compiler) /\ compiler' = compiler /\ VmRun(b)
    BY <1>5 DEF RunCompiled
  <2>2. ~Failed(compiler) /\ MachinePanic = panic /\ MachinePanic' = panic'
    BY <1>1, <2>1 DEF MachinePanic
  <2>3. /\ compiler \in Compilers /\ Aligned(compiler) /\ Named(compiler)
    BY <2>1, <2>2 DEF CompilerInv, AlignedInv, NamedInv
  <2>4. /\ b.constants = compiler.constants /\ b.functions = compiler.functions
        /\ b.instructions = Emitted(compiler)
    BY <2>1, <2>3, CurrentScope DEF Compiled, Emitted, BytecodeOf
  <2>5. b = [instructions |-> b.instructions, constants |-> b.constants,
             functions |-> b.functions]
    BY DEF BytecodeOf
  <2>6. constants' = b.constants /\ functions' = b.functions
    BY <2>1 DEF VmRun
  <2> HIDE DEF b
  <2>7. IsBytecode(b) /\ Verified(b)
    BY <2>1, <2>3, <2>4, HandedVerified
  <2>8. b \in Handed
    BY <2>5, <2>7 DEF Handed, IsBytecode
  <2>9. VM!VmRun(b)
    BY <2>1, <2>2, SameRun
  <2>10. VM!RunLine
    BY <2>6, <2>8, <2>9, SamePrefix DEF VM!RunLine, Kept
  <2> QED
    BY <2>10 DEF VM!Next
<1>6. CASE Execute
  <2>1. VmStep /\ compiler' = compiler /\ running
    BY <1>6, StepsRun DEF Execute
  <2>2. MachinePanic = panic /\ MachinePanic' = panic'
    BY <1>1, <2>1 DEF MachinePanic
  <2> QED
    BY <2>1, <2>2, SameStep DEF VM!Next
<1> QED
  BY <1>3, <1>4, <1>5, <1>6 DEF CompiledNext, GoOn

(* Both start alike. *)
LEMMA InitImplementsVm == CompiledInit => VM!VmInit
BY SameCodes DEF CompiledInit, VmInit, VM!VmInit, MachinePanic

(* When nothing happens in compiler mode, nothing happens to the machine. *)
LEMMA StutterImplements == UNCHANGED compiledVars => UNCHANGED VM!vmVars
BY DEF compiledVars, vmVars, VM!vmVars, MachinePanic

(* The program is the composition its parts are checked for (run_compiler_repl,
   compiler_compile, vm_run): as long as no let binds a name its function has
   captured, every session of compiler mode, for any syntax trees and any capacities, is
   a behaviour of the machine that is only given verified bytecode, each line's
   extending the last one's. *)
THEOREM CompiledModeImplementsVm ==
  CompiledSpec /\ []CapturesNotBound => VM!Spec
<1>1. CompilerInv /\ AlignedInv /\ NamedInv /\ Alive /\ [CompiledNext]_compiledVars
        /\ [Kept]_compiledVars => [VM!Next]_(VM!vmVars)
  BY StepImplements, StutterImplements
<1>2. CompiledSpec => [][Kept]_compiledVars
  BY BytecodeOnlyGrows, PTL DEF BytecodeGrows, Kept
<1> QED
  BY <1>1, <1>2, InitImplementsVm, InitCompiler, NextCompiler, InitAligned, NextAligned,
     InitNamed, NextNamed, InitAlive, NextAlive, PTL DEF CompiledSpec, VM!Spec

(* So no PANIC with which compiler.c or vm.c checks its own bookkeeping is reached: no
   empty scope or missing jump, no stack underflow, no index out of bounds and no
   function without a return. *)
THEOREM NoInternalPanicUnlessBound ==
  CompiledSpec /\ []CapturesNotBound => []NoInternalPanic
<1>1. VM!Spec => []VM!NoInternalFault /\ []VM!TypeOK
  BY Assumed, VmAssumption, VM!VerifiedNeverFaults, VM!TypeCorrect
<1>2. VM!InternalFaults = InternalFaults /\ VM!VmFaults = VmFaults
  BY SameCodes DEF VM!VmFaults, VmFaults, VM!ProgramFaults, ProgramFaults,
                   VM!CapacityFaults, CapacityFaults
<1>3. \A why \in VmFaults \union {"none"} : why \notin CompilerInternalFaults
  BY DEF VmFaults, InternalFaults, ProgramFaults, CapacityFaults, CompilerInternalFaults
<1>4. \A why \in CompilerFaults : why \notin InternalFaults \union CompilerInternalFaults
  BY DEF CompilerFaults, CompilerCapacityFaults, CompilerInternalFaults, InternalFaults
<1>5. CompilerInv /\ Alive /\ VM!TypeOK /\ VM!NoInternalFault => NoInternalPanic
  <2> SUFFICES ASSUME CompilerInv, Alive, VM!TypeOK, VM!NoInternalFault
               PROVE  NoInternalPanic
    OBVIOUS
  <2>1. CASE Failed(compiler)
    <3>1. panic = compiler.panic /\ compiler.panic \in CompilerFaults
      BY <2>1 DEF Alive, CompilerInv, Failed
    <3> QED
      BY <1>4, <3>1 DEF NoInternalPanic
  <2>2. CASE ~Failed(compiler)
    <3>1. MachinePanic = panic
      BY <2>2 DEF MachinePanic
    <3>2. panic \in VmFaults \union {"none"} /\ panic \notin InternalFaults
      BY <1>2, <3>1 DEF VM!TypeOK, VM!NoInternalFault
    <3> QED
      BY <1>3, <3>2 DEF NoInternalPanic
  <2> QED
    BY <2>1, <2>2
<1> QED
  BY <1>1, <1>5, CompiledModeImplementsVm, CompilerSane, InitAlive, NextAlive, InitCompiler,
     NextCompiler, PTL DEF CompiledSpec

(* And in compiler mode the calls of a program are separate activations: what a call
   does to the one stack, or leaves in it, is never seen by another (vm_call,
   vm_return). *)
THEOREM CompiledModeImplementsActivations ==
  CompiledSpec /\ []CapturesNotBound => VM!ImplementsActivations
<1>1. VM!Spec => VM!ImplementsActivations
  BY Assumed, VmAssumption, VM!VmImplementsActivations
<1> QED
  BY <1>1, CompiledModeImplementsVm
===============================================================================
