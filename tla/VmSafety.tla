------------------------------- MODULE VmSafety -------------------------------
(***************************************************************************)
(* The virtual machine on its own: a session of any number of vm_run calls *)
(* on bytecode from Bytecodes.  A later line's bytecode extends an earlier *)
(* one's, because the compiler only appends to its constants               *)
(* (compiler_add_constant) and never changes a compiled function.          *)
(***************************************************************************)
EXTENDS Verifier, SequencesExt

CONSTANT Bytecodes  \* what the machine may be given to run

ASSUME BytecodesAssumption == \A b \in Bytecodes : IsBytecode(b)

RunLine ==
  \E b \in Bytecodes :
    /\ VmRun(b)
    /\ IsPrefix(constants, b.constants)
    /\ IsPrefix(functions, b.functions)

Next == VmStep \/ RunLine

Spec == VmInit /\ [][Next]_vmVars

-----------------------------------------------------------------------------
(* Properties for any bytecode *)

(* A value the rest of the C code may look into without harm: an integer that
   fits int64_t, a boolean that is 0 or 1, a pointer to a closure that was
   allocated. *)
Sound(v, allocated) ==
  /\ v \in Values
  /\ v.type = "NULL" => v.data = 0
  /\ v.type = "INT" => v.data \in MinInt .. MaxInt
  /\ v.type = "BOOL" => v.data \in {0, 1}
  /\ v.type = "CLOSURE" => v.data \in 0 .. allocated

Closures == [function : CompiledFunctions, free_values : Seq(Values)]
Frames == [closure : 0 .. MaxVmClosures, instruction_pointer : Nat,
           base_pointer : 0 .. MaxVmStackValues]

(* The type invariant of vm.c's Vm, whatever bytecode it is given. *)
TypeOK ==
  /\ running \in BOOLEAN
  /\ panic \in VmFaults \union {"none"}
  /\ IsBytecode([instructions |-> << >>, constants |-> constants,
                 functions |-> functions])
  /\ stack \in [0 .. MaxVmStackValues - 1 -> Values]
  /\ stack_count \in 0 .. MaxVmStackValues
  /\ globals \in [0 .. MaxVmGlobals - 1 -> Values]
  /\ frames \in [0 .. MaxVmFrames - 1 -> Frames]
  /\ frame_count \in 0 .. MaxVmFrames
  /\ running => frame_count > 0
  /\ closures \in [0 .. MaxVmClosures -> Closures]
  /\ closure_count \in 0 .. MaxVmClosures
  /\ last_popped \in Values

(* Whatever bytecode runs, every value the machine holds, in a live slot, in a
   slot left behind by an earlier line, in a global, captured in a closure or
   called in a frame, is sound: no integer has wrapped around (the PANICs of
   vm_integer_binary and vm_execute_minus) and no closure pointer dangles. *)
ValuesSound ==
  /\ \A k \in 0 .. MaxVmStackValues - 1 : Sound(stack[k], closure_count)
  /\ \A k \in 0 .. MaxVmGlobals - 1 : Sound(globals[k], closure_count)
  /\ \A c \in 0 .. MaxVmClosures :
       \A k \in 1 .. Len(closures[c].free_values) :
         Sound(closures[c].free_values[k], closure_count)
  /\ Sound(last_popped, closure_count)
  /\ \A k \in 0 .. MaxVmFrames - 1 : frames[k].closure \in 0 .. closure_count

(* vm_return's "invalid VM frame base pointer" cannot happen, whatever the
   bytecode: vm_call leaves at least the callee below a new frame, and a new
   line resets the frames.  vm.c:196 guards against nothing. *)
FrameBasePositive ==
  /\ \A k \in 1 .. frame_count - 1 : frames[k].base_pointer > 0
  /\ panic # "frame base"

-----------------------------------------------------------------------------
(* Properties for verified bytecode *)

AllVerified == \A b \in Bytecodes : Verified(b)

FrameFunction(k) == closures[frames[k].closure].function
FrameHeight(k) ==
  Heights(FrameFunction(k).instructions)[frames[k].instruction_pointer + 1]

(* While a line runs the stack is exactly its frames, one above the other:
   each frame's locals and then as many temporaries as the verifier computed
   for the place it is at; the callee of a waiting frame starts where the
   result of the call will be on top. *)
StackDiscipline ==
  running =>
    \A k \in 0 .. frame_count - 1 :
      /\ frames[k].instruction_pointer
           \in 0 .. Len(FrameFunction(k).instructions)
      /\ FrameHeight(k) >= 0
      /\ frames[k].base_pointer + FrameFunction(k).local_count + FrameHeight(k)
           = IF k = frame_count - 1 THEN stack_count
                                    ELSE frames[k + 1].base_pointer

(* No PANIC that blames the machine's own bookkeeping (stack underflow, an
   index out of bounds, a function without a return) is ever reached by
   verified bytecode: it stops a program only for what the program did, or
   for a capacity. *)
NoInternalFault == panic \notin InternalFaults

(* A function can do nothing to its callers while it runs: a step taken in a
   frame leaves alone every slot below the callee it was called with, every
   other frame, and the free values of every closure that exists. *)
CallerSlotsKept ==
  [][running =>
       /\ \A k \in 0 .. Frame.base_pointer - 2 : stack'[k] = stack[k]
       /\ \A k \in 0 .. frame_count - 2 : frames'[k] = frames[k]
       /\ \A c \in 0 .. closure_count : closures'[c] = closures[c]]_vmVars

-----------------------------------------------------------------------------
(* What StackDiscipline needs to be inductive *)

RunningBytecode ==
  [instructions |-> closures[0].function.instructions,
   constants |-> constants, functions |-> functions]

(* Every closure was made from a function of the bytecode that runs now, with
   the free values that function reads. *)
LiveCodeVerified ==
  /\ \A c \in 1 .. closure_count :
       /\ \E k \in 1 .. Len(functions) :
            closures[c].function = functions[k]
       /\ FreeValuesNeeded(closures[c].function.instructions,
                           Len(closures[c].free_values))
  /\ running => /\ Verified(RunningBytecode)
                /\ closures[0].function.local_count = 0

(* The main closure is only ever in the main frame: no value points to it. *)
NotMain(v) == v.type = "CLOSURE" => v.data # 0
MainClosureHidden ==
  /\ \A k \in 0 .. MaxVmStackValues - 1 : NotMain(stack[k])
  /\ \A k \in 0 .. MaxVmGlobals - 1 : NotMain(globals[k])
  /\ \A c \in 0 .. MaxVmClosures :
       \A k \in 1 .. Len(closures[c].free_values) :
         NotMain(closures[c].free_values[k])
  /\ running => /\ frames[0].closure = 0
                /\ frames[0].base_pointer = 0
                /\ \A k \in 1 .. frame_count - 1 : frames[k].closure # 0

VerifiedInv == LiveCodeVerified /\ MainClosureHidden /\ StackDiscipline
===============================================================================
