----------------------------- MODULE VmActivations -----------------------------
(***************************************************************************)
(* The one stack of vm.c, with its base pointers and its arrays that keep  *)
(* what earlier calls left in them, as separate activations.               *)
(***************************************************************************)
EXTENDS VmSafety

(* The slots from one up to, and without, another. *)
Slots(from, to) == [n \in 1 .. to - from |-> stack[from + n - 1]]

FirstOperand(k) == frames[k].base_pointer + FrameFunction(k).local_count

(* A waiting frame's operands end below the callee of the next one. *)
OperandsEnd(k) ==
  IF k = frame_count - 1 THEN stack_count ELSE frames[k + 1].base_pointer - 1

ActivationOf(k) ==
  [closure |-> frames[k].closure,
   code |-> FrameFunction(k).instructions,
   free_values |-> closures[frames[k].closure].free_values,
   next |-> frames[k].instruction_pointer + 1,
   locals |-> Slots(frames[k].base_pointer, FirstOperand(k)),
   operands |-> Slots(FirstOperand(k), OperandsEnd(k))]

Heap == [c \in 1 .. closure_count |-> closures[c]]
Calls == IF running THEN [k \in 1 .. frame_count |-> ActivationOf(k - 1)]
                    ELSE << >>

Machine == INSTANCE Activations WITH heap <- Heap, activations <- Calls

(* On verified bytecode the machine behaves as if every call had locals and
   operands of its own: what one call does to the shared stack, or leaves in it
   for the next one to be laid over, is never seen by another. *)
ImplementsActivations == Machine!MachineSpec

-----------------------------------------------------------------------------
(* What the refinement needs beside the stack discipline: every frame starts
   above the locals of all the frames below it, with room for its callee. *)
FramesApart ==
  running => \A j, k \in 0 .. frame_count - 1 :
               j < k => FirstOperand(j) < frames[k].base_pointer
===============================================================================
