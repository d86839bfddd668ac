------------------------------- MODULE Verifier -------------------------------
(***************************************************************************)
(* What the VM relies on the compiler for.  vm.c guards every stack, frame *)
(* and index access with a PANIC; bytecode that is Verified never reaches  *)
(* one of the guards that only wrong bytecode can trip (InternalFaults).   *)
(*                                                                         *)
(* Verified is a check on bytecode alone, made of conditions on one        *)
(* instruction and its successors at a time.  It is not part of the C      *)
(* code: it is the contract between compiler.c and vm.c.  CompiledMode     *)
(* checks that the compiler meets it, VmSafety that the machine needs      *)
(* nothing else.                                                           *)
(***************************************************************************)
EXTENDS Vm

(* How many values an instruction takes off the stack, and puts on it. *)
Taken(i) ==
  CASE i.op \in BinaryOps -> 2
    [] i.op = "CLOSURE"   -> i.operand2
    [] i.op = "CALL"      -> i.operand + 1
    [] i.op \in UnaryOps \union {"POP", "SET_GLOBAL", "SET_LOCAL",
                                 "JUMP_NOT_TRUTHY", "RETURN_VALUE"} -> 1
    [] OTHER -> 0

Given(i) ==
  IF i.op \in {"POP", "SET_GLOBAL", "SET_LOCAL"} \union JumpOps \union ReturnOps
    THEN 0 ELSE 1

(* The positions (from 1) the instruction at position k can pass control to,
   in its own function. *)
Successors(code, k) ==
  CASE code[k].op = "JUMP" -> {code[k].operand + 1}
    [] code[k].op = "JUMP_NOT_TRUTHY" -> {k + 1, code[k].operand + 1}
    [] code[k].op \in ReturnOps -> {}
    [] OTHER -> {k + 1}

HeightAfter(i, height) == height - Taken(i) + Given(i)

(* The height of the function's part of the stack above its locals before
   each position, -1 where control never comes.  Compiled jumps are forward,
   so one pass over the code finds it. *)
Unreached == -1
Heights(code) ==
  LET positions == 1 .. Len(code) + 1
      pass[k \in 0 .. Len(code)] ==
        IF k = 0 THEN [n \in positions |-> IF n = 1 THEN 0 ELSE Unreached]
        ELSE LET h == pass[k - 1] IN
             IF h[k] < 0 THEN h
             ELSE [n \in positions |->
                     IF n \in Successors(code, k) /\ h[n] < 0
                       THEN HeightAfter(code[k], h[k]) ELSE h[n]]
  IN pass[Len(code)]

(* Every instruction control comes to finds the values it takes, and all the
   ways to a position agree on the height there. *)
HeightsAgree(code) ==
  LET h == Heights(code) IN
  /\ h \in [1 .. Len(code) + 1 -> Int]
  /\ h[1] = 0
  /\ \A k \in 1 .. Len(code) :
       h[k] >= 0 =>
         /\ h[k] >= Taken(code[k])
         /\ \A next \in Successors(code, k) :
              /\ next \in 1 .. Len(code) + 1
              /\ h[next] = HeightAfter(code[k], h[k])

FreeValuesNeeded(code, count) ==
  \A k \in 1 .. Len(code) :
    code[k].op = "GET_FREE" => code[k].operand < count

IsFunctionConstant(b, index) ==
  index < Len(b.constants)
    /\ b.constants[index + 1].type = "COMPILED_FUNCTION"

FunctionConstant(b, index) == b.functions[b.constants[index + 1].data]

(* Every index an instruction carries is one its function, or the bytecode,
   has; and a closure is made with the free values its code reads. *)
OperandsValid(b, code, locals) ==
  \A k \in 1 .. Len(code) :
    LET i == code[k] IN
    /\ i.op = "CONSTANT" => i.operand < Len(b.constants)
    /\ i.op \in {"GET_GLOBAL", "SET_GLOBAL"} => i.operand < MaxVmGlobals
    /\ i.op \in {"GET_LOCAL", "SET_LOCAL"} => i.operand < locals
    /\ i.op = "CLOSURE" =>
         /\ IsFunctionConstant(b, i.operand)
         /\ FreeValuesNeeded(FunctionConstant(b, i.operand).instructions,
                             i.operand2)

VerifiedFunction(b, f) ==
  /\ HeightsAgree(f.instructions)
  /\ Heights(f.instructions)[Len(f.instructions) + 1] < 0
  /\ OperandsValid(b, f.instructions, f.local_count)

(* The main code has no locals, no free values and no closure of its own to
   call; it may run to its end. *)
VerifiedMain(b) ==
  /\ HeightsAgree(b.instructions)
  /\ OperandsValid(b, b.instructions, 0)
  /\ FreeValuesNeeded(b.instructions, 0)
  /\ \A k \in 1 .. Len(b.instructions) :
       b.instructions[k].op # "CURRENT_CLOSURE"

Verified(b) ==
  /\ VerifiedMain(b)
  /\ \A k \in 1 .. Len(b.functions) : VerifiedFunction(b, b.functions[k])
===============================================================================
