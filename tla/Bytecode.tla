------------------------------- MODULE Bytecode -------------------------------
(***************************************************************************)
(* Values, instructions and compiled functions (lib/compiler/bytecode.c).  *)
(* A value is its type and a number: the integer, 0 or 1 for a boolean,    *)
(* the position of a compiled function, the number of a closure.           *)
(***************************************************************************)
EXTENDS Int64, Sequences

CONSTANT MaxFreeValues  \* MAX_FREE_VALUES

ValueTypes == {"NULL", "INT", "BOOL", "COMPILED_FUNCTION", "CLOSURE"}
Values == [type : ValueTypes, data : Int]

Null == [type |-> "NULL", data |-> 0]
IntegerValue(n) == [type |-> "INT", data |-> n]
BooleanValue(b) == [type |-> "BOOL", data |-> IF b THEN 1 ELSE 0]
ClosureValue(k) == [type |-> "CLOSURE", data |-> k]

ArithmeticOps == {"ADD", "SUBTRACT", "MULTIPLY", "DIVIDE"}
ComparisonOps == {"EQUAL", "NOT_EQUAL", "LESS_THAN", "GREATER_THAN"}
BinaryOps == ArithmeticOps \union ComparisonOps
UnaryOps == {"BANG", "MINUS"}
JumpOps == {"JUMP", "JUMP_NOT_TRUTHY"}
LoadOps == {"CONSTANT", "NULL", "TRUE", "FALSE", "GET_GLOBAL", "GET_LOCAL",
            "GET_FREE", "CURRENT_CLOSURE"}
ReturnOps == {"RETURN_VALUE", "RETURN"}
OpCodes == BinaryOps \union UnaryOps \union JumpOps \union LoadOps
             \union ReturnOps
             \union {"POP", "SET_GLOBAL", "SET_LOCAL", "CLOSURE", "CALL"}

Instructions == [op : OpCodes, operand : Nat, operand2 : Nat]

CompiledFunctions ==
  [instructions : Seq(Instructions), local_count : Nat, parameter_count : Nat]

(* What compiler_compile returns.  A constant is an integer of 64 bits or a
   compiled function. *)
IsBytecode(b) ==
  /\ b.instructions \in Seq(Instructions)
  /\ b.functions \in Seq(CompiledFunctions)
  /\ b.constants \in Seq(Values)
  /\ \A i \in 1 .. Len(b.constants) :
       \/ /\ b.constants[i].type = "INT"
          /\ b.constants[i].data \in MinInt .. MaxInt
       \/ /\ b.constants[i].type = "COMPILED_FUNCTION"
          /\ b.constants[i].data \in 1 .. Len(b.functions)
===============================================================================
