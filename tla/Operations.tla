------------------------------ MODULE Operations ------------------------------
(***************************************************************************)
(* What the operators of Foo do to values in lib/compiler/vm.c, and the    *)
(* reasons for which its machine aborts.                                   *)
(***************************************************************************)
EXTENDS Bytecode

Truthy(v) == v.type # "NULL" /\ (v.type = "BOOL" => v.data = 1)

Arithmetic(op, l, r) ==
  CASE op = "ADD"      -> l + r
    [] op = "SUBTRACT" -> l - r
    [] op = "MULTIPLY" -> l * r
    [] op = "DIVIDE"   -> Quotient(l, r)

Compare(op, l, r) ==
  CASE op = "EQUAL"        -> l = r
    [] op = "NOT_EQUAL"    -> l # r
    [] op = "LESS_THAN"    -> l < r
    [] op = "GREATER_THAN" -> l > r

(* Mutant: the one overflow of a division is forgotten. *)
IntegerFaultDividing(op, l, r) ==
  IF op = "DIVIDE" THEN IF r = 0 THEN "division by zero" ELSE "none"
  ELSE IF op \in ArithmeticOps /\ Arithmetic(op, l, r) \notin MinInt .. MaxInt
    THEN "integer overflow" ELSE "none"

IntegerFault(op, l, r) ==
  IF op = "DIVIDE"
    THEN IF r = 0 THEN "division by zero"
         ELSE IF l = MinInt /\ r = -1 THEN "integer overflow" ELSE "none"
  ELSE IF op \in ArithmeticOps /\ Arithmetic(op, l, r) \notin MinInt .. MaxInt
    THEN "integer overflow" ELSE "none"

BinaryFault(op, left, right) ==
  IF left.type = "INT" /\ right.type = "INT"
    THEN IntegerFault(op, left.data, right.data)
  ELSE IF left.type # right.type THEN "type mismatch"
  ELSE IF left.type \in {"BOOL", "NULL"} /\ op \in {"EQUAL", "NOT_EQUAL"}
    THEN "none" ELSE "unsupported operator"

Binary(op, left, right) ==
  IF op \in ArithmeticOps
    THEN IntegerValue(Arithmetic(op, left.data, right.data))
    ELSE BooleanValue(Compare(op, left.data, right.data))

(* Faults only wrong bytecode can cause, faults of the Foo program, and
   capacities of the implementation. *)
InternalFaults ==
  {"stack underflow", "constant index", "global index", "local index",
   "free value index", "jump target", "not a compiled function", "frame base",
   "no return"}
ProgramFaults ==
  {"division by zero", "integer overflow", "type mismatch",
   "unsupported operator", "prefix operator", "not callable", "argument count"}
CapacityFaults ==
  {"stack capacity", "frame capacity", "closure capacity",
   "free value capacity"}
VmFaults == InternalFaults \union ProgramFaults \union CapacityFaults
===============================================================================
