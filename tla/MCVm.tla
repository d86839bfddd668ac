---------------------------------- MODULE MCVm ----------------------------------
(***************************************************************************)
(* The machine on hand-written lines of bytecode.  AnyBytecodes holds      *)
(* lines no compiler emits: indices out of bounds, takes from an empty     *)
(* stack, a function that runs off its end.  VerifiedBytecodes are the     *)
(* ones among them that pass the verifier.                                 *)
(***************************************************************************)
EXTENDS VmActivations

Op(op) == [op |-> op, operand |-> 0, operand2 |-> 0]
Op1(op, n) == [op |-> op, operand |-> n, operand2 |-> 0]
Op2(op, n, m) == [op |-> op, operand |-> n, operand2 |-> m]

One == Op1("CONSTANT", 0)

(* Function 1 takes its free value from its argument, function 2 calls itself
   without end, function 3 keeps its argument in a second local and returns
   from inside an operand, function 4 runs off its end. *)
MCFunctions == <<
  [instructions |-> <<Op1("GET_LOCAL", 0), Op1("GET_FREE", 0), Op("SUBTRACT"),
                      Op("RETURN_VALUE")>>,
   local_count |-> 1, parameter_count |-> 1],
  [instructions |-> <<Op("CURRENT_CLOSURE"), Op1("CALL", 0), Op("RETURN")>>,
   local_count |-> 0, parameter_count |-> 0],
  [instructions |-> <<Op1("GET_LOCAL", 0), Op1("SET_LOCAL", 1), Op("TRUE"),
                      Op1("GET_LOCAL", 1), Op1("JUMP_NOT_TRUTHY", 6),
                      Op("RETURN"), Op("RETURN_VALUE")>>,
   local_count |-> 2, parameter_count |-> 1],
  [instructions |-> <<Op1("SET_LOCAL", 2)>>,
   local_count |-> 1, parameter_count |-> 1]>>

MCConstants == <<
  [type |-> "INT", data |-> 1],
  [type |-> "COMPILED_FUNCTION", data |-> 1],
  [type |-> "COMPILED_FUNCTION", data |-> 2],
  [type |-> "COMPILED_FUNCTION", data |-> 3],
  [type |-> "COMPILED_FUNCTION", data |-> 4]>>

GoodLines == {
  <<One, Op("MINUS"), One, Op("SUBTRACT"), Op1("SET_GLOBAL", 0)>>,
  <<Op1("GET_GLOBAL", 0), One, Op("MINUS"), Op("DIVIDE"), Op("POP")>>,
  <<Op1("GET_GLOBAL", 0), Op("MINUS"), Op("POP")>>,
  <<Op1("GET_GLOBAL", 0), One, Op("ADD"), Op("RETURN_VALUE")>>,
  <<One, Op1("GET_GLOBAL", 0), Op("DIVIDE"), Op1("SET_GLOBAL", 0)>>,
  <<Op1("GET_GLOBAL", 0), Op("TRUE"), Op("EQUAL"), Op1("SET_GLOBAL", 0)>>,
  <<Op1("GET_GLOBAL", 0), Op1("JUMP_NOT_TRUTHY", 4), One, Op1("JUMP", 5),
    Op("NULL"), Op("POP")>>,
  <<One, Op2("CLOSURE", 1, 1), Op1("SET_GLOBAL", 0)>>,
  <<Op1("GET_GLOBAL", 0), One, Op1("CALL", 1), Op1("SET_GLOBAL", 0)>>,
  <<Op("NULL"), Op("NULL"), Op1("GET_GLOBAL", 0), One, Op1("CALL", 1),
    Op("EQUAL"), Op("EQUAL"), Op("POP")>>,
  <<One, One, One, One, Op2("CLOSURE", 3, 0), One, Op1("CALL", 1)>>,
  <<Op2("CLOSURE", 2, 0), Op1("CALL", 0), Op("POP")>>,
  <<Op2("CLOSURE", 3, 0), Op1("SET_GLOBAL", 0)>>,
  <<One, One, Op2("CLOSURE", 1, 2)>>,
  <<Op1("CONSTANT", 3), Op1("SET_GLOBAL", 0)>>,
  <<Op("FALSE"), Op("BANG"), Op("POP"), Op("RETURN")>>}

BadLines == {
  <<Op("POP")>>, <<One, Op("ADD")>>, <<Op("BANG")>>, <<Op1("CONSTANT", 5)>>,
  <<Op1("SET_GLOBAL", 1)>>,
  <<Op1("GET_LOCAL", 0)>>, <<One, Op1("SET_LOCAL", 2), Op1("GET_LOCAL", 0)>>,
  <<One, Op1("SET_LOCAL", 4)>>, <<Op1("GET_FREE", 0)>>, <<Op1("JUMP", 2)>>,
  <<One, Op1("JUMP", 0)>>, <<Op2("CLOSURE", 0, 0)>>, <<Op2("CLOSURE", 1, 1)>>,
  <<Op1("CALL", 0)>>,
  <<Op("CURRENT_CLOSURE"), Op1("CALL", 0)>>, <<Op("RETURN_VALUE")>>,
  <<Op2("CLOSURE", 4, 0), One, Op1("CALL", 1)>>,
  <<Op2("CLOSURE", 1, 0), One, Op1("CALL", 1)>>}

AnyBytecodes ==
  {[instructions |-> line, constants |-> MCConstants,
    functions |-> MCFunctions] : line \in GoodLines \union BadLines}

(* Without function 4, which no verifier passes. *)
VerifiedBytecodes ==
  {b \in {[instructions |-> line, constants |-> SubSeq(MCConstants, 1, 4),
           functions |-> SubSeq(MCFunctions, 1, 3)] :
             line \in GoodLines \union BadLines} : Verified(b)}

(* The verifier passes just the lines written to be good. *)
ASSUME VerifierAssumption ==
  {b.instructions : b \in VerifiedBytecodes} = GoodLines
===============================================================================
