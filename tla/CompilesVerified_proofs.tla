------------------------ MODULE CompilesVerified_proofs ------------------------
(***************************************************************************)
(* Theorems about what the compiler hands to the virtual machine, for any  *)
(* syntax trees, any lines and any capacities: on every path through the   *)
(* compiled code the stack has the same height at the same instruction,    *)
(* every instruction finds the values it takes and every function returns. *)
(***************************************************************************)
EXTENDS CompiledMode_proofs

-----------------------------------------------------------------------------
(* The heights the verifier finds *)

Positions(code) == 1 .. Len(code) + 1

(* The heights known when k instructions have been gone through, from those
   known one instruction before. *)
GoneThrough(code, k, h) ==
  IF h[k] < 0 THEN h
  ELSE [n \in Positions(code) |->
          IF n \in Successors(code, k) /\ h[n] < 0
            THEN HeightAfter(code[k], h[k]) ELSE h[n]]

Passes(code, f) ==
  f = [k \in 0 .. Len(code) |->
         IF k = 0 THEN [n \in Positions(code) |-> IF n = 1 THEN 0 ELSE Unreached]
         ELSE GoneThrough(code, k, f[k - 1])]

(* There is no more than one such function. *)
LEMMA PassesUnique ==
  ASSUME NEW code, Len(code) \in Nat, NEW f, Passes(code, f), NEW g, Passes(code, g)
  PROVE  f = g
<1> DEFINE T == {k \in 0 .. Len(code) : f[k] # g[k]}
           start == [n \in Positions(code) |-> IF n = 1 THEN 0 ELSE Unreached]
<1> HIDE DEF start
<1>1. /\ f = [k \in 0 .. Len(code) |-> f[k]]
      /\ g = [k \in 0 .. Len(code) |-> g[k]]
      /\ \A k \in 0 .. Len(code) :
           /\ f[k] = IF k = 0 THEN start ELSE GoneThrough(code, k, f[k - 1])
           /\ g[k] = IF k = 0 THEN start ELSE GoneThrough(code, k, g[k - 1])
  BY DEF Passes, start
<1>2. T = {}
  <2> SUFFICES ASSUME T # {} PROVE FALSE
    OBVIOUS
  <2>1. T \in SUBSET Nat
    OBVIOUS
  <2>2. PICK n \in T : \A m \in T : n <= m
    BY <2>1, LeastOf, Zenon
  <2>3. n # 0
    BY <1>1, <2>2
  <2>4. n - 1 \in 0 .. Len(code) /\ n - 1 \notin T
    BY <2>2, <2>3
  <2>5. f[n - 1] = g[n - 1]
    BY <2>4
  <2> QED
    BY <1>1, <2>2, <2>3, <2>5, ZenonT(30)
<1>3. \A k \in 0 .. Len(code) : f[k] = g[k]
  BY <1>2
<1> HIDE DEF T
<1> QED
  BY <1>1, <1>3

(* Heights that suit every instruction of code whose jumps go forward. *)
Consistent(code, h) ==
  /\ h \in [Positions(code) -> Nat]
  /\ h[1] = 0
  /\ \A k \in 1 .. Len(code) :
       /\ h[k] >= Taken(code[k])
       /\ \A next \in Successors(code, k) :
            /\ next \in k + 1 .. Len(code) + 1
            /\ h[next] = HeightAfter(code[k], h[k])

(* Heights p found in k instructions are those of h, and go on from them. *)
Found(code, h, k, p) ==
  /\ p \in [Positions(code) -> Int]
  /\ p[1] = 0
  /\ \A n \in Positions(code) :
       /\ p[n] = Unreached \/ p[n] = h[n]
       /\ p[n] >= 0 => n = 1 \/ \E m \in 1 .. Len(code) : n \in Successors(code, m)
  /\ \A m \in 1 .. k :
       p[m] >= 0 => \A next \in Successors(code, m) : p[next] >= 0

(* One more instruction. *)
LEMMA FoundNext ==
  ASSUME NEW code, Len(code) \in Nat, NEW h, Consistent(code, h),
         NEW k \in 1 .. Len(code), NEW p, Found(code, h, k - 1, p)
  PROVE  Found(code, h, k, GoneThrough(code, k, p))
<1> DEFINE q == GoneThrough(code, k, p)
<1>0. /\ h \in [Positions(code) -> Nat]
      /\ \A next \in Successors(code, k) :
           /\ next \in k + 1 .. Len(code) + 1
           /\ h[next] = HeightAfter(code[k], h[k])
      /\ \A m \in 1 .. Len(code) : \A next \in Successors(code, m) :
           next \in Positions(code)
  BY DEF Consistent, Positions
<1>1. /\ p \in [Positions(code) -> Int]
      /\ p[1] = 0
      /\ \A n \in Positions(code) :
           /\ p[n] = Unreached \/ p[n] = h[n]
           /\ p[n] >= 0 => n = 1 \/ \E m \in 1 .. Len(code) : n \in Successors(code, m)
      /\ \A m \in 1 .. k - 1 :
           p[m] >= 0 => \A next \in Successors(code, m) : p[next] >= 0
  BY DEF Found
<1>2. CASE p[k] < 0
  <2>1. q = p
    BY <1>2 DEF GoneThrough
  <2>2. ASSUME NEW m \in 1 .. k, p[m] >= 0
        PROVE  \A next \in Successors(code, m) : p[next] >= 0
    <3>1. m \in 1 .. k - 1
      <4>1. k \in Positions(code)
        BY DEF Positions
      <4>2. p[k] \in Int
        BY <1>1, <4>1
      <4>3. m # k
        BY <1>2, <2>2, <4>2
      <4> QED
        BY <4>3
    <3> QED
      BY <1>1, <2>2, <3>1
  <2> HIDE DEF q
  <2> QED
    BY <1>1, <2>1, <2>2 DEF Found, q
<1>3. CASE ~(p[k] < 0)
  <2>1. k \in Positions(code) /\ p[k] \in Int /\ h[k] \in Nat /\ p[k] = h[k]
    <3>1. k \in Positions(code)
      BY DEF Positions
    <3> QED
      BY <1>0, <1>1, <1>3, <3>1 DEF Unreached
  <2>2. q = [n \in Positions(code) |->
              IF n \in Successors(code, k) /\ p[n] < 0 THEN h[n] ELSE p[n]]
    BY <1>0, <1>3, <2>1 DEF GoneThrough
  <2> HIDE DEF q
  <2>3. \A n \in Positions(code) :
          q[n] = IF n \in Successors(code, k) /\ p[n] < 0 THEN h[n] ELSE p[n]
    BY <2>2
  <2>4. q \in [Positions(code) -> Int]
    BY <1>0, <1>1, <2>2
  <2>5. \A n \in Positions(code) : p[n] >= 0 => q[n] = p[n]
    BY <1>1, <2>3
  <2>6. q[1] = 0
    <3>1. 1 \in Positions(code)
      BY DEF Positions
    <3> QED
      BY <1>1, <2>5, <3>1
  <2>7. ASSUME NEW n \in Positions(code)
        PROVE  /\ q[n] = Unreached \/ q[n] = h[n]
               /\ q[n] >= 0 => n = 1 \/ \E m \in 1 .. Len(code) : n \in Successors(code, m)
    BY <1>1, <2>3
  <2>8. \A n \in 1 .. k : q[n] = p[n]
    <3>1. \A n \in 1 .. k : n \in Positions(code) /\ n \notin Successors(code, k)
      BY <1>0 DEF Positions
    <3> QED
      BY <2>3, <3>1
  <2>9. ASSUME NEW m \in 1 .. k, q[m] >= 0, NEW next \in Successors(code, m)
        PROVE  q[next] >= 0
    <3>1. next \in Positions(code)
      BY <1>0, <2>9
    <3>2. CASE m = k
      BY <1>0, <1>1, <2>3, <3>1, <3>2
    <3>3. CASE m # k
      <4>1. m \in 1 .. k - 1 /\ p[m] >= 0
        BY <2>8, <2>9, <3>3
      <4> QED
        BY <1>1, <2>5, <2>9, <3>1, <4>1
    <3> QED
      BY <3>2, <3>3
  <2> QED
    BY <2>4, <2>6, <2>7, <2>9 DEF Found, q
<1> QED
  BY <1>2, <1>3

(* The function exists, and all it finds are heights of h. *)
LEMMA PassesExist ==
  ASSUME NEW code, Len(code) \in Nat, NEW h, Consistent(code, h)
  PROVE  \E f : Passes(code, f) /\ Found(code, h, Len(code), f[Len(code)])
<1> DEFINE start == [n \in Positions(code) |-> IF n = 1 THEN 0 ELSE Unreached]
           first(n, f) ==
             /\ f = [k \in 0 .. n |->
                      IF k = 0 THEN start ELSE GoneThrough(code, k, f[k - 1])]
             /\ Found(code, h, n, f[n])
           has(n) == \E f : first(n, f)
           T == {n \in 0 .. Len(code) : ~has(n)}
<1>1. Found(code, h, 0, start)
  BY DEF Found, Positions, Unreached, Consistent
<1> HIDE DEF start
<1>2. T = {}
  <2> SUFFICES ASSUME T # {} PROVE FALSE
    OBVIOUS
  <2>1. T \in SUBSET Nat
    OBVIOUS
  <2>2. PICK n \in T : \A m \in T : n <= m
    BY <2>1, LeastOf, Zenon
  <2>3. CASE n = 0
    <3> DEFINE f == [k \in 0 .. 0 |-> start]
    <3>1. f = [k \in 0 .. 0 |-> IF k = 0 THEN start ELSE GoneThrough(code, k, f[k - 1])]
      OBVIOUS
    <3>2. f[0] = start
      OBVIOUS
    <3> HIDE DEF f
    <3>3. first(0, f)
      BY <1>1, <3>1, <3>2
    <3> HIDE DEF first
    <3> QED
      BY <2>2, <2>3, <3>3
  <2>4. CASE n # 0
    <3>1. n \in 1 .. Len(code) /\ n - 1 \in 0 .. Len(code) /\ n - 1 \notin T
      <4> HIDE DEF has
      <4>1. n \in 1 .. Len(code)
        BY <2>2, <2>4
      <4> HIDE DEF T
      <4> QED
        BY <2>2, <4>1
    <3>2. PICK f : first(n - 1, f)
      <4> HIDE DEF first
      <4> QED
        BY <3>1
    <3> DEFINE g == [k \in 0 .. n |-> IF k = n THEN GoneThrough(code, n, f[n - 1])
                                              ELSE f[k]]
    <3>3. \A k \in 0 .. n - 1 :
            f[k] = IF k = 0 THEN start ELSE GoneThrough(code, k, f[k - 1])
      BY <3>2, Zenon
    <3>4. Found(code, h, n, GoneThrough(code, n, f[n - 1]))
      BY <3>1, <3>2, FoundNext
    <3>5. g[n] = GoneThrough(code, n, f[n - 1])
      BY <3>1
    <3>6. \A k \in 0 .. n :
            g[k] = IF k = 0 THEN start ELSE GoneThrough(code, k, g[k - 1])
      BY <3>1, <3>3
    <3>7. g = [k \in 0 .. n |-> g[k]]
      OBVIOUS
    <3> HIDE DEF g
    <3>8. first(n, g)
      BY <3>4, <3>5, <3>6, <3>7
    <3> HIDE DEF first
    <3> QED
      BY <2>2, <3>8
  <2> QED
    BY <2>3, <2>4
<1>3. has(Len(code))
  BY <1>2
<1> QED
  BY <1>3 DEF Passes, start

(* Code that has heights consistent from one instruction to the next passes the
   verifier's check of its stack, and if no instruction leads to its end, the
   verifier finds that control never comes there. *)
LEMMA ConsistentAgrees ==
  ASSUME NEW code, Len(code) \in Nat, NEW h, Consistent(code, h)
  PROVE  /\ HeightsAgree(code)
         /\ /\ Len(code) > 0
            /\ \A k \in 1 .. Len(code) : Len(code) + 1 \notin Successors(code, k)
            => Heights(code)[Len(code) + 1] < 0
<1>1. PICK f : Passes(code, f) /\ Found(code, h, Len(code), f[Len(code)])
  BY PassesExist
<1>2. \A g : Passes(code, g) => g = f
  BY <1>1, PassesUnique
<1>3. (CHOOSE g : Passes(code, g)) = f
  BY <1>1, <1>2, Zenon
<1>4. Heights(code) = (CHOOSE g : Passes(code, g))[Len(code)]
  BY DEF Heights, Passes, Positions, GoneThrough
<1> DEFINE p == f[Len(code)]
<1>5. Heights(code) = p
  BY <1>3, <1>4
<1>6. Found(code, h, Len(code), p)
  BY <1>1
<1> HIDE DEF p
<1>7. ASSUME NEW k \in 1 .. Len(code), p[k] >= 0
      PROVE  /\ p[k] >= Taken(code[k])
             /\ \A next \in Successors(code, k) :
                  /\ next \in 1 .. Len(code) + 1
                  /\ p[next] = HeightAfter(code[k], p[k])
  <2>1. k \in Positions(code) /\ p[k] = h[k]
    <3>1. k \in Positions(code)
      BY DEF Positions
    <3> QED
      BY <1>6, <1>7, <3>1 DEF Found, Unreached
  <2>2. p[k] >= Taken(code[k])
    BY <2>1 DEF Consistent
  <2>3. ASSUME NEW next \in Successors(code, k)
        PROVE  /\ next \in 1 .. Len(code) + 1
               /\ p[next] = HeightAfter(code[k], p[k])
    <3>1. next \in k + 1 .. Len(code) + 1 /\ h[next] = HeightAfter(code[k], h[k])
      BY <2>3 DEF Consistent
    <3>2. next \in Positions(code)
      BY <3>1 DEF Positions
    <3>3. p[next] >= 0
      BY <1>6, <1>7, <2>3 DEF Found
    <3>4. p[next] = h[next]
      BY <1>6, <3>2, <3>3 DEF Found, Unreached
    <3> QED
      BY <2>1, <3>1, <3>2, <3>4 DEF Positions
  <2> QED
    BY <2>2, <2>3
<1>8. HeightsAgree(code)
  <2>1. p \in [1 .. Len(code) + 1 -> Int] /\ p[1] = 0
    BY <1>6 DEF Found, Positions
  <2> QED
    BY <1>5, <1>7, <2>1 DEF HeightsAgree
<1>9. ASSUME Len(code) > 0,
             \A k \in 1 .. Len(code) : Len(code) + 1 \notin Successors(code, k)
      PROVE  p[Len(code) + 1] < 0
  <2>1. Len(code) + 1 \in Positions(code) /\ Len(code) + 1 # 1
    BY <1>9 DEF Positions
  <2>2. p[Len(code) + 1] \in Int /\ ~(p[Len(code) + 1] >= 0)
    BY <1>6, <1>9, <2>1 DEF Found
  <2> QED
    BY <2>2
<1> QED
  BY <1>5, <1>8, <1>9

-----------------------------------------------------------------------------
(* Code that is still being compiled *)

(* What an instruction takes is never less than nothing. *)
LEMMA TakenIs ==
  ASSUME NEW i \in Instructions
  PROVE  /\ i.op \in OpCodes
         /\ Taken(i) \in Nat
         /\ Given(i) \in {0, 1}
         /\ \A n \in Nat : n >= Taken(i) => HeightAfter(i, n) \in Nat
         /\ \A n : HeightAfter(i, n) = n - Taken(i) + Given(i)
<1>1. i.op \in OpCodes /\ i.operand \in Nat /\ i.operand2 \in Nat
  BY DEF Instructions
<1>2. Taken(i) \in Nat
  BY <1>1 DEF Taken
<1>3. Given(i) \in {0, 1}
  BY DEF Given
<1> QED
  BY <1>1, <1>2, <1>3 DEF HeightAfter

(* What the opcodes take and give that the compiler handles one by one. *)
LEMMA TakenBy ==
  ASSUME NEW i
  PROVE  /\ i.op \in {"POP", "SET_GLOBAL", "SET_LOCAL", "JUMP_NOT_TRUTHY",
                      "RETURN_VALUE"} => Taken(i) = 1 /\ Given(i) = 0
         /\ i.op \in {"JUMP", "RETURN"} => Taken(i) = 0 /\ Given(i) = 0
         /\ i.op \in LoadOps => Taken(i) = 0 /\ Given(i) = 1
         /\ i.op \in UnaryOps => Taken(i) = 1 /\ Given(i) = 1
         /\ i.op \in BinaryOps => Taken(i) = 2 /\ Given(i) = 1
         /\ i.op = "CALL" => Taken(i) = i.operand + 1 /\ Given(i) = 1
         /\ i.op = "CLOSURE" => Taken(i) = i.operand2 /\ Given(i) = 1
<1>1. Given(i) = IF i.op \in {"POP", "SET_GLOBAL", "SET_LOCAL", "JUMP",
                              "JUMP_NOT_TRUTHY", "RETURN_VALUE", "RETURN"}
                   THEN 0 ELSE 1
  BY DEF Given, JumpOps, ReturnOps
<1>2. CASE i.op \in {"POP", "SET_GLOBAL", "SET_LOCAL", "JUMP_NOT_TRUTHY", "RETURN_VALUE",
                     "JUMP", "RETURN", "CALL", "CLOSURE"}
  BY <1>1, <1>2 DEF Taken, BinaryOps, UnaryOps, ArithmeticOps, ComparisonOps, LoadOps
<1>3. CASE i.op \in LoadOps
  BY <1>1, <1>3 DEF Taken, BinaryOps, UnaryOps, ArithmeticOps, ComparisonOps, LoadOps
<1>4. CASE i.op \in UnaryOps
  BY <1>1, <1>4 DEF Taken, BinaryOps, UnaryOps, ArithmeticOps, ComparisonOps, LoadOps
<1>5. CASE i.op \in BinaryOps
  BY <1>1, <1>5 DEF Taken, BinaryOps, UnaryOps, ArithmeticOps, ComparisonOps, LoadOps
<1> QED
  BY <1>2, <1>3, <1>4, <1>5

(* Heights that suit every instruction of code the compiler has emitted so far.
   The jumps at positions W still wait for their targets. *)
Fit(code, h, W) ==
  /\ h \in [Positions(code) -> Nat]
  /\ h[1] = 0
  /\ \A k \in 1 .. Len(code) :
       /\ h[k] >= Taken(code[k])
       /\ code[k].op \notin {"JUMP"} \union ReturnOps =>
            h[k + 1] = HeightAfter(code[k], h[k])
       /\ code[k].op \in JumpOps /\ k \notin W =>
            /\ code[k].operand \in k .. Len(code)
            /\ h[code[k].operand + 1] = HeightAfter(code[k], h[k])

(* Some jump goes to the end of the code so far. *)
TargetsEnd(code, W) ==
  \E k \in 1 .. Len(code) :
    code[k].op \in JumpOps /\ k \notin W /\ code[k].operand = Len(code)

(* The height at the end of the code so far. *)
Top(code, h) == h[Len(code) + 1]

(* Code in which no jump waits is code the verifier accepts. *)
LEMMA FitConsistent ==
  ASSUME NEW code \in Seq(Instructions), NEW h, Fit(code, h, {})
  PROVE  /\ Consistent(code, h)
         /\ /\ Len(code) > 0
            /\ code[Len(code)].op \in ReturnOps
            /\ ~TargetsEnd(code, {})
            => \A k \in 1 .. Len(code) : Len(code) + 1 \notin Successors(code, k)
<1>1. Len(code) \in Nat /\ \A k \in 1 .. Len(code) : code[k] \in Instructions
  OBVIOUS
<1>2. ASSUME NEW k \in 1 .. Len(code), NEW next \in Successors(code, k)
      PROVE  /\ next \in k + 1 .. Len(code) + 1
             /\ h[next] = HeightAfter(code[k], h[k])
             /\ \/ next = k + 1 /\ code[k].op \notin ReturnOps
                \/ next = code[k].operand + 1 /\ code[k].op \in JumpOps
  <2>1. /\ code[k].op \notin {"JUMP"} \union ReturnOps =>
             h[k + 1] = HeightAfter(code[k], h[k])
        /\ code[k].op \in JumpOps =>
             /\ code[k].operand \in k .. Len(code)
             /\ h[code[k].operand + 1] = HeightAfter(code[k], h[k])
    BY DEF Fit
  <2>2. code[k].operand \in Nat
    BY <1>1 DEF Instructions
  <2>3. CASE code[k].op = "JUMP"
    <3>1. next = code[k].operand + 1
      BY <1>2, <2>3 DEF Successors
    <3> QED
      BY <2>1, <2>2, <2>3, <3>1 DEF JumpOps
  <2>4. CASE code[k].op = "JUMP_NOT_TRUTHY"
    <3>1. next = code[k].operand + 1 \/ next = k + 1
      BY <1>2, <2>4 DEF Successors
    <3> QED
      BY <2>1, <2>2, <2>4, <3>1 DEF JumpOps, ReturnOps
  <2>5. CASE code[k].op \in ReturnOps
    BY <1>2, <2>5 DEF Successors, ReturnOps
  <2>6. CASE code[k].op \notin {"JUMP", "JUMP_NOT_TRUTHY"} \union ReturnOps
    <3>1. next = k + 1
      BY <1>2, <2>6 DEF Successors
    <3> QED
      BY <2>1, <2>6, <3>1
  <2> QED
    BY <2>3, <2>4, <2>5, <2>6
<1>3. Consistent(code, h)
  BY <1>2 DEF Consistent, Fit
<1>4. ASSUME Len(code) > 0, code[Len(code)].op \in ReturnOps, ~TargetsEnd(code, {}),
             NEW k \in 1 .. Len(code), Len(code) + 1 \in Successors(code, k)
      PROVE  FALSE
  <2>1. CASE Len(code) + 1 = k + 1 /\ code[k].op \notin ReturnOps
    BY <1>1, <1>4, <2>1
  <2>2. CASE Len(code) + 1 = code[k].operand + 1 /\ code[k].op \in JumpOps
    <3>1. code[k].operand = Len(code)
      <4>1. code[k].operand \in Nat
        BY <1>1 DEF Instructions
      <4> QED
        BY <1>1, <2>2, <4>1
    <3> QED
      BY <1>4, <2>2, <3>1 DEF TargetsEnd
  <2> QED
    BY <1>2, <1>4, <2>1, <2>2
<1> QED
  BY <1>3, <1>4

(* What code is made of. *)
LEMMA CodeIs ==
  ASSUME NEW code \in Seq(Instructions)
  PROVE  /\ Len(code) \in Nat
         /\ \A k \in 1 .. Len(code) : code[k] \in Instructions /\ code[k].operand \in Nat
<1>1. \A k \in 1 .. Len(code) : code[k] \in Instructions
  OBVIOUS
<1>2. \A i \in Instructions : i.operand \in Nat
  BY DEF Instructions
<1> QED
  BY <1>1, <1>2

(* Where fewer jumps have their targets, less has to suit. *)
LEMMA FitLess ==
  ASSUME NEW code, NEW h, NEW V, NEW W, V \subseteq W, Fit(code, h, V)
  PROVE  Fit(code, h, W)
BY DEF Fit

(* More of the jumps of code wait. *)
LEMMA TargetsLess ==
  ASSUME NEW code, NEW V, NEW W, V \subseteq W, TargetsEnd(code, W)
  PROVE  TargetsEnd(code, V)
BY DEF TargetsEnd

(* One more instruction finds what it takes, and if it is a jump, waits. *)
LEMMA FitAppend ==
  ASSUME NEW code \in Seq(Instructions), NEW h, NEW V, Fit(code, h, V),
         NEW W, V \subseteq W,
         NEW i \in Instructions, Top(code, h) >= Taken(i),
         i.op \in JumpOps => Len(code) + 1 \in W,
         NEW z \in Nat,
         i.op \notin {"JUMP"} \union ReturnOps => z = HeightAfter(i, Top(code, h))
  PROVE  LET more == Append(code, i) IN
         /\ ~TargetsEnd(more, W)
         /\ \E g : /\ Fit(more, g, W)
                   /\ Top(more, g) = z
                   /\ \A k \in 1 .. Len(code) + 1 : g[k] = h[k]
<1> DEFINE more == Append(code, i)
           n == Len(code) + 1
           g == [k \in 1 .. n + 1 |-> IF k = n + 1 THEN z ELSE h[k]]
<1>1. /\ Len(code) \in Nat
      /\ n \in Nat \ {0}
      /\ Len(more) = n
      /\ more[n] = i
      /\ \A k \in 1 .. Len(code) : more[k] = code[k]
      /\ \A k \in 1 .. Len(code) : code[k].operand \in Nat
  <2>1. \A k \in 1 .. Len(code) : code[k].operand \in Nat
    BY CodeIs
  <2> QED
    BY <2>1
<1>2. /\ h \in [1 .. n -> Nat]
      /\ h[1] = 0
      /\ h[n] >= Taken(i)
      /\ i.op \notin {"JUMP"} \union ReturnOps => z = HeightAfter(i, h[n])
  BY DEF Fit, Positions, Top
<1>3. \A k \in 1 .. Len(code) :
        /\ h[k] >= Taken(code[k])
        /\ code[k].op \notin {"JUMP"} \union ReturnOps =>
             h[k + 1] = HeightAfter(code[k], h[k])
        /\ code[k].op \in JumpOps /\ k \notin W =>
             /\ code[k].operand \in k .. Len(code)
             /\ h[code[k].operand + 1] = HeightAfter(code[k], h[k])
  BY DEF Fit
<1>4. /\ g \in [1 .. n + 1 -> Nat]
      /\ g[n + 1] = z
      /\ \A k \in 1 .. n : g[k] = h[k]
  BY <1>1, <1>2
<1> HIDE DEF g, more
<1>5. ASSUME NEW k \in 1 .. n
      PROVE  /\ g[k] >= Taken(more[k])
             /\ more[k].op \notin {"JUMP"} \union ReturnOps =>
                  g[k + 1] = HeightAfter(more[k], g[k])
             /\ more[k].op \in JumpOps /\ k \notin W =>
                  /\ more[k].operand \in k .. n
                  /\ g[more[k].operand + 1] = HeightAfter(more[k], g[k])
  <2>1. CASE k = n
    <3>1. more[k] = i /\ g[k] = h[n] /\ g[k + 1] = z
      BY <1>1, <1>4, <2>1
    <3> QED
      BY <1>2, <2>1, <3>1
  <2>2. CASE k # n
    <3>1. k \in 1 .. Len(code)
      BY <1>1, <2>2
    <3>2. more[k] = code[k] /\ g[k] = h[k] /\ g[k + 1] = h[k + 1]
      BY <1>1, <1>4, <3>1
    <3>3. ASSUME code[k].op \in JumpOps, k \notin W
          PROVE  /\ code[k].operand \in k .. n
                 /\ g[code[k].operand + 1] = HeightAfter(code[k], h[k])
      <4>1. code[k].operand \in k .. Len(code)
        BY <1>3, <3>1, <3>3
      <4>2. code[k].operand \in k .. n /\ code[k].operand + 1 \in 1 .. n
        BY <1>1, <3>1, <4>1
      <4> QED
        BY <1>3, <1>4, <3>1, <3>3, <4>2
    <3> QED
      BY <1>3, <3>1, <3>2, <3>3
  <2> QED
    BY <2>1, <2>2
<1>6. Fit(more, g, W) /\ Top(more, g) = z
  <2>1. g[1] = 0
    BY <1>1, <1>2, <1>4
  <2> QED
    BY <1>1, <1>4, <1>5, <2>1 DEF Fit, Positions, Top
<1>7. ~TargetsEnd(more, W)
  <2> SUFFICES ASSUME NEW k \in 1 .. n, more[k].op \in JumpOps, k \notin W,
                      more[k].operand = n
               PROVE  FALSE
    BY <1>1 DEF TargetsEnd
  <2>1. k \in 1 .. Len(code)
    BY <1>1
  <2>2. code[k].operand \in k .. Len(code)
    BY <1>1, <1>3, <2>1
  <2> QED
    BY <1>1, <2>1, <2>2
<1> QED
  BY <1>4, <1>6, <1>7 DEF more

(* The last POP is taken back: what it would have popped stays. *)
LEMMA FitRemove ==
  ASSUME NEW code \in Seq(Instructions), NEW h, NEW W, Fit(code, h, W),
         Len(code) > 0, code[Len(code)].op = "POP", ~TargetsEnd(code, W),
         NEW less \in Seq(Instructions), Len(less) = Len(code) - 1,
         \A k \in 1 .. Len(less) : less[k] = code[k]
  PROVE  \E g : /\ Fit(less, g, W)
                /\ Top(less, g) = Top(code, h) + 1
                /\ \A k \in 1 .. Len(code) : g[k] = h[k]
<1> DEFINE n == Len(code)
           g == [k \in 1 .. n |-> h[k]]
<1>1. /\ n \in Nat \ {0}
      /\ Len(less) = n - 1
      /\ \A k \in 1 .. n : code[k] \in Instructions /\ code[k].operand \in Nat
  BY CodeIs
<1>2. /\ h \in [1 .. n + 1 -> Nat]
      /\ h[1] = 0
      /\ \A k \in 1 .. n :
           /\ h[k] >= Taken(code[k])
           /\ code[k].op \notin {"JUMP"} \union ReturnOps =>
                h[k + 1] = HeightAfter(code[k], h[k])
           /\ code[k].op \in JumpOps /\ k \notin W =>
                /\ code[k].operand \in k .. n
                /\ h[code[k].operand + 1] = HeightAfter(code[k], h[k])
  BY DEF Fit, Positions
<1>3. g \in [1 .. n -> Nat] /\ \A k \in 1 .. n : g[k] = h[k]
  BY <1>1, <1>2
<1> HIDE DEF g
<1>4. ASSUME NEW k \in 1 .. n - 1
      PROVE  /\ g[k] >= Taken(less[k])
             /\ less[k].op \notin {"JUMP"} \union ReturnOps =>
                  g[k + 1] = HeightAfter(less[k], g[k])
             /\ less[k].op \in JumpOps /\ k \notin W =>
                  /\ less[k].operand \in k .. n - 1
                  /\ g[less[k].operand + 1] = HeightAfter(less[k], g[k])
  <2>1. k \in 1 .. n /\ k + 1 \in 1 .. n /\ less[k] = code[k]
    BY <1>1
  <2>2. ASSUME code[k].op \in JumpOps, k \notin W
        PROVE  /\ code[k].operand \in k .. n - 1
               /\ g[code[k].operand + 1] = HeightAfter(code[k], h[k])
    <3>1. code[k].operand \in k .. n /\ code[k].operand # n
      BY <1>2, <2>1, <2>2 DEF TargetsEnd
    <3>2. code[k].operand \in k .. n - 1 /\ code[k].operand + 1 \in 1 .. n
      BY <1>1, <2>1, <3>1
    <3> QED
      BY <1>2, <1>3, <2>1, <2>2, <3>2
  <2> QED
    BY <1>2, <1>3, <2>1, <2>2
<1>5. Fit(less, g, W)
  <2>1. g[1] = 0 /\ Positions(less) = 1 .. n
    BY <1>1, <1>2, <1>3 DEF Positions
  <2> QED
    BY <1>1, <1>3, <1>4, <2>1 DEF Fit
<1>6. Top(less, g) = Top(code, h) + 1
  <2>1. h[n + 1] = h[n] - 1 /\ h[n] \in Nat
    <3>1. Taken(code[n]) = 1 /\ Given(code[n]) = 0
      BY TakenBy
    <3>2. n \in 1 .. n /\ n \in 1 .. n + 1
      BY <1>1
    <3>3. code[n].op \notin {"JUMP"} \union ReturnOps
      BY DEF ReturnOps
    <3>4. h[n + 1] = HeightAfter(code[n], h[n])
      BY <1>2, <3>2, <3>3
    <3>5. h[n] \in Nat
      BY <1>2, <3>2
    <3> QED
      BY <3>1, <3>4, <3>5 DEF HeightAfter
  <2>2. Top(less, g) = h[n] /\ Top(code, h) = h[n + 1]
    BY <1>1, <1>3 DEF Top
  <2> QED
    BY <2>1, <2>2
<1> QED
  BY <1>3, <1>5, <1>6

(* Nothing comes to the end of the code after a return: any height suits there. *)
LEMMA FitFree ==
  ASSUME NEW code \in Seq(Instructions), NEW h, NEW W, Fit(code, h, W),
         Len(code) > 0, code[Len(code)].op \in ReturnOps, ~TargetsEnd(code, W),
         NEW z \in Nat
  PROVE  \E g : /\ Fit(code, g, W)
                /\ Top(code, g) = z
                /\ \A k \in 1 .. Len(code) : g[k] = h[k]
<1> DEFINE n == Len(code)
           g == [k \in 1 .. n + 1 |-> IF k = n + 1 THEN z ELSE h[k]]
<1>1. /\ n \in Nat \ {0}
      /\ \A k \in 1 .. n : code[k] \in Instructions /\ code[k].operand \in Nat
  BY CodeIs
<1>2. /\ h \in [1 .. n + 1 -> Nat]
      /\ h[1] = 0
      /\ \A k \in 1 .. n :
           /\ h[k] >= Taken(code[k])
           /\ code[k].op \notin {"JUMP"} \union ReturnOps =>
                h[k + 1] = HeightAfter(code[k], h[k])
           /\ code[k].op \in JumpOps /\ k \notin W =>
                /\ code[k].operand \in k .. n
                /\ h[code[k].operand + 1] = HeightAfter(code[k], h[k])
  BY DEF Fit, Positions
<1>3. /\ g \in [1 .. n + 1 -> Nat]
      /\ \A k \in 1 .. n : g[k] = h[k]
      /\ g[n + 1] = z
  BY <1>1, <1>2
<1> HIDE DEF g
<1>4. ASSUME NEW k \in 1 .. n
      PROVE  /\ g[k] >= Taken(code[k])
             /\ code[k].op \notin {"JUMP"} \union ReturnOps =>
                  g[k + 1] = HeightAfter(code[k], g[k])
             /\ code[k].op \in JumpOps /\ k \notin W =>
                  /\ code[k].operand \in k .. n
                  /\ g[code[k].operand + 1] = HeightAfter(code[k], g[k])
  <2>1. g[k] = h[k]
    BY <1>3
  <2>2. code[k].op \notin {"JUMP"} \union ReturnOps => g[k + 1] = h[k + 1]
    <3>1. code[k].op \notin ReturnOps => k # n
      OBVIOUS
    <3> QED
      BY <1>1, <1>3, <3>1
  <2>3. ASSUME code[k].op \in JumpOps, k \notin W
        PROVE  /\ code[k].operand \in k .. n
               /\ g[code[k].operand + 1] = HeightAfter(code[k], h[k])
    <3>1. code[k].operand \in k .. n /\ code[k].operand # n
      BY <1>2, <2>3 DEF TargetsEnd
    <3>2. code[k].operand + 1 \in 1 .. n
      BY <1>1, <3>1
    <3> QED
      BY <1>2, <1>3, <2>3, <3>1, <3>2
  <2> QED
    BY <1>2, <2>1, <2>2, <2>3
<1>5. g[1] = 0
  BY <1>1, <1>2, <1>3
<1> QED
  BY <1>3, <1>4, <1>5 DEF Fit, Positions, Top

(* In new, the jump at position p of code goes to the end, where the heights agree. *)
Patched(code, h, new, p) ==
  /\ p \in 1 .. Len(code)
  /\ code[p].op \in JumpOps
  /\ Top(code, h) = HeightAfter(code[p], h[p])
  /\ Len(new) = Len(code)
  /\ \A k \in 1 .. Len(code) : k # p => new[k] = code[k]
  /\ new[p] = [code[p] EXCEPT !.operand = Len(code)]

(* A jump gets its target. *)
LEMMA FitPatch ==
  ASSUME NEW code \in Seq(Instructions), NEW h, NEW W, Fit(code, h, W),
         NEW new \in Seq(Instructions), NEW p, Patched(code, h, new, p),
         NEW V, W \subseteq V \union {p}
  PROVE  Fit(new, h, V)
<1>0. /\ p \in 1 .. Len(code)
      /\ code[p].op \in JumpOps
      /\ Top(code, h) = HeightAfter(code[p], h[p])
      /\ Len(new) = Len(code)
      /\ \A k \in 1 .. Len(code) : k # p => new[k] = code[k]
      /\ new[p] = [code[p] EXCEPT !.operand = Len(code)]
  BY DEF Patched
<1> DEFINE n == Len(code)
<1>1. /\ n \in Nat
      /\ p \in 1 .. n
      /\ \A k \in 1 .. n : code[k] \in Instructions /\ code[k].operand \in Nat
  BY <1>0, CodeIs
<1>2. /\ h \in [Positions(code) -> Nat]
      /\ h[1] = 0
      /\ \A k \in 1 .. n :
           /\ h[k] >= Taken(code[k])
           /\ code[k].op \notin {"JUMP"} \union ReturnOps =>
                h[k + 1] = HeightAfter(code[k], h[k])
           /\ code[k].op \in JumpOps /\ k \notin W =>
                /\ code[k].operand \in k .. n
                /\ h[code[k].operand + 1] = HeightAfter(code[k], h[k])
  BY DEF Fit
<1>3. new[p].op = code[p].op /\ new[p].operand = n
  <2>1. code[p] \in Instructions
    BY <1>1
  <2> QED
    BY <1>0, <2>1 DEF Instructions
<1>4. /\ Taken(new[p]) = Taken(code[p])
      /\ \A x : HeightAfter(new[p], x) = HeightAfter(code[p], x)
  <2>1. Taken(new[p]) = Taken(code[p]) /\ Given(new[p]) = Given(code[p])
    BY <1>0, <1>3, TakenBy DEF JumpOps
  <2> QED
    BY <2>1 DEF HeightAfter
<1>5. ASSUME NEW k \in 1 .. n
      PROVE  /\ h[k] >= Taken(new[k])
             /\ new[k].op \notin {"JUMP"} \union ReturnOps =>
                  h[k + 1] = HeightAfter(new[k], h[k])
             /\ new[k].op \in JumpOps /\ k \notin V =>
                  /\ new[k].operand \in k .. n
                  /\ h[new[k].operand + 1] = HeightAfter(new[k], h[k])
  <2>1. CASE k = p
    <3>1. n \in k .. n
      BY <1>1, <2>1
    <3>2. h[n + 1] = HeightAfter(code[p], h[p])
      BY <1>0 DEF Top
    <3>3. /\ h[p] >= Taken(code[p])
          /\ code[p].op \notin {"JUMP"} \union ReturnOps =>
               h[p + 1] = HeightAfter(code[p], h[p])
      BY <1>1, <1>2
    <3> HIDE DEF n
    <3> QED
      BY <1>3, <1>4, <2>1, <3>1, <3>2, <3>3, Zenon
  <2>2. CASE k # p
    <3>1. new[k] = code[k]
      BY <1>0, <2>2
    <3>2. k \notin V => k \notin W
      BY <2>2
    <3> QED
      BY <1>2, <3>1, <3>2
  <2> QED
    BY <2>1, <2>2
<1> QED
  BY <1>0, <1>2, <1>5 DEF Fit, Positions

(* A function's body has this: every path through it agrees on the stack, and none
   leads past its end. *)
Balanced(code) == HeightsAgree(code) /\ Heights(code)[Len(code) + 1] < 0

(* Code that ends with a return nothing jumps over is a function's body. *)
LEMMA ReturnBalances ==
  ASSUME NEW code \in Seq(Instructions), NEW h, Fit(code, h, {}),
         Len(code) > 0, code[Len(code)].op \in ReturnOps, ~TargetsEnd(code, {})
  PROVE  Balanced(code)
<1>1. Len(code) \in Nat /\ Consistent(code, h)
  BY FitConsistent
<1>2. \A k \in 1 .. Len(code) : Len(code) + 1 \notin Successors(code, k)
  BY FitConsistent
<1> QED
  BY <1>1, <1>2, ConsistentAgrees DEF Balanced

(* The value an expression statement would pop is returned instead. *)
LEMMA FitReturn ==
  ASSUME NEW code \in Seq(Instructions), NEW h, Fit(code, h, {}),
         Len(code) > 0, code[Len(code)].op = "POP", ~TargetsEnd(code, {}),
         NEW new \in Seq(Instructions), Len(new) = Len(code),
         \A k \in 1 .. Len(code) - 1 : new[k] = code[k],
         new[Len(code)] = [code[Len(code)] EXCEPT !.op = "RETURN_VALUE"]
  PROVE  Balanced(new)
<1> DEFINE n == Len(code)
<1>1. /\ n \in Nat \ {0}
      /\ n \in 1 .. n
      /\ \A k \in 1 .. n : code[k] \in Instructions /\ code[k].operand \in Nat
  BY CodeIs
<1>2. /\ h \in [Positions(code) -> Nat]
      /\ h[1] = 0
      /\ \A k \in 1 .. n :
           /\ h[k] >= Taken(code[k])
           /\ code[k].op \notin {"JUMP"} \union ReturnOps =>
                h[k + 1] = HeightAfter(code[k], h[k])
           /\ code[k].op \in JumpOps =>
                /\ code[k].operand \in k .. n
                /\ h[code[k].operand + 1] = HeightAfter(code[k], h[k])
  BY DEF Fit
<1>3. new[n].op = "RETURN_VALUE"
  <2>1. code[n] \in Instructions
    BY <1>1
  <2> QED
    BY <2>1 DEF Instructions
<1>4. Taken(new[n]) = 1 /\ Taken(code[n]) = 1
  BY <1>3, TakenBy
<1>5. \A k \in 1 .. n : k # n => new[k] = code[k]
  BY <1>1
<1>6. new[n].op \in ReturnOps /\ new[n].op \notin JumpOps
  BY <1>3 DEF ReturnOps, JumpOps
<1>7. ASSUME NEW k \in 1 .. n
      PROVE  /\ h[k] >= Taken(new[k])
             /\ new[k].op \notin {"JUMP"} \union ReturnOps =>
                  h[k + 1] = HeightAfter(new[k], h[k])
             /\ new[k].op \in JumpOps =>
                  /\ new[k].operand \in k .. n
                  /\ h[new[k].operand + 1] = HeightAfter(new[k], h[k])
  <2>1. CASE k = n
    <3>1. h[n] >= Taken(code[n])
      BY <1>1, <1>2
    <3> HIDE DEF n
    <3> QED
      BY <1>4, <1>6, <2>1, <3>1
  <2>2. CASE k # n
    <3>1. new[k] = code[k]
      BY <1>5, <2>2
    <3> QED
      BY <1>2, <3>1
  <2> QED
    BY <2>1, <2>2
<1>8. Fit(new, h, {})
  BY <1>2, <1>7 DEF Fit, Positions
<1>9. ~TargetsEnd(new, {})
  <2> SUFFICES ASSUME NEW k \in 1 .. n, new[k].op \in JumpOps, new[k].operand = n
               PROVE  FALSE
    BY DEF TargetsEnd
  <2>1. k # n
    BY <1>6
  <2>2. new[k] = code[k]
    BY <1>5, <2>1
  <2> QED
    BY <2>2 DEF TargetsEnd
<1> HIDE DEF n
<1> QED
  <2>1. Len(new) > 0 /\ new[Len(new)].op \in ReturnOps
    BY <1>6 DEF n
  <2> QED
    BY <1>8, <1>9, <2>1, ReturnBalances

(* Where a jump ends at the end of the code, the instruction before is not one that
   would be taken back or that returns. *)
EndsWell(code, W) ==
  TargetsEnd(code, W) => code[Len(code)].op \notin {"POP"} \union ReturnOps

(* g has the heights of h where code has jumps, and new has the same jumps there. *)
JumpsKept(code, h, new, g) ==
  /\ Len(new) \in Nat
  /\ \A k \in 1 .. Len(code) :
       code[k].op \in JumpOps =>
         k <= Len(new) /\ new[k].op = code[k].op /\ g[k] = h[k]

(* A function's body is compiled. *)
LEMMA BodyBalances ==
  ASSUME NEW c \in Compilers, ~Failed(c), NEW e \in Compilers, Body(c, e), NEW h,
         Fit(Emitted(c), h, {}), EndsWell(Emitted(c), {})
  PROVE  Balanced(Emitted(e))
<1> DEFINE code == Emitted(c)
           new == Emitted(e)
<1>1. code \in Seq(Instructions) /\ new \in Seq(Instructions)
  BY CurrentScope
<1>2. Len(code) \in Nat /\ Fit(code, h, {}) /\ EndsWell(code, {})
  BY <1>1
<1>3. \A op : LastIs(c, op) => Len(code) > 0 /\ code[Len(code)].op = op
  BY <1>1 DEF LastIs, Last
<1>4. CASE LastIs(c, "POP")
  <2>1. /\ Len(new) = Len(code)
        /\ \A k \in 1 .. Len(code) - 1 : new[k] = code[k]
        /\ new[Len(code)] = [code[Len(code)] EXCEPT !.op = "RETURN_VALUE"]
    <3>1. ~LastIs(c, "RETURN_VALUE") /\ ~LastIs(c, "RETURN")
      BY <1>4 DEF LastIs
    <3> QED
      BY <1>4, <3>1 DEF Body
  <2>2. Len(code) > 0 /\ code[Len(code)].op = "POP" /\ ~TargetsEnd(code, {})
    BY <1>2, <1>3, <1>4 DEF EndsWell
  <2> HIDE DEF code, new
  <2> QED
    BY <1>1, <1>2, <2>1, <2>2, FitReturn DEF new
<1>5. CASE LastIs(c, "RETURN_VALUE") \/ LastIs(c, "RETURN")
  <2>1. e = c
    <3>1. ~LastIs(c, "POP")
      BY <1>5 DEF LastIs
    <3> QED
      BY <1>5, <3>1 DEF Body
  <2>2. Len(code) > 0 /\ code[Len(code)].op \in ReturnOps
    BY <1>3, <1>5 DEF ReturnOps
  <2>3. ~TargetsEnd(code, {})
    BY <1>2, <2>2 DEF EndsWell
  <2> QED
    BY <1>1, <1>2, <2>1, <2>2, <2>3, ReturnBalances
<1>6. CASE ~LastIs(c, "POP") /\ ~LastIs(c, "RETURN_VALUE") /\ ~LastIs(c, "RETURN")
  <2> DEFINE i == Instr("RETURN", 0, 0)
  <2>1. new = Append(code, i)
    BY <1>6 DEF Body, Emits
  <2>2. i \in Instructions /\ i.op = "RETURN"
    BY DEF Instr, Instructions, OpCodes, ReturnOps
  <2>3. Taken(i) = 0 /\ i.op \in ReturnOps /\ i.op \notin JumpOps
    BY <2>2, TakenBy DEF ReturnOps, JumpOps
  <2>4. Top(code, h) \in Nat
    BY <1>2 DEF Top, Fit, Positions
  <2> HIDE DEF i, code, new
  <2>5. /\ ~TargetsEnd(Append(code, i), {})
        /\ \E g : Fit(Append(code, i), g, {})
    <3> DEFINE none == {}
    <3>1. PICK z \in Nat : TRUE
      OBVIOUS
    <3>2. Fit(code, h, none)
      BY <1>2
    <3>3. none \subseteq none
      OBVIOUS
    <3>4. Top(code, h) >= Taken(i)
      BY <2>3, <2>4
    <3>5. i.op \in JumpOps => Len(code) + 1 \in none
      BY <2>3
    <3>6. i.op \notin {"JUMP"} \union ReturnOps => z = HeightAfter(i, Top(code, h))
      BY <2>3
    <3> HIDE DEF none
    <3>7. LET more == Append(code, i) IN
          /\ ~TargetsEnd(more, none)
          /\ \E g : /\ Fit(more, g, none)
                    /\ Top(more, g) = z
                    /\ \A k \in 1 .. Len(code) + 1 : g[k] = h[k]
      BY <1>1, <2>2, <3>2, <3>3, <3>4, <3>5, <3>6, FitAppend, ZenonT(30)
    <3> QED
      BY <3>7 DEF none
  <2>6. Len(new) > 0 /\ new[Len(new)] = i
    BY <1>1, <2>1, <2>2
  <2> QED
    BY <1>1, <2>1, <2>3, <2>5, <2>6, ReturnBalances DEF new
<1> QED
  BY <1>4, <1>5, <1>6

(* Instruction i finds what it takes at the end of code, and if it is a jump,
   waits; z suits after it. *)
CanFollow(code, h, W, i, z) ==
  /\ Top(code, h) >= Taken(i)
  /\ i.op \in JumpOps => Len(code) + 1 \in W
  /\ z \in Nat
  /\ i.op \notin {"JUMP"} \union ReturnOps => z = HeightAfter(i, Top(code, h))

(* Another instruction in the current scope. *)
LEMMA EmitFits ==
  ASSUME NEW c \in Compilers, NEW d \in Compilers, NEW op, NEW operand \in Nat,
         NEW operand2 \in Nat, Emits(c, d, op, operand, operand2),
         NEW h, NEW V, Fit(Emitted(c), h, V), NEW W, V \subseteq W,
         NEW z, CanFollow(Emitted(c), h, W, Instr(op, operand, operand2), z)
  PROVE  /\ ~TargetsEnd(Emitted(d), W)
         /\ Len(Emitted(d)) = Len(Emitted(c)) + 1
         /\ Emitted(d)[Len(Emitted(c)) + 1] = Instr(op, operand, operand2)
         /\ \E g : /\ Fit(Emitted(d), g, W)
                   /\ Top(Emitted(d), g) = z
                   /\ g[Len(Emitted(c)) + 1] = Top(Emitted(c), h)
                   /\ JumpsKept(Emitted(c), h, Emitted(d), g)
<1> DEFINE code == Emitted(c)
           i == Instr(op, operand, operand2)
<1>1. /\ code \in Seq(Instructions)
      /\ Emitted(d) = Append(code, i)
      /\ op \in OpCodes
  BY CurrentScope DEF Emits
<1>2. i \in Instructions /\ i.op = op
  BY <1>1 DEF Instr, Instructions
<1>3. /\ Fit(code, h, V)
      /\ Top(code, h) >= Taken(i)
      /\ i.op \in JumpOps => Len(code) + 1 \in W
      /\ z \in Nat
      /\ i.op \notin {"JUMP"} \union ReturnOps => z = HeightAfter(i, Top(code, h))
  BY DEF CanFollow
<1> HIDE DEF code, i
<1>4. /\ ~TargetsEnd(Append(code, i), W)
      /\ \E g : /\ Fit(Append(code, i), g, W)
                /\ Top(Append(code, i), g) = z
                /\ \A k \in 1 .. Len(code) + 1 : g[k] = h[k]
  BY <1>1, <1>2, <1>3, FitAppend, ZenonT(30)
<1>5. PICK g : /\ Fit(Append(code, i), g, W)
               /\ Top(Append(code, i), g) = z
               /\ \A k \in 1 .. Len(code) + 1 : g[k] = h[k]
  BY <1>4
<1>6. /\ Len(code) \in Nat
      /\ Len(Append(code, i)) = Len(code) + 1
      /\ Append(code, i)[Len(code) + 1] = i
      /\ \A k \in 1 .. Len(code) : Append(code, i)[k] = code[k]
  BY <1>1, <1>2
<1>7. g[Len(code) + 1] = Top(code, h)
  BY <1>5, <1>6 DEF Top
<1>8. JumpsKept(code, h, Append(code, i), g)
  <2>1. \A k \in 1 .. Len(code) : k \in 1 .. Len(code) + 1 /\ k <= Len(code) + 1
    BY <1>6
  <2> QED
    BY <1>5, <1>6, <2>1 DEF JumpsKept
<1>9. /\ ~TargetsEnd(Emitted(d), W)
      /\ Len(Emitted(d)) = Len(code) + 1
      /\ Emitted(d)[Len(code) + 1] = i
  BY <1>1, <1>4, <1>6
<1>10. /\ Fit(Emitted(d), g, W)
       /\ Top(Emitted(d), g) = z
       /\ JumpsKept(code, h, Emitted(d), g)
  BY <1>1, <1>5, <1>8
<1> QED
  BY <1>7, <1>9, <1>10 DEF code, i

(* The end of a branch: one value more than the last statement leaves. *)
LEMMA BranchFits ==
  ASSUME NEW c \in Compilers, ~Failed(c), NEW e \in Compilers, Branch(c, e), NEW h,
         NEW W, Fit(Emitted(c), h, W), EndsWell(Emitted(c), W)
  PROVE  \E g : /\ Fit(Emitted(e), g, W)
                /\ Top(Emitted(e), g) = Top(Emitted(c), h) + 1
                /\ JumpsKept(Emitted(c), h, Emitted(e), g)
<1> DEFINE code == Emitted(c)
           new == Emitted(e)
           top == Top(code, h)
<1>1. code \in Seq(Instructions) /\ new \in Seq(Instructions)
  BY CurrentScope
<1>2. /\ Len(code) \in Nat /\ Len(new) \in Nat
      /\ Fit(code, h, W) /\ EndsWell(code, W)
      /\ top \in Nat
  BY <1>1 DEF Top, Fit, Positions
<1>3. \A op : LastIs(c, op) => Len(code) > 0 /\ code[Len(code)].op = op
  BY <1>1 DEF LastIs, Last
<1>4. CASE LastIs(c, "POP")
  <2>1. /\ Len(new) = Len(code) - 1
        /\ \A k \in 1 .. Len(code) - 1 : new[k] = code[k]
    <3>1. ~LastIs(c, "RETURN_VALUE")
      BY <1>4 DEF LastIs
    <3> QED
      BY <1>4, <3>1 DEF Branch, Removes
  <2>2. Len(code) > 0 /\ code[Len(code)].op = "POP" /\ ~TargetsEnd(code, W)
    BY <1>2, <1>3, <1>4 DEF EndsWell
  <2> HIDE DEF code, new
  <2>3. PICK g : /\ Fit(new, g, W)
                 /\ Top(new, g) = Top(code, h) + 1
                 /\ \A k \in 1 .. Len(code) : g[k] = h[k]
    BY <1>1, <1>2, <2>1, <2>2, FitRemove
  <2>4. JumpsKept(code, h, new, g)
    <3>1. \A k \in 1 .. Len(code) :
            code[k].op \in JumpOps => k \in 1 .. Len(code) - 1
      <4>1. code[Len(code)].op \notin JumpOps
        BY <2>2 DEF JumpOps
      <4> QED
        BY <1>2, <4>1
    <3> QED
      BY <1>2, <2>1, <2>3, <3>1 DEF JumpsKept
  <2> QED
    BY <2>3, <2>4 DEF code, new
<1>5. CASE LastIs(c, "RETURN_VALUE")
  <2>1. new = code
    <3>1. ~LastIs(c, "POP")
      BY <1>5 DEF LastIs
    <3> QED
      BY <1>5, <3>1 DEF Branch
  <2>2. Len(code) > 0 /\ code[Len(code)].op \in ReturnOps /\ ~TargetsEnd(code, W)
    BY <1>2, <1>3, <1>5 DEF ReturnOps, EndsWell
  <2> HIDE DEF code, new
  <2>3. PICK g : /\ Fit(code, g, W)
                 /\ Top(code, g) = top + 1
                 /\ \A k \in 1 .. Len(code) : g[k] = h[k]
    <3> DEFINE z == top + 1
    <3>1. z \in Nat
      BY <1>2
    <3> HIDE DEF z
    <3>2. \E g : /\ Fit(code, g, W)
                 /\ Top(code, g) = z
                 /\ \A k \in 1 .. Len(code) : g[k] = h[k]
      BY <1>1, <1>2, <2>2, <3>1, FitFree, SMTT(30)
    <3> QED
      BY <3>2 DEF z
  <2>4. JumpsKept(code, h, new, g)
    BY <1>2, <2>1, <2>3 DEF JumpsKept
  <2> QED
    BY <2>1, <2>3, <2>4 DEF code, new
<1>6. CASE ~LastIs(c, "POP") /\ ~LastIs(c, "RETURN_VALUE")
  <2>1. Emits(c, e, "NULL", 0, 0)
    BY <1>6 DEF Branch
  <2> DEFINE i == Instr("NULL", 0, 0)
             none == 0
  <2>2. Taken(i) = 0 /\ Given(i) = 1
    BY TakenBy DEF Instr, LoadOps
  <2>3. /\ top >= Taken(i)
        /\ top + 1 \in Nat
        /\ top + 1 = HeightAfter(i, top)
        /\ "NULL" \notin JumpOps
    BY <1>2, <2>2 DEF HeightAfter, JumpOps
  <2> DEFINE z == top + 1
             op == "NULL"
  <2>4. CanFollow(Emitted(c), h, W, Instr(op, none, none), z)
    BY <2>3 DEF CanFollow, Instr
  <2>5. /\ none \in Nat
        /\ W \subseteq W
        /\ Emits(c, e, op, none, none)
        /\ Fit(Emitted(c), h, W)
    BY <2>1
  <2> HIDE DEF none, z, op
  <2>6. \E g : /\ Fit(Emitted(e), g, W)
               /\ Top(Emitted(e), g) = z
               /\ g[Len(Emitted(c)) + 1] = Top(Emitted(c), h)
               /\ JumpsKept(Emitted(c), h, Emitted(e), g)
    BY <2>4, <2>5, EmitFits
  <2> QED
    BY <2>6 DEF z
<1> QED
  BY <1>4, <1>5, <1>6

-----------------------------------------------------------------------------
(* What tasks do to the stack *)

(* The jump at position k of code waits for a task that finds the stack at x: its
   branch leaves one value more than that. *)
Waits(code, h, k, op, x) ==
  k \in 1 .. Len(code) /\ code[k].op = op /\ h[k] = x + 1

(* The instruction a task emits. *)
Emission1(t) == Instr(t.op, t.operand, 0)

(* The code that task t leads to finds the stack at height x and leaves it at y. *)
Does(code, h, t, x, y) ==
  /\ t.do \in {"STATEMENT", "DEFINE", "LEAVE"} => y = x
  /\ t.do \in {"EXPRESSION", "CAPTURE", "LOAD", "FUNCTION"} => y = x + 1
  /\ t.do \in {"LET", "STORE"} => x >= 1 /\ y = x - 1
  /\ t.do \in {"CONSEQUENCE", "ARGUMENTS"} => x >= 1 /\ y = x
  /\ t.do = "EMIT" => /\ t.op \notin JumpOps
                      /\ x >= Taken(Emission1(t))
                      /\ y = HeightAfter(Emission1(t), x)
  /\ t.do = "ALTERNATIVE" =>
       Waits(code, h, t.jump_if_false + 1, "JUMP_NOT_TRUTHY", x) /\ y = x + 1
  /\ t.do = "END_IF" => Waits(code, h, t.jump_end + 1, "JUMP", x) /\ y = x + 1
  /\ t.do = "CLOSURE" => x >= t.free_count /\ y = x - t.free_count + 1

(* Tasks done one after the other take the stack from height x to height z. *)
PathTo(code, h, tasks, x, z) ==
  \E y \in [1 .. Len(tasks) + 1 -> Nat] :
    /\ y[1] = x
    /\ y[Len(tasks) + 1] = z
    /\ \A j \in 1 .. Len(tasks) : Does(code, h, tasks[j], y[j], y[j + 1])

(* No task, no change. *)
LEMMA PathNone ==
  ASSUME NEW code, NEW h, NEW x \in Nat
  PROVE  PathTo(code, h, << >>, x, x)
<1> DEFINE y == [j \in 1 .. 1 |-> x]
<1>1. y \in [1 .. Len(<< >>) + 1 -> Nat] /\ y[1] = x /\ Len(<< >>) = 0
  OBVIOUS
<1>2. y[Len(<< >>) + 1] = x
  OBVIOUS
<1> HIDE DEF y
<1>3. \A j \in 1 .. Len(<< >>) : Does(code, h, << >>[j], y[j], y[j + 1])
  BY <1>1
<1> QED
  BY <1>1, <1>2, <1>3 DEF PathTo

(* One task. *)
LEMMA PathOne ==
  ASSUME NEW code, NEW h, NEW t, NEW x \in Nat, NEW z \in Nat, Does(code, h, t, x, z)
  PROVE  PathTo(code, h, <<t>>, x, z)
<1> DEFINE y == [j \in 1 .. 2 |-> IF j = 1 THEN x ELSE z]
<1>1. y \in [1 .. 2 -> Nat] /\ y[1] = x /\ y[2] = z /\ Len(<<t>>) = 1 /\ <<t>>[1] = t
  OBVIOUS
<1> HIDE DEF y
<1>2. \A j \in 1 .. 1 : Does(code, h, <<t>>[j], y[j], y[j + 1])
  BY <1>1
<1> QED
  BY <1>1, <1>2 DEF PathTo

(* Tasks, then other tasks. *)
LEMMA PathJoin ==
  ASSUME NEW code, NEW h, NEW first \in Seq(Tasks), NEW more \in Seq(Tasks),
         NEW x, NEW y, NEW z,
         PathTo(code, h, first, x, y), PathTo(code, h, more, y, z)
  PROVE  PathTo(code, h, first \o more, x, z)
<1> DEFINE m == Len(first)
           n == Len(more)
           both == first \o more
<1>1. /\ m \in Nat /\ n \in Nat /\ Len(both) = m + n
      /\ \A j \in 1 .. m : both[j] = first[j]
      /\ \A j \in m + 1 .. m + n : both[j] = more[j - m]
  OBVIOUS
<1>2. PICK u \in [1 .. m + 1 -> Nat] :
        /\ u[1] = x
        /\ u[m + 1] = y
        /\ \A j \in 1 .. m : Does(code, h, first[j], u[j], u[j + 1])
  BY DEF PathTo
<1>3. PICK v \in [1 .. n + 1 -> Nat] :
        /\ v[1] = y
        /\ v[n + 1] = z
        /\ \A j \in 1 .. n : Does(code, h, more[j], v[j], v[j + 1])
  BY DEF PathTo
<1>0. m \in Nat /\ n \in Nat
  OBVIOUS
<1> HIDE DEF both, m, n
<1> DEFINE w == [j \in 1 .. m + n + 1 |-> IF j <= m THEN u[j] ELSE v[j - m]]
<1>4. \A j \in 1 .. m + n + 1 :
        /\ j <= m => j \in 1 .. m + 1
        /\ ~(j <= m) => j - m \in 1 .. n + 1
  BY <1>0
<1>5. w \in [1 .. m + n + 1 -> Nat]
  BY <1>0, <1>4
<1>6. /\ \A j \in 1 .. m + 1 : w[j] = u[j]
      /\ \A j \in m + 1 .. m + n + 1 : w[j] = v[j - m]
  <2>1. \A j \in 1 .. m : w[j] = u[j]
    BY <1>0
  <2>2. \A j \in m + 1 .. m + n + 1 : w[j] = v[j - m]
    BY <1>0
  <2>3. w[m + 1] = u[m + 1]
    <3>1. m + 1 \in m + 1 .. m + n + 1 /\ (m + 1) - m = 1
      BY <1>0
    <3> HIDE DEF w
    <3>2. w[m + 1] = v[(m + 1) - m]
      BY <2>2, <3>1
    <3> QED
      BY <1>2, <1>3, <3>1, <3>2
  <2>4. \A j \in 1 .. m + 1 : j \in 1 .. m \/ j = m + 1
    BY <1>0
  <2> HIDE DEF w
  <2> QED
    BY <2>1, <2>2, <2>3, <2>4
<1> HIDE DEF w
<1>7. w[1] = x /\ w[m + n + 1] = z
  <2>1. 1 \in 1 .. m + 1 /\ m + n + 1 \in m + 1 .. m + n + 1
    BY <1>0
  <2>2. (m + n + 1) - m = n + 1
    BY <1>0
  <2>3. w[1] = u[1] /\ w[m + n + 1] = v[(m + n + 1) - m]
    BY <1>6, <2>1
  <2> QED
    BY <1>2, <1>3, <2>2, <2>3
<1>8. ASSUME NEW j \in 1 .. m + n
      PROVE  Does(code, h, both[j], w[j], w[j + 1])
  <2>1. CASE j <= m
    <3>1. j \in 1 .. m /\ j \in 1 .. m + 1 /\ j + 1 \in 1 .. m + 1
      BY <1>0, <2>1
    <3> QED
      BY <1>1, <1>2, <1>6, <3>1
  <2>2. CASE ~(j <= m)
    <3>1. /\ j \in m + 1 .. m + n /\ j \in m + 1 .. m + n + 1
          /\ j + 1 \in m + 1 .. m + n + 1
          /\ j - m \in 1 .. n
      BY <1>0, <2>2
    <3>2. (j + 1) - m = (j - m) + 1
      BY <1>0
    <3>3. w[j] = v[j - m] /\ w[j + 1] = v[(j + 1) - m]
      BY <1>6, <3>1
    <3>4. w[j] = v[j - m] /\ w[j + 1] = v[(j - m) + 1]
      BY <3>2, <3>3
    <3>5. Does(code, h, more[j - m], v[j - m], v[(j - m) + 1])
      BY <1>3, <3>1
    <3> QED
      BY <1>1, <3>1, <3>4, <3>5
  <2> QED
    BY <2>1, <2>2
<1>9. Len(both) = m + n
  BY <1>1
<1>10. PathTo(code, h, both, x, z)
  BY <1>5, <1>7, <1>8, <1>9 DEF PathTo
<1> QED
  BY <1>10 DEF both

(* The first task, and the others. *)
LEMMA PathBegins ==
  ASSUME NEW code, NEW h, NEW tasks \in Seq(Tasks), tasks # << >>, NEW x, NEW z,
         PathTo(code, h, tasks, x, z)
  PROVE  \E y \in Nat : /\ x \in Nat
                        /\ Does(code, h, Head(tasks), x, y)
                        /\ PathTo(code, h, Tail(tasks), y, z)
<1> DEFINE n == Len(tasks)
           rest == Tail(tasks)
<1>1. /\ n \in Nat \ {0}
      /\ Len(rest) = n - 1
      /\ Head(tasks) = tasks[1]
      /\ \A j \in 1 .. n - 1 : rest[j] = tasks[j + 1]
  OBVIOUS
<1>2. PICK u \in [1 .. n + 1 -> Nat] :
        /\ u[1] = x
        /\ u[n + 1] = z
        /\ \A j \in 1 .. n : Does(code, h, tasks[j], u[j], u[j + 1])
  BY DEF PathTo
<1> HIDE DEF n, rest
<1> DEFINE w == [j \in 1 .. n |-> u[j + 1]]
<1>3. w \in [1 .. n -> Nat]
  BY <1>1
<1>4. \A j \in 1 .. n : w[j] = u[j + 1]
  OBVIOUS
<1> HIDE DEF w
<1>5. w[1] = u[2] /\ w[n] = z /\ u[1] \in Nat /\ u[2] \in Nat
  <2>1. 1 \in 1 .. n /\ n \in 1 .. n /\ 1 \in 1 .. n + 1 /\ 2 \in 1 .. n + 1 /\ 1 + 1 = 2
    BY <1>1
  <2> QED
    BY <1>2, <1>4, <2>1
<1>6. ASSUME NEW j \in 1 .. n - 1
      PROVE  Does(code, h, rest[j], w[j], w[j + 1])
  <2>1. j \in 1 .. n /\ j + 1 \in 1 .. n
    BY <1>1
  <2>2. w[j] = u[j + 1] /\ w[j + 1] = u[(j + 1) + 1]
    BY <1>4, <2>1
  <2>3. Does(code, h, tasks[j + 1], u[j + 1], u[(j + 1) + 1])
    BY <1>2, <2>1
  <2> QED
    BY <1>1, <2>2, <2>3
<1>7. PathTo(code, h, rest, u[2], z)
  <2>1. Len(rest) = n - 1 /\ (n - 1) + 1 = n
    BY <1>1
  <2>2. w \in [1 .. Len(rest) + 1 -> Nat]
    BY <1>3, <2>1
  <2>3. w[Len(rest) + 1] = z /\ w[1] = u[2]
    BY <1>5, <2>1
  <2>4. \A j \in 1 .. Len(rest) : Does(code, h, rest[j], w[j], w[j + 1])
    BY <1>6, <2>1
  <2> QED
    BY <2>2, <2>3, <2>4 DEF PathTo
<1>8. Does(code, h, Head(tasks), x, u[2])
  <2>1. 1 \in 1 .. n /\ 1 + 1 = 2
    BY <1>1
  <2> QED
    BY <1>1, <1>2, <2>1
<1> QED
  BY <1>2, <1>5, <1>7, <1>8 DEF rest

(* A task finds the jump that waits for it also in other code with the same jumps. *)
LEMMA PathKept ==
  ASSUME NEW code, Len(code) \in Nat, NEW h, NEW new, NEW g, JumpsKept(code, h, new, g),
         NEW tasks, NEW x, NEW z, PathTo(code, h, tasks, x, z)
  PROVE  PathTo(new, g, tasks, x, z)
<1>1. ASSUME NEW k, NEW op \in JumpOps, NEW u, Waits(code, h, k, op, u)
      PROVE  Waits(new, g, k, op, u)
  <2>1. /\ k \in 1 .. Len(code)
        /\ code[k].op = op
        /\ h[k] = u + 1
    BY <1>1 DEF Waits
  <2>2. Len(new) \in Nat /\ k <= Len(new) /\ new[k].op = op /\ g[k] = h[k]
    BY <2>1 DEF JumpsKept
  <2>3. k \in 1 .. Len(new)
    BY <2>1, <2>2
  <2> QED
    BY <2>1, <2>2, <2>3 DEF Waits
<1>2. ASSUME NEW t, NEW u, NEW v, Does(code, h, t, u, v)
      PROVE  Does(new, g, t, u, v)
  <2>1. "JUMP_NOT_TRUTHY" \in JumpOps /\ "JUMP" \in JumpOps
    BY DEF JumpOps
  <2> QED
    BY <1>1, <1>2, <2>1 DEF Does
<1> QED
  BY <1>2 DEF PathTo

(* Tasks that leave the stack as they find it. *)
LEMMA PathLevel ==
  ASSUME NEW code, NEW h, NEW tasks \in Seq(Tasks), NEW x \in Nat,
         \A k \in 1 .. Len(tasks) : Does(code, h, tasks[k], x, x)
  PROVE  PathTo(code, h, tasks, x, x)
<1> DEFINE n == Len(tasks)
           y == [j \in 1 .. n + 1 |-> x]
<1>1. n \in Nat
  OBVIOUS
<1>2. y \in [1 .. n + 1 -> Nat] /\ \A j \in 1 .. n + 1 : y[j] = x
  OBVIOUS
<1> HIDE DEF y
<1>3. /\ 1 \in 1 .. n + 1 /\ n + 1 \in 1 .. n + 1
      /\ \A j \in 1 .. n : j \in 1 .. n + 1 /\ j + 1 \in 1 .. n + 1
  BY <1>1
<1>4. \A j \in 1 .. n : Does(code, h, tasks[j], y[j], y[j + 1])
  BY <1>2, <1>3
<1>5. y[1] = x /\ y[n + 1] = x
  BY <1>2, <1>3
<1> QED
  BY <1>2, <1>4, <1>5 DEF PathTo

(* Tasks that leave one value each. *)
LEMMA PathClimbs ==
  ASSUME NEW code, NEW h, NEW tasks \in Seq(Tasks), NEW x \in Nat,
         \A k \in 1 .. Len(tasks) : \A n \in Nat : Does(code, h, tasks[k], n, n + 1)
  PROVE  PathTo(code, h, tasks, x, x + Len(tasks))
<1> DEFINE n == Len(tasks)
           y == [j \in 1 .. n + 1 |-> x + (j - 1)]
<1>1. n \in Nat
  OBVIOUS
<1>2. \A j \in 1 .. n + 1 : x + (j - 1) \in Nat
  BY <1>1
<1>3. y \in [1 .. n + 1 -> Nat] /\ \A j \in 1 .. n + 1 : y[j] = x + (j - 1)
  BY <1>2
<1> HIDE DEF y
<1>4. ASSUME NEW j \in 1 .. n
      PROVE  Does(code, h, tasks[j], y[j], y[j + 1])
  <2>1. j \in 1 .. n + 1 /\ j + 1 \in 1 .. n + 1
    BY <1>1
  <2>2. x + ((j + 1) - 1) = (x + (j - 1)) + 1 /\ x + (j - 1) \in Nat
    BY <1>1
  <2>3. y[j] \in Nat /\ y[j + 1] = y[j] + 1
    BY <1>3, <2>1, <2>2
  <2> QED
    BY <2>3
<1>5. y[1] = x /\ y[n + 1] = x + n
  <2>1. 1 \in 1 .. n + 1 /\ n + 1 \in 1 .. n + 1 /\ x + (1 - 1) = x /\ x + ((n + 1) - 1) = x + n
    BY <1>1
  <2> QED
    BY <1>3, <2>1
<1> QED
  BY <1>3, <1>4, <1>5 DEF PathTo

(* Two, three tasks. *)
LEMMA PathFew ==
  ASSUME NEW code, NEW h, NEW a \in Tasks, NEW b \in Tasks, NEW x \in Nat, NEW y \in Nat,
         NEW z \in Nat, Does(code, h, a, x, y), Does(code, h, b, y, z)
  PROVE  /\ PathTo(code, h, <<a, b>>, x, z)
         /\ \A t \in Tasks, u \in Nat :
              Does(code, h, t, z, u) => PathTo(code, h, <<a, b, t>>, x, u)
<1>1. /\ <<a>> \in Seq(Tasks) /\ <<b>> \in Seq(Tasks) /\ <<a, b>> \in Seq(Tasks)
      /\ \A t \in Tasks : <<t>> \in Seq(Tasks)
  OBVIOUS
<1>2. PathTo(code, h, <<a>>, x, y) /\ PathTo(code, h, <<b>>, y, z)
  BY PathOne
<1>3. <<a>> \o <<b>> = <<a, b>>
  BY TaskLists
<1>4. PathTo(code, h, <<a>> \o <<b>>, x, z)
  BY <1>1, <1>2, PathJoin, Zenon
<1>5. PathTo(code, h, <<a, b>>, x, z)
  BY <1>3, <1>4
<1>6. ASSUME NEW t \in Tasks, NEW u \in Nat, Does(code, h, t, z, u)
      PROVE  PathTo(code, h, <<a, b, t>>, x, u)
  <2>1. PathTo(code, h, <<t>>, z, u)
    BY <1>6, PathOne
  <2>2. PathTo(code, h, <<a, b>> \o <<t>>, x, u)
    BY <1>1, <1>5, <2>1, PathJoin, Zenon
  <2>3. <<a, b>> \o <<t>> = <<a, b, t>>
    BY TaskLists
  <2> QED
    BY <2>2, <2>3
<1> QED
  BY <1>5, <1>6

(* Four tasks. *)
LEMMA PathFour ==
  ASSUME NEW code, NEW h, NEW a \in Tasks, NEW b \in Tasks, NEW p \in Tasks,
         NEW q \in Tasks, NEW x \in Nat, NEW y \in Nat, NEW z \in Nat, NEW u \in Nat,
         NEW v \in Nat, Does(code, h, a, x, y), Does(code, h, b, y, z),
         Does(code, h, p, z, u), Does(code, h, q, u, v)
  PROVE  PathTo(code, h, <<a, b, p, q>>, x, v)
<1>1. <<a, b, p>> \in Seq(Tasks) /\ <<q>> \in Seq(Tasks)
  OBVIOUS
<1>2. PathTo(code, h, <<a, b, p>>, x, u)
  BY PathFew
<1>3. PathTo(code, h, <<q>>, u, v)
  BY PathOne
<1>4. PathTo(code, h, <<a, b, p>> \o <<q>>, x, v)
  BY <1>1, <1>2, <1>3, PathJoin, Zenon
<1>5. <<a, b, p>> \o <<q>> = <<a, b, p, q>>
  BY TaskLists
<1> QED
  BY <1>4, <1>5

(* The jump at position k waits for task t. *)
Awaits(t, k) ==
  \/ t.do = "ALTERNATIVE" /\ k = t.jump_if_false + 1
  \/ t.do = "END_IF" /\ k = t.jump_end + 1

Awaited(tasks) == {k \in Nat : \E j \in 1 .. Len(tasks) : Awaits(tasks[j], k)}

(* The jumps that wait for one task or another. *)
LEMMA AwaitedIs ==
  /\ Awaited(<< >>) = {}
  /\ \A t : Awaited(<<t>>) = {k \in Nat : Awaits(t, k)}
  /\ \A first, more \in Seq(Tasks) :
       Awaited(first \o more) = Awaited(first) \union Awaited(more)
  /\ \A tasks \in Seq(Tasks) :
       tasks # << >> => Awaited(tasks) = Awaited(<<Head(tasks)>>) \union Awaited(Tail(tasks))
<1>1. Awaited(<< >>) = {}
  BY DEF Awaited
<1>2. \A t : Awaited(<<t>>) = {k \in Nat : Awaits(t, k)}
  BY DEF Awaited
<1>3. ASSUME NEW first \in Seq(Tasks), NEW more \in Seq(Tasks)
      PROVE  Awaited(first \o more) = Awaited(first) \union Awaited(more)
  <2> DEFINE m == Len(first)
             n == Len(more)
             both == first \o more
  <2>1. m \in Nat /\ n \in Nat
    OBVIOUS
  <2>2. /\ Len(both) = m + n
        /\ \A j \in 1 .. m : both[j] = first[j]
        /\ \A j \in m + 1 .. m + n : both[j] = more[j - m]
    OBVIOUS
  <2> HIDE DEF m, n, both
  <2>3. /\ \A j \in 1 .. m : j \in 1 .. m + n
        /\ \A j \in 1 .. n : /\ j + m \in m + 1 .. m + n
                             /\ j + m \in 1 .. m + n
                             /\ (j + m) - m = j
        /\ \A j \in 1 .. m + n :
             j \in 1 .. m \/ (j \in m + 1 .. m + n /\ j - m \in 1 .. n)
    BY <2>1
  <2>4. ASSUME NEW k
        PROVE  (\E j \in 1 .. m + n : Awaits(both[j], k)) <=>
                 \/ \E j \in 1 .. m : Awaits(first[j], k)
                 \/ \E j \in 1 .. n : Awaits(more[j], k)
    <3>1. ASSUME NEW j \in 1 .. n, Awaits(more[j], k)
          PROVE  \E i \in 1 .. m + n : Awaits(both[i], k)
      <4>1. both[j + m] = more[(j + m) - m] /\ j + m \in 1 .. m + n /\ (j + m) - m = j
        BY <2>2, <2>3
      <4> QED
        BY <3>1, <4>1
    <3>2. ASSUME NEW j \in 1 .. m, Awaits(first[j], k)
          PROVE  \E i \in 1 .. m + n : Awaits(both[i], k)
      BY <2>2, <2>3, <3>2
    <3>3. ASSUME NEW j \in 1 .. m + n, Awaits(both[j], k)
          PROVE  \/ \E i \in 1 .. m : Awaits(first[i], k)
                 \/ \E i \in 1 .. n : Awaits(more[i], k)
      BY <2>2, <2>3, <3>3
    <3> QED
      BY <3>1, <3>2, <3>3
  <2> QED
    BY <2>2, <2>4 DEF Awaited, m, n, both
<1>4. ASSUME NEW tasks \in Seq(Tasks), tasks # << >>
      PROVE  Awaited(tasks) = Awaited(<<Head(tasks)>>) \union Awaited(Tail(tasks))
  <2>1. /\ <<Head(tasks)>> \in Seq(Tasks)
        /\ Tail(tasks) \in Seq(Tasks)
        /\ tasks = <<Head(tasks)>> \o Tail(tasks)
    BY <1>4
  <2> QED
    BY <1>3, <2>1
<1> QED
  BY <1>1, <1>2, <1>3, <1>4

(* Tasks before which a jump may end at a statement's end. *)
Boundary(t) == t.do \in {"STATEMENT", "DEFINE", "ALTERNATIVE", "END_IF"}

(* Tasks that are part of a value: another task of the same expression or
   statement comes after them. *)
Leaves(t) ==
  \/ t.do \in {"EXPRESSION", "LEAVE", "CAPTURE", "CONSEQUENCE", "ALTERNATIVE", "END_IF",
               "ARGUMENTS", "LOAD", "CLOSURE", "FUNCTION"}
  \/ t.do = "EMIT" /\ t.op \notin {"POP", "RETURN_VALUE"}

Chained(tasks) ==
  \A j \in 1 .. Len(tasks) :
    Leaves(tasks[j]) => j < Len(tasks) /\ ~Boundary(tasks[j + 1])

(* Tasks that can stand where t stood. *)
Chains(t, tasks) ==
  \A j \in 1 .. Len(tasks) :
    Leaves(tasks[j]) => IF j < Len(tasks) THEN ~Boundary(tasks[j + 1]) ELSE Leaves(t)

(* Code and what is to be done after it fit each other. *)
Lined(code, todo) ==
  /\ Chained(todo)
  /\ EndsWell(code, Awaited(todo)) \/ (todo # << >> /\ ~Boundary(todo[1]))
  /\ \E h : /\ Fit(code, h, Awaited(todo))
            /\ \E z : PathTo(code, h, todo, Top(code, h), z)

(* Task t is begun where code ends: there is new code then, and tasks to do in its
   place that lead to the same height. *)
Follows(code, t, new, tasks) ==
  \A h, V, y :
    /\ y \in Nat
    /\ Top(code, h) \in Nat
    /\ Fit(code, h, Awaited(<<t>>) \union V)
    /\ Does(code, h, t, Top(code, h), y)
    /\ Boundary(t) => EndsWell(code, Awaited(<<t>>) \union V)
    => /\ \E g : /\ Fit(new, g, Awaited(tasks) \union V)
                 /\ JumpsKept(code, h, new, g)
                 /\ PathTo(new, g, tasks, Top(new, g), y)
       /\ \/ EndsWell(new, Awaited(tasks) \union V)
          \/ tasks # << >> /\ ~Boundary(tasks[1])
          \/ tasks = << >> /\ Leaves(t)

(* Tasks in the place of another are chained as it was. *)
LEMMA ChainedFollows ==
  ASSUME NEW todo \in Seq(Tasks), todo # << >>, Chained(todo),
         NEW tasks \in Seq(Tasks), Chains(Head(todo), tasks)
  PROVE  /\ Chained(tasks \o Tail(todo))
         /\ Leaves(Head(todo)) => Tail(todo) # << >> /\ ~Boundary(Tail(todo)[1])
<1> DEFINE t == Head(todo)
           rest == Tail(todo)
           m == Len(tasks)
           n == Len(rest)
           both == tasks \o rest
<1>1. m \in Nat /\ n \in Nat
  OBVIOUS
<1>2. /\ t = todo[1]
      /\ Len(todo) = n + 1
      /\ rest \in Seq(Tasks)
      /\ \A j \in 1 .. n : rest[j] = todo[j + 1]
  OBVIOUS
<1>3. /\ Len(both) = m + n
      /\ \A j \in 1 .. m : both[j] = tasks[j]
      /\ \A j \in m + 1 .. m + n : both[j] = rest[j - m]
  BY <1>2
<1> HIDE DEF t, rest, m, n, both
<1>4. Leaves(t) => n > 0 /\ ~Boundary(rest[1])
  <2>1. ASSUME Leaves(t)
        PROVE  1 < n + 1 /\ ~Boundary(todo[1 + 1])
    <3>1. 1 \in 1 .. n + 1
      BY <1>1
    <3> QED
      BY <1>2, <2>1, <3>1 DEF Chained
  <2>2. ASSUME 1 < n + 1
        PROVE  n > 0 /\ rest[1] = todo[1 + 1]
    <3>1. n > 0 /\ 1 \in 1 .. n
      BY <1>1, <2>2
    <3> QED
      BY <1>2, <3>1
  <2> QED
    BY <2>1, <2>2
<1>5. ASSUME NEW j \in 1 .. m + n, Leaves(both[j])
      PROVE  j < m + n /\ ~Boundary(both[j + 1])
  <2>1. CASE j \in 1 .. m /\ j < m
    <3>1. j + 1 \in 1 .. m /\ j < m + n
      BY <1>1, <2>1
    <3>2. both[j] = tasks[j] /\ both[j + 1] = tasks[j + 1]
      BY <1>3, <2>1, <3>1
    <3> QED
      BY <1>5, <2>1, <3>1, <3>2 DEF Chains, m
  <2>2. CASE j = m /\ m > 0
    <3>1. j \in 1 .. m /\ ~(j < m)
      BY <1>1, <2>2
    <3>2. both[j] = tasks[j]
      BY <1>3, <3>1
    <3>3. Leaves(t)
      BY <1>5, <3>1, <3>2 DEF Chains, m, t
    <3>4. n > 0 /\ ~Boundary(rest[1])
      BY <1>4, <3>3
    <3>5. m + 1 \in m + 1 .. m + n /\ (m + 1) - m = 1 /\ j < m + n
      BY <1>1, <2>2, <3>4
    <3>6. both[m + 1] = rest[(m + 1) - m]
      BY <1>3, <3>5
    <3> QED
      BY <2>2, <3>4, <3>5, <3>6
  <2>3. CASE j \in m + 1 .. m + n
    <3>1. /\ j - m \in 1 .. n
          /\ (j - m) + 1 \in 1 .. n + 1
      BY <1>1, <2>3
    <3>2. both[j] = rest[j - m] /\ rest[j - m] = todo[(j - m) + 1]
      BY <1>2, <1>3, <2>3, <3>1
    <3>3. (j - m) + 1 < n + 1 /\ ~Boundary(todo[((j - m) + 1) + 1])
      BY <1>2, <1>5, <3>1, <3>2 DEF Chained
    <3>4. /\ j < m + n
          /\ j + 1 \in m + 1 .. m + n
          /\ (j + 1) - m = (j - m) + 1
          /\ (j - m) + 1 \in 1 .. n
      BY <1>1, <2>3, <3>1, <3>3
    <3>5. both[j + 1] = rest[(j + 1) - m] /\ rest[(j - m) + 1] = todo[((j - m) + 1) + 1]
      BY <1>2, <1>3, <3>4
    <3> QED
      BY <3>3, <3>4, <3>5
  <2>4. \/ j \in 1 .. m /\ j < m
        \/ j = m /\ m > 0
        \/ j \in m + 1 .. m + n
    BY <1>1
  <2> QED
    BY <2>1, <2>2, <2>3, <2>4
<1>6. Chained(both)
  BY <1>3, <1>5 DEF Chained
<1>7. Leaves(t) => rest # << >> /\ ~Boundary(rest[1])
  <2>1. n > 0 => rest # << >>
    BY <1>1 DEF n
  <2> QED
    BY <1>4, <2>1
<1> QED
  BY <1>6, <1>7 DEF t, rest, both

(* Code and what is to be done after it fit each other also when the next task is
   begun. *)
LEMMA LinedFollows ==
  ASSUME NEW code, Len(code) \in Nat, NEW todo \in Seq(Tasks), todo # << >>,
         Lined(code, todo), NEW new, NEW tasks \in Seq(Tasks),
         Follows(code, Head(todo), new, tasks), Chains(Head(todo), tasks)
  PROVE  Lined(new, tasks \o Tail(todo))
<1> DEFINE t == Head(todo)
           rest == Tail(todo)
           V == Awaited(rest)
           both == tasks \o rest
<1>1. /\ t = todo[1]
      /\ rest \in Seq(Tasks)
      /\ both \in Seq(Tasks)
  OBVIOUS
<1>2. /\ Awaited(todo) = Awaited(<<t>>) \union V
      /\ Awaited(both) = Awaited(tasks) \union V
  BY <1>1, AwaitedIs
<1>3. PICK h : /\ Fit(code, h, Awaited(todo))
               /\ \E z : PathTo(code, h, todo, Top(code, h), z)
  BY DEF Lined
<1>4. PICK z : PathTo(code, h, todo, Top(code, h), z)
  BY <1>3
<1>5. PICK y \in Nat : /\ Top(code, h) \in Nat
                       /\ Does(code, h, t, Top(code, h), y)
                       /\ PathTo(code, h, rest, y, z)
  <2> DEFINE x == Top(code, h)
  <2>1. PathTo(code, h, todo, x, z)
    BY <1>4
  <2> HIDE DEF x
  <2>2. \E y \in Nat : /\ x \in Nat
                       /\ Does(code, h, Head(todo), x, y)
                       /\ PathTo(code, h, Tail(todo), y, z)
    BY <2>1, PathBegins
  <2> QED
    BY <2>2 DEF x
<1>6. Boundary(t) => EndsWell(code, Awaited(<<t>>) \union V)
  BY <1>1, <1>2 DEF Lined
<1>7. Fit(code, h, Awaited(<<t>>) \union V)
  BY <1>2, <1>3
<1> HIDE DEF V, rest, both
<1>8. /\ \E g : /\ Fit(new, g, Awaited(tasks) \union V)
                /\ JumpsKept(code, h, new, g)
                /\ PathTo(new, g, tasks, Top(new, g), y)
      /\ \/ EndsWell(new, Awaited(tasks) \union V)
         \/ tasks # << >> /\ ~Boundary(tasks[1])
         \/ tasks = << >> /\ Leaves(t)
  BY <1>5, <1>6, <1>7 DEF Follows
<1>9. PICK g : /\ Fit(new, g, Awaited(tasks) \union V)
               /\ JumpsKept(code, h, new, g)
               /\ PathTo(new, g, tasks, Top(new, g), y)
  BY <1>8
<1>10. PathTo(new, g, both, Top(new, g), z)
  <2>1. PathTo(new, g, rest, y, z)
    BY <1>5, <1>9, PathKept
  <2> DEFINE x == Top(new, g)
  <2>2. PathTo(new, g, tasks, x, y)
    BY <1>9
  <2> HIDE DEF x
  <2>3. PathTo(new, g, tasks \o rest, x, z)
    BY <1>1, <2>1, <2>2, PathJoin
  <2> QED
    BY <2>3 DEF x, both
<1>11. Fit(new, g, Awaited(both))
  BY <1>2, <1>9
<1>12. /\ Chained(both)
       /\ Leaves(t) => rest # << >> /\ ~Boundary(rest[1])
  <2>1. Chained(todo)
    BY DEF Lined
  <2> QED
    BY <2>1, ChainedFollows DEF both, rest
<1>13. EndsWell(new, Awaited(both)) \/ (both # << >> /\ ~Boundary(both[1]))
  <2>1. CASE EndsWell(new, Awaited(tasks) \union V)
    BY <1>2, <2>1
  <2>2. CASE tasks # << >> /\ ~Boundary(tasks[1])
    <3>1. both # << >> /\ both[1] = tasks[1]
      BY <1>1, <2>2 DEF both
    <3> QED
      BY <2>2, <3>1
  <2>3. CASE tasks = << >> /\ Leaves(t)
    <3>1. both = rest
      BY <1>1, <2>3 DEF both
    <3> QED
      BY <1>12, <2>3, <3>1
  <2> QED
    BY <1>8, <2>1, <2>2, <2>3
<1>14. Lined(new, both)
  BY <1>10, <1>11, <1>12, <1>13 DEF Lined
<1> QED
  BY <1>14 DEF both, rest

-----------------------------------------------------------------------------
(* What each kind of task leads to *)

(* No jump waits for task t. *)
Simple(t) == t.do \notin {"ALTERNATIVE", "END_IF"}

(* Nothing awaits such a task. *)
LEMMA SimpleAwaits ==
  /\ \A t : Simple(t) => Awaited(<<t>>) = {}
  /\ \A tasks : (\A j \in 1 .. Len(tasks) : Simple(tasks[j])) => Awaited(tasks) = {}
<1>1. \A t : Simple(t) => \A k : ~Awaits(t, k)
  BY DEF Simple, Awaits
<1>2. ASSUME NEW t, Simple(t)
      PROVE  Awaited(<<t>>) = {}
  BY <1>1, <1>2 DEF Awaited
<1>3. ASSUME NEW tasks, \A j \in 1 .. Len(tasks) : Simple(tasks[j])
      PROVE  Awaited(tasks) = {}
  BY <1>1, <1>3 DEF Awaited
<1> QED
  BY <1>2, <1>3

(* A task that emits nothing, but asks for others. *)
LEMMA SameFollows ==
  ASSUME NEW code, Len(code) \in Nat, NEW t, Simple(t), NEW tasks,
         \A j \in 1 .. Len(tasks) : Simple(tasks[j]),
         \A h : \A x, y \in Nat : Does(code, h, t, x, y) => PathTo(code, h, tasks, x, y),
         \/ tasks # << >> /\ ~Boundary(tasks[1])
         \/ tasks = << >> /\ (Leaves(t) \/ Boundary(t))
  PROVE  Follows(code, t, code, tasks)
<1>1. Awaited(<<t>>) = {} /\ Awaited(tasks) = {}
  BY SimpleAwaits
<1>2. SUFFICES ASSUME NEW h, NEW V, NEW y, y \in Nat, Top(code, h) \in Nat,
                      Fit(code, h, Awaited(<<t>>) \union V),
                      Does(code, h, t, Top(code, h), y),
                      Boundary(t) => EndsWell(code, Awaited(<<t>>) \union V)
               PROVE  /\ \E g : /\ Fit(code, g, Awaited(tasks) \union V)
                                /\ JumpsKept(code, h, code, g)
                                /\ PathTo(code, g, tasks, Top(code, g), y)
                      /\ \/ EndsWell(code, Awaited(tasks) \union V)
                         \/ tasks # << >> /\ ~Boundary(tasks[1])
                         \/ tasks = << >> /\ Leaves(t)
  BY DEF Follows
<1>3. JumpsKept(code, h, code, h)
  BY DEF JumpsKept
<1>4. PathTo(code, h, tasks, Top(code, h), y)
  BY <1>2
<1>5. Fit(code, h, Awaited(tasks) \union V)
  BY <1>1, <1>2
<1>6. Boundary(t) => EndsWell(code, Awaited(tasks) \union V)
  BY <1>1, <1>2
<1> QED
  BY <1>3, <1>4, <1>5, <1>6

(* A task that emits an instruction. *)
LEMMA EmitsFollow ==
  ASSUME NEW c \in Compilers, NEW d \in Compilers, NEW op, NEW operand \in Nat,
         NEW operand2 \in Nat, Emits(c, d, op, operand, operand2), op \notin JumpOps,
         NEW t, Simple(t),
         \A h : \A x, y \in Nat :
           Does(Emitted(c), h, t, x, y) =>
             /\ x >= Taken(Instr(op, operand, operand2))
             /\ op \notin ReturnOps => y = HeightAfter(Instr(op, operand, operand2), x),
         NEW tasks, tasks \in {<< >>, <<LEAVE>>}
  PROVE  Follows(Emitted(c), t, Emitted(d), tasks)
<1> DEFINE code == Emitted(c)
           new == Emitted(d)
           i == Instr(op, operand, operand2)
<1>1. Awaited(<<t>>) = {} /\ Awaited(tasks) = {}
  <2>1. \A j \in 1 .. Len(tasks) : Simple(tasks[j])
    BY DEF Simple, LEAVE
  <2> QED
    BY <2>1, SimpleAwaits
<1>2. i.op = op
  BY DEF Instr
<1>3. SUFFICES ASSUME NEW h, NEW V, NEW y, y \in Nat, Top(code, h) \in Nat,
                      Fit(code, h, Awaited(<<t>>) \union V),
                      Does(code, h, t, Top(code, h), y)
               PROVE  /\ \E g : /\ Fit(new, g, Awaited(tasks) \union V)
                                /\ JumpsKept(code, h, new, g)
                                /\ PathTo(new, g, tasks, Top(new, g), y)
                      /\ EndsWell(new, Awaited(tasks) \union V)
  BY DEF Follows
<1>4. Fit(code, h, V)
  BY <1>1, <1>3
<1>5. /\ Top(code, h) >= Taken(i)
      /\ op \notin ReturnOps => y = HeightAfter(i, Top(code, h))
  BY <1>3
<1>6. CanFollow(code, h, V, i, y)
  BY <1>2, <1>3, <1>5 DEF CanFollow
<1>7. V \subseteq V
  OBVIOUS
<1>8. /\ ~TargetsEnd(Emitted(d), V)
      /\ \E g : /\ Fit(Emitted(d), g, V)
                /\ Top(Emitted(d), g) = y
                /\ JumpsKept(Emitted(c), h, Emitted(d), g)
  BY <1>4, <1>6, <1>7, EmitFits
<1>9. PICK g : /\ Fit(new, g, V)
               /\ Top(new, g) = y
               /\ JumpsKept(code, h, new, g)
  BY <1>8
<1>10. PathTo(new, g, tasks, y, y)
  <2>1. CASE tasks = << >>
    BY <1>3, <2>1, PathNone
  <2>2. CASE tasks = <<LEAVE>>
    <3>1. Does(new, g, LEAVE, y, y)
      BY DEF Does, LEAVE
    <3> HIDE DEF new
    <3> QED
      BY <1>3, <2>2, <3>1, PathOne
  <2> QED
    BY <2>1, <2>2
<1>11. EndsWell(new, V)
  BY <1>8 DEF EndsWell
<1> QED
  BY <1>1, <1>9, <1>10, <1>11

(* A few tasks that can stand where another stood. *)
LEMMA ChainsFew ==
  /\ \A t : Chains(t, << >>)
  /\ \A t, a : (Leaves(a) => Leaves(t)) => Chains(t, <<a>>)
  /\ \A t, a, b : (Leaves(a) => ~Boundary(b)) /\ (Leaves(b) => Leaves(t)) =>
       Chains(t, <<a, b>>)
  /\ \A t, a, b, p : /\ Leaves(a) => ~Boundary(b)
                     /\ Leaves(b) => ~Boundary(p)
                     /\ Leaves(p) => Leaves(t)
                     => Chains(t, <<a, b, p>>)
  /\ \A t, a, b, p, q : /\ Leaves(a) => ~Boundary(b)
                        /\ Leaves(b) => ~Boundary(p)
                        /\ Leaves(p) => ~Boundary(q)
                        /\ Leaves(q) => Leaves(t)
                        => Chains(t, <<a, b, p, q>>)
<1>1. \A t : Chains(t, << >>)
  BY DEF Chains
<1>2. \A t, a : (Leaves(a) => Leaves(t)) => Chains(t, <<a>>)
  BY DEF Chains
<1>3. \A t, a, b : (Leaves(a) => ~Boundary(b)) /\ (Leaves(b) => Leaves(t)) =>
        Chains(t, <<a, b>>)
  BY DEF Chains
<1>4. \A t, a, b, p : /\ Leaves(a) => ~Boundary(b)
                      /\ Leaves(b) => ~Boundary(p)
                      /\ Leaves(p) => Leaves(t)
                      => Chains(t, <<a, b, p>>)
  BY DEF Chains
<1>5. \A t, a, b, p, q : /\ Leaves(a) => ~Boundary(b)
                         /\ Leaves(b) => ~Boundary(p)
                         /\ Leaves(p) => ~Boundary(q)
                         /\ Leaves(q) => Leaves(t)
                         => Chains(t, <<a, b, p, q>>)
  BY DEF Chains
<1> QED
  BY <1>1, <1>2, <1>3, <1>4, <1>5

(* e is c with tasks to do first, and the same code. *)
Readies(c, e, tasks) ==
  /\ e \in Compilers
  /\ ~Failed(e)
  /\ tasks \in Seq(Tasks)
  /\ Level(e) = Level(c)
  /\ \A k \in 1 .. Level(c) - 1 :
       /\ e.scopes[k].instructions = c.scopes[k].instructions
       /\ e.scopes[k].todo = c.scopes[k].todo
  /\ Emitted(e) = Emitted(c)
  /\ Todo(e) = tasks \o Todo(c)
  /\ e.functions = c.functions

(* d is what c, where task t was begun, becomes, with tasks to do in its place. *)
Leads(c, t, d, tasks) ==
  /\ d \in Compilers
  /\ ~Failed(d)
  /\ tasks \in Seq(Tasks)
  /\ Level(d) = Level(c)
  /\ \A k \in 1 .. Level(c) - 1 :
       /\ d.scopes[k].instructions = c.scopes[k].instructions
       /\ d.scopes[k].todo = c.scopes[k].todo
  /\ Todo(d) = tasks \o Todo(c)
  /\ Follows(Emitted(c), t, Emitted(d), tasks)
  /\ Chains(t, tasks)
  /\ d.functions = c.functions

(* No closure is made of a function that is not known. *)
Advances(c, t, d) ==
  \E tasks : /\ Leads(c, t, d, tasks)
             /\ \A j \in 1 .. Len(tasks) : tasks[j].do # "CLOSURE"

(* What readies the compiler. *)
LEMMA ReadiesBy ==
  ASSUME NEW c \in Compilers, ~Failed(c)
  PROVE  /\ Readies(c, c, << >>)
         /\ \A e, tasks : Asks(c, e, tasks) => Readies(c, e, tasks)
         /\ \A e, value : Adds(c, e, value) => Readies(c, e, << >>)
         /\ \A e, name : Defines(c, e, name) => Readies(c, e, << >>)
         /\ \A e, name, original : \A l \in 1 .. Level(c) :
              Captures(c, e, l, name, original) => Readies(c, e, << >>)
<1>1. /\ << >> \in Seq(Tasks)
      /\ Todo(c) = << >> \o Todo(c)
      /\ Level(c) \in Nat \ {0}
  BY NoTasks, CurrentScope
<1>2. Readies(c, c, << >>)
  BY <1>1 DEF Readies
<1>3. ASSUME NEW e, NEW tasks, Asks(c, e, tasks)
      PROVE  Readies(c, e, tasks)
  BY <1>3 DEF Readies, Asks, SameBelow, SameCode, SameBytecode
<1>4. ASSUME NEW e, NEW value, Adds(c, e, value)
      PROVE  Readies(c, e, << >>)
  <2>1. e.scopes = c.scopes /\ e \in Compilers /\ ~Failed(e) /\ e.functions = c.functions
    BY <1>4 DEF Adds
  <2>2. SameBelow(c, e) /\ Emitted(e) = Emitted(c) /\ Todo(e) = Todo(c)
    BY <2>1, SameScopes
  <2> QED
    BY <1>1, <2>1, <2>2 DEF Readies, SameBelow
<1>5. ASSUME NEW e, NEW name, Defines(c, e, name)
      PROVE  Readies(c, e, << >>)
  <2>1. CASE e = c
    BY <1>2, <2>1
  <2>2. CASE ~(e = c)
    <3>1. /\ e \in Compilers
          /\ ~Failed(e)
          /\ SameBelow(c, e)
          /\ SameCode(c, e)
          /\ SameBytecode(c, e)
          /\ Todo(e) = Todo(c)
      BY <1>5, <2>2 DEF Defines
    <3> QED
      BY <1>1, <3>1 DEF Readies, SameBelow, SameCode, SameBytecode
  <2> QED
    BY <2>1, <2>2
<1>6. ASSUME NEW e, NEW name, NEW original, NEW l \in 1 .. Level(c),
             Captures(c, e, l, name, original)
      PROVE  Readies(c, e, << >>)
  <2>1. /\ e \in Compilers
        /\ ~Failed(e)
        /\ Level(e) = Level(c)
        /\ \A k \in 1 .. Level(c) : k # l => e.scopes[k] = c.scopes[k]
        /\ SameCode(c, e)
        /\ SameBytecode(c, e)
        /\ Todo(e) = Todo(c)
        /\ e.scopes[l].instructions = c.scopes[l].instructions
        /\ e.scopes[l].todo = c.scopes[l].todo
    BY <1>6 DEF Captures
  <2>2. \A k \in 1 .. Level(c) - 1 : k \in 1 .. Level(c)
    BY <1>1
  <2>3. \A k \in 1 .. Level(c) - 1 :
          /\ e.scopes[k].instructions = c.scopes[k].instructions
          /\ e.scopes[k].todo = c.scopes[k].todo
    BY <2>1, <2>2
  <2> QED
    BY <1>1, <2>1, <2>3 DEF Readies, SameCode, SameBytecode
<1> QED
  BY <1>2, <1>3, <1>4, <1>5, <1>6

(* Tasks before tasks. *)
LEMMA ReadiesTwice ==
  ASSUME NEW c \in Compilers, NEW e, NEW d, NEW first, NEW more, Readies(c, e, first),
         Readies(e, d, more)
  PROVE  Readies(c, d, more \o first)
<1>1. Level(e) = Level(c) /\ Todo(c) \in Seq(Tasks)
  BY CurrentScope DEF Readies
<1>2. first \in Seq(Tasks) /\ more \in Seq(Tasks)
  BY DEF Readies
<1>3. more \o (first \o Todo(c)) = (more \o first) \o Todo(c)
  BY <1>1, <1>2
<1>4. more \o first \in Seq(Tasks)
  BY <1>2
<1> QED
  BY <1>1, <1>3, <1>4 DEF Readies

(* A task that only asks for others. *)
LEMMA ReadiesLeads ==
  ASSUME NEW c \in Compilers, NEW t, Simple(t), NEW d, NEW tasks, Readies(c, d, tasks),
         \A j \in 1 .. Len(tasks) : Simple(tasks[j]),
         \A h : \A x, y \in Nat :
           Does(Emitted(c), h, t, x, y) => PathTo(Emitted(c), h, tasks, x, y),
         \/ tasks # << >> /\ ~Boundary(tasks[1])
         \/ tasks = << >> /\ (Leaves(t) \/ Boundary(t)),
         Chains(t, tasks)
  PROVE  Leads(c, t, d, tasks)
<1> DEFINE code == Emitted(c)
<1>1. Len(code) \in Nat
  BY CurrentScope
<1>2. \A h : \A x, y \in Nat : Does(code, h, t, x, y) => PathTo(code, h, tasks, x, y)
  OBVIOUS
<1>3. Emitted(d) = code
  BY DEF Readies
<1> HIDE DEF code
<1>4. Follows(code, t, code, tasks)
  BY <1>1, <1>2, SameFollows
<1>5. Follows(Emitted(c), t, Emitted(d), tasks)
  BY <1>3, <1>4 DEF code
<1> QED
  BY <1>5 DEF Leads, Readies

(* A task that emits an instruction. *)
LEMMA EmitsLeads ==
  ASSUME NEW c \in Compilers, NEW e \in Compilers, NEW d \in Compilers, NEW tasks,
         Readies(c, e, tasks), tasks \in {<< >>, <<LEAVE>>},
         NEW op, NEW operand \in Nat, NEW operand2 \in Nat,
         Emits(e, d, op, operand, operand2), op \notin JumpOps,
         NEW t, Simple(t), tasks = << >> \/ Leaves(t),
         \A h : \A x, y \in Nat :
           Does(Emitted(c), h, t, x, y) =>
             /\ x >= Taken(Instr(op, operand, operand2))
             /\ op \notin ReturnOps => y = HeightAfter(Instr(op, operand, operand2), x)
  PROVE  Leads(c, t, d, tasks)
<1>1. Emitted(e) = Emitted(c) /\ Level(e) = Level(c)
  BY DEF Readies
<1>2. \A h : \A x, y \in Nat :
        Does(Emitted(e), h, t, x, y) =>
          /\ x >= Taken(Instr(op, operand, operand2))
          /\ op \notin ReturnOps => y = HeightAfter(Instr(op, operand, operand2), x)
  BY <1>1
<1>3. Follows(Emitted(e), t, Emitted(d), tasks)
  BY <1>2, EmitsFollow
<1>4. Chains(t, tasks)
  BY ChainsFew
<1>5. /\ ~Failed(d)
      /\ SameBelow(e, d)
      /\ SameBytecode(e, d)
      /\ Todo(d) = Todo(e)
  BY DEF Emits
<1> QED
  BY <1>1, <1>3, <1>4, <1>5 DEF Leads, Readies, SameBelow, SameBytecode

(* What the kinds of tasks do. *)
LEMMA DoesBy ==
  ASSUME NEW code, NEW h, NEW t, NEW x \in Nat
  PROVE  /\ t.do \in {"STATEMENT", "DEFINE", "LEAVE"} => Does(code, h, t, x, x)
         /\ t.do \in {"EXPRESSION", "CAPTURE", "LOAD", "FUNCTION"} =>
              Does(code, h, t, x, x + 1)
         /\ t.do \in {"LET", "STORE"} => Does(code, h, t, x + 1, x)
         /\ t.do \in {"CONSEQUENCE", "ARGUMENTS"} => Does(code, h, t, x + 1, x + 1)
         /\ t.do = "EMIT" =>
              /\ t.op \in {"POP", "RETURN_VALUE"} => Does(code, h, t, x + 1, x)
              /\ t.op \in UnaryOps => Does(code, h, t, x + 1, x + 1)
              /\ t.op \in BinaryOps => Does(code, h, t, (x + 1) + 1, x + 1)
              /\ t.op = "CALL" /\ t.operand \in Nat =>
                   Does(code, h, t, (x + 1) + t.operand, x + 1)
<1>1. /\ t.do \in {"STATEMENT", "DEFINE", "LEAVE"} => Does(code, h, t, x, x)
      /\ t.do \in {"EXPRESSION", "CAPTURE", "LOAD", "FUNCTION"} =>
           Does(code, h, t, x, x + 1)
  BY DEF Does
<1>2. /\ t.do \in {"LET", "STORE"} => Does(code, h, t, x + 1, x)
      /\ t.do \in {"CONSEQUENCE", "ARGUMENTS"} => Does(code, h, t, x + 1, x + 1)
  BY DEF Does
<1>3. ASSUME t.do = "EMIT"
      PROVE  /\ t.op \in {"POP", "RETURN_VALUE"} => Does(code, h, t, x + 1, x)
             /\ t.op \in UnaryOps => Does(code, h, t, x + 1, x + 1)
             /\ t.op \in BinaryOps => Does(code, h, t, (x + 1) + 1, x + 1)
             /\ t.op = "CALL" /\ t.operand \in Nat =>
                  Does(code, h, t, (x + 1) + t.operand, x + 1)
  <2> DEFINE i == Emission1(t)
  <2>1. i.op = t.op /\ i.operand = t.operand
    BY DEF Emission1, Instr
  <2>2. \A n : HeightAfter(i, n) = n - Taken(i) + Given(i)
    BY DEF HeightAfter
  <2>3. \A n, m : (/\ t.op \notin JumpOps
                   /\ n >= Taken(i)
                   /\ m = HeightAfter(i, n)) => Does(code, h, t, n, m)
    BY <1>3 DEF Does
  <2> HIDE DEF i
  <2>4. ASSUME t.op \in {"POP", "RETURN_VALUE"}
        PROVE  Does(code, h, t, x + 1, x)
    <3>1. Taken(i) = 1 /\ Given(i) = 0 /\ t.op \notin JumpOps
      BY <2>1, <2>4, TakenBy DEF JumpOps
    <3>2. x + 1 >= 1 /\ x = (x + 1) - 1 + 0
      OBVIOUS
    <3> QED
      BY <2>2, <2>3, <3>1, <3>2
  <2>5. ASSUME t.op \in UnaryOps
        PROVE  Does(code, h, t, x + 1, x + 1)
    <3>1. Taken(i) = 1 /\ Given(i) = 1 /\ t.op \notin JumpOps
      BY <2>1, <2>5, TakenBy DEF JumpOps, UnaryOps
    <3>2. x + 1 >= 1 /\ x + 1 = (x + 1) - 1 + 1
      OBVIOUS
    <3> QED
      BY <2>2, <2>3, <3>1, <3>2
  <2>6. ASSUME t.op \in BinaryOps
        PROVE  Does(code, h, t, (x + 1) + 1, x + 1)
    <3>1. Taken(i) = 2 /\ Given(i) = 1 /\ t.op \notin JumpOps
      BY <2>1, <2>6, TakenBy DEF JumpOps, BinaryOps, ArithmeticOps, ComparisonOps
    <3>2. (x + 1) + 1 >= 2 /\ x + 1 = ((x + 1) + 1) - 2 + 1
      OBVIOUS
    <3> QED
      BY <2>2, <2>3, <3>1, <3>2
  <2>7. ASSUME t.op = "CALL", t.operand \in Nat
        PROVE  Does(code, h, t, (x + 1) + t.operand, x + 1)
    <3>1. Taken(i) = t.operand + 1 /\ Given(i) = 1 /\ t.op \notin JumpOps
      BY <2>1, <2>7, TakenBy DEF JumpOps
    <3>2. /\ (x + 1) + t.operand >= t.operand + 1
          /\ x + 1 = ((x + 1) + t.operand) - (t.operand + 1) + 1
      BY <2>7
    <3> QED
      BY <2>2, <2>3, <3>1, <3>2
  <2> QED
    BY <2>4, <2>5, <2>6, <2>7
<1> QED
  BY <1>1, <1>2, <1>3

(* Lists of tasks are lists of tasks. *)
LEMMA FewAre ==
  /\ \A a : <<a>> \in Seq(Tasks) => a \in Tasks
  /\ \A a, b : <<a, b>> \in Seq(Tasks) => a \in Tasks /\ b \in Tasks
  /\ \A a, b, p : <<a, b, p>> \in Seq(Tasks) => a \in Tasks /\ b \in Tasks /\ p \in Tasks
  /\ \A a, b, p, q : <<a, b, p, q>> \in Seq(Tasks) =>
       a \in Tasks /\ b \in Tasks /\ p \in Tasks /\ q \in Tasks
<1>1. \A a : <<a>> \in Seq(Tasks) => a \in Tasks
  <2>1. ASSUME NEW a, <<a>> \in Seq(Tasks)
        PROVE  a \in Tasks
    <3> DEFINE s == <<a>>
    <3>1. s[1] = a /\ 1 \in 1 .. Len(s) /\ s \in Seq(Tasks)
      BY <2>1
    <3> HIDE DEF s
    <3> QED
      BY <3>1
  <2> QED
    BY <2>1
<1>2. \A a, b : <<a, b>> \in Seq(Tasks) => a \in Tasks /\ b \in Tasks
  <2>1. ASSUME NEW a, NEW b, <<a, b>> \in Seq(Tasks)
        PROVE  a \in Tasks /\ b \in Tasks
    <3> DEFINE s == <<a, b>>
    <3>1. /\ s[1] = a /\ s[2] = b
          /\ 1 \in 1 .. Len(s) /\ 2 \in 1 .. Len(s)
          /\ s \in Seq(Tasks)
      BY <2>1
    <3> HIDE DEF s
    <3> QED
      BY <3>1
  <2> QED
    BY <2>1
<1>3. \A a, b, p : <<a, b, p>> \in Seq(Tasks) => a \in Tasks /\ b \in Tasks /\ p \in Tasks
  <2>1. ASSUME NEW a, NEW b, NEW p, <<a, b, p>> \in Seq(Tasks)
        PROVE  a \in Tasks /\ b \in Tasks /\ p \in Tasks
    <3> DEFINE s == <<a, b, p>>
    <3>1. /\ s[1] = a /\ s[2] = b /\ s[3] = p
          /\ 1 \in 1 .. Len(s) /\ 2 \in 1 .. Len(s) /\ 3 \in 1 .. Len(s)
          /\ s \in Seq(Tasks)
      BY <2>1
    <3> HIDE DEF s
    <3> QED
      BY <3>1
  <2> QED
    BY <2>1
<1>4. \A a, b, p, q : <<a, b, p, q>> \in Seq(Tasks) =>
        a \in Tasks /\ b \in Tasks /\ p \in Tasks /\ q \in Tasks
  <2>1. ASSUME NEW a, NEW b, NEW p, NEW q, <<a, b, p, q>> \in Seq(Tasks)
        PROVE  a \in Tasks /\ b \in Tasks /\ p \in Tasks /\ q \in Tasks
    <3> DEFINE s == <<a, b, p, q>>
    <3>1. /\ s[1] = a /\ s[2] = b /\ s[3] = p /\ s[4] = q
          /\ 1 \in 1 .. Len(s) /\ 2 \in 1 .. Len(s) /\ 3 \in 1 .. Len(s)
          /\ 4 \in 1 .. Len(s)
          /\ s \in Seq(Tasks)
      BY <2>1
    <3> HIDE DEF s
    <3> QED
      BY <3>1
  <2> QED
    BY <2>1
<1> QED
  BY <1>1, <1>2, <1>3, <1>4

(* What ends a statement. *)
Ends(t) == t.do \in {"LET", "STORE"} \/ (t.do = "EMIT" /\ t.op \in {"POP", "RETURN_VALUE"})

(* A statement's value, and what is done with it. *)
LEMMA StatementLeads ==
  ASSUME NEW c \in Compilers, NEW t, t.do = "STATEMENT", NEW d, NEW expr, NEW name, NEW a,
         Ends(a), Readies(c, d, <<Evaluation(expr, name), a>>)
  PROVE  Advances(c, t, d)
<1> DEFINE v == Evaluation(expr, name)
<1>1. v \in Tasks /\ a \in Tasks
  BY FewAre DEF Readies
<1>2. v.do = "EXPRESSION"
  BY DEF Evaluation
<1>3. /\ Simple(t) /\ Simple(v) /\ Simple(a)
      /\ ~Boundary(v) /\ ~Boundary(a) /\ ~Leaves(a)
      /\ a.do # "CLOSURE"
  BY <1>2 DEF Simple, Boundary, Leaves, Ends
<1>4. Readies(c, d, <<v, a>>)
  OBVIOUS
<1> HIDE DEF v
<1>5. ASSUME NEW h, NEW x \in Nat, NEW y \in Nat, Does(Emitted(c), h, t, x, y)
      PROVE  PathTo(Emitted(c), h, <<v, a>>, x, y)
  <2>1. y = x
    BY <1>5 DEF Does
  <2>2. Does(Emitted(c), h, v, x, x + 1) /\ Does(Emitted(c), h, a, x + 1, x)
    BY <1>2, DoesBy DEF Ends
  <2> DEFINE z == x + 1
  <2>3. z \in Nat /\ Does(Emitted(c), h, v, x, z) /\ Does(Emitted(c), h, a, z, x)
    BY <2>2
  <2> HIDE DEF z
  <2>4. PathTo(Emitted(c), h, <<v, a>>, x, x)
    BY <1>1, <2>3, PathFew
  <2> QED
    BY <2>1, <2>4
<1>6. \A j \in 1 .. Len(<<v, a>>) : Simple(<<v, a>>[j]) /\ <<v, a>>[j].do # "CLOSURE"
  BY <1>2, <1>3
<1>7. <<v, a>> # << >> /\ ~Boundary(<<v, a>>[1])
  BY <1>3
<1>8. Chains(t, <<v, a>>)
  BY <1>3, ChainsFew
<1> DEFINE tasks == <<v, a>>
<1>9. Leads(c, t, d, tasks)
  <2>1. /\ Readies(c, d, tasks)
        /\ \A j \in 1 .. Len(tasks) : Simple(tasks[j])
        /\ \A h : \A x, y \in Nat :
             Does(Emitted(c), h, t, x, y) => PathTo(Emitted(c), h, tasks, x, y)
        /\ tasks # << >> /\ ~Boundary(tasks[1])
        /\ Chains(t, tasks)
    BY <1>4, <1>5, <1>6, <1>7, <1>8
  <2> HIDE DEF tasks
  <2> QED
    BY <1>3, <2>1, ReadiesLeads
<1> QED
  BY <1>6, <1>9 DEF Advances

(* A statement. *)
LEMMA StatementAdvances ==
  ASSUME NEW c \in Compilers, ~Failed(c), NEW t, t.do = "STATEMENT", NEW stmt \in Stmts
  PROVE  LET d == CompileStatement(c, stmt) IN Stops(d) \/ Advances(c, t, d)
<1> DEFINE d == CompileStatement(c, stmt)
<1>1. ASSUME NEW e \in Compilers, Defines(c, e, stmt.name), SymbolOf(e, stmt.name) \in Symbols,
             Asks(e, d, <<Evaluation(stmt.value, stmt.name),
                          Store(SymbolOf(e, stmt.name))>>)
      PROVE  Advances(c, t, d)
  <2> DEFINE tasks == <<Evaluation(stmt.value, stmt.name), Store(SymbolOf(e, stmt.name))>>
  <2>1. Readies(c, e, << >>) /\ ~Failed(e)
    BY <1>1, ReadiesBy DEF Readies
  <2>2. Readies(e, d, tasks)
    BY <1>1, <2>1, ReadiesBy
  <2>3. tasks \in Seq(Tasks)
    BY <2>2 DEF Readies
  <2> HIDE DEF tasks
  <2>4. Readies(c, d, tasks \o << >>)
    BY <1>1, <2>1, <2>2, ReadiesTwice
  <2>5. tasks \o << >> = tasks
    BY <2>3
  <2>6. Readies(c, d, tasks)
    BY <2>4, <2>5
  <2>7. Ends(Store(SymbolOf(e, stmt.name)))
    BY DEF Ends, Store
  <2> QED
    BY <2>6, <2>7, StatementLeads DEF tasks
<1>2. ASSUME NEW a, Asks(c, d, <<Evaluation(stmt.value, NoName), a>>), Ends(a)
      PROVE  Advances(c, t, d)
  BY <1>2, ReadiesBy, StatementLeads
<1>3. /\ Ends([do |-> "LET", name |-> stmt.name])
      /\ Ends(Emission("RETURN_VALUE", 0))
      /\ Ends(Emission("POP", 0))
  BY DEF Ends, Emission
<1>4. \/ Stops(d)
      \/ \E e \in Compilers :
           /\ Defines(c, e, stmt.name)
           /\ SymbolOf(e, stmt.name) \in Symbols
           /\ Asks(e, d, <<Evaluation(stmt.value, stmt.name),
                           Store(SymbolOf(e, stmt.name))>>)
      \/ Asks(c, d, <<Evaluation(stmt.value, NoName), [do |-> "LET", name |-> stmt.name]>>)
      \/ Asks(c, d, <<Evaluation(stmt.value, NoName), Emission("RETURN_VALUE", 0)>>)
      \/ Asks(c, d, <<Evaluation(stmt.value, NoName), Emission("POP", 0)>>)
  BY StatementIs
<1> QED
  BY <1>1, <1>2, <1>3, <1>4

(* One instruction, and nothing more to do, or the way out of an expression. *)
LEMMA EmitsAdvances ==
  ASSUME NEW c \in Compilers, NEW e \in Compilers, NEW d \in Compilers, NEW tasks,
         Readies(c, e, tasks), tasks \in {<< >>, <<LEAVE>>},
         NEW op, NEW operand \in Nat, NEW operand2 \in Nat,
         Emits(e, d, op, operand, operand2), op \notin JumpOps,
         NEW t, Simple(t), tasks = << >> \/ Leaves(t),
         \A h : \A x, y \in Nat :
           Does(Emitted(c), h, t, x, y) =>
             /\ x >= Taken(Instr(op, operand, operand2))
             /\ op \notin ReturnOps => y = HeightAfter(Instr(op, operand, operand2), x)
  PROVE  Advances(c, t, d)
<1>1. Leads(c, t, d, tasks)
  BY EmitsLeads
<1>2. \A j \in 1 .. Len(tasks) : tasks[j].do # "CLOSURE"
  BY DEF LEAVE
<1> QED
  BY <1>1, <1>2 DEF Advances

(* Storing takes one value, loading gives one. *)
LEMMA MovedBy ==
  ASSUME NEW code, NEW h, NEW t, NEW x \in Nat, NEW y \in Nat, Does(code, h, t, x, y),
         NEW op, NEW operand, NEW operand2
  PROVE  /\ t.do \in {"LET", "STORE"} /\ op \in {"SET_GLOBAL", "SET_LOCAL"} =>
              /\ x >= Taken(Instr(op, operand, operand2))
              /\ y = HeightAfter(Instr(op, operand, operand2), x)
         /\ t.do \in {"EXPRESSION", "CAPTURE", "LOAD"} /\ op \in LoadOps =>
              /\ x >= Taken(Instr(op, operand, operand2))
              /\ y = HeightAfter(Instr(op, operand, operand2), x)
<1> DEFINE i == Instr(op, operand, operand2)
<1>1. i.op = op
  BY DEF Instr
<1> HIDE DEF i
<1>2. HeightAfter(i, x) = x - Taken(i) + Given(i)
  BY DEF HeightAfter
<1>3. ASSUME t.do \in {"LET", "STORE"}, op \in {"SET_GLOBAL", "SET_LOCAL"}
      PROVE  x >= Taken(i) /\ y = HeightAfter(i, x)
  <2>1. Taken(i) = 1 /\ Given(i) = 0
    BY <1>1, <1>3, TakenBy
  <2>2. x >= 1 /\ y = x - 1
    BY <1>3 DEF Does
  <2> QED
    BY <1>2, <2>1, <2>2
<1>4. ASSUME t.do \in {"EXPRESSION", "CAPTURE", "LOAD"}, op \in LoadOps
      PROVE  x >= Taken(i) /\ y = HeightAfter(i, x)
  <2>1. Taken(i) = 0 /\ Given(i) = 1
    BY <1>1, <1>4, TakenBy
  <2>2. y = x + 1
    BY <1>4 DEF Does
  <2> QED
    BY <1>2, <2>1, <2>2
<1> QED
  BY <1>3, <1>4 DEF i

(* The name of a let. *)
LEMMA LetAdvances ==
  ASSUME NEW c \in Compilers, ~Failed(c), NEW t, t.do = "LET", NEW name \in STRING
  PROVE  LET d == CompileLet(c, name) IN Stops(d) \/ Advances(c, t, d)
<1> DEFINE d == CompileLet(c, name)
<1>1. ASSUME NEW e \in Compilers, Defines(c, e, name), SymbolOf(e, name) \in Symbols,
             Emits(e, d, StoreOp(SymbolOf(e, name)), SymbolOf(e, name).index, 0)
      PROVE  Advances(c, t, d)
  <2> DEFINE op == StoreOp(SymbolOf(e, name))
             operand == SymbolOf(e, name).index
             operand2 == 0
             tasks == << >>
  <2>1. Readies(c, e, tasks)
    BY <1>1, ReadiesBy
  <2>2. /\ op \in {"SET_GLOBAL", "SET_LOCAL"}
        /\ operand \in Nat /\ operand2 \in Nat
        /\ Emits(e, d, op, operand, operand2)
        /\ d \in Compilers
    BY <1>1, SymbolOps DEF Emits
  <2>3. op \notin JumpOps
    BY <2>2 DEF JumpOps
  <2>4. tasks \in {<< >>, <<LEAVE>>} /\ (tasks = << >> \/ Leaves(t)) /\ Simple(t)
    BY DEF Simple
  <2> HIDE DEF op, operand, operand2, tasks, d
  <2>5. \A h : \A x, y \in Nat :
          Does(Emitted(c), h, t, x, y) =>
            /\ x >= Taken(Instr(op, operand, operand2))
            /\ op \notin ReturnOps => y = HeightAfter(Instr(op, operand, operand2), x)
    BY <2>2, MovedBy
  <2> QED
    BY <2>1, <2>2, <2>3, <2>4, <2>5, EmitsAdvances
<1>2. \/ Stops(d)
      \/ \E e \in Compilers :
           /\ Defines(c, e, name)
           /\ SymbolOf(e, name) \in Symbols
           /\ Emits(e, d, StoreOp(SymbolOf(e, name)), SymbolOf(e, name).index, 0)
  BY LetIs
<1> QED
  BY <1>1, <1>2

(* A symbol stored or loaded. *)
LEMMA SymbolAdvances ==
  ASSUME NEW c \in Compilers, ~Failed(c), NEW t, NEW symbol \in Symbols
  PROVE  /\ t.do = "STORE" =>
              Stops(StoreSymbol(c, symbol)) \/ Advances(c, t, StoreSymbol(c, symbol))
         /\ t.do = "LOAD" =>
              Stops(LoadSymbol(c, symbol)) \/ Advances(c, t, LoadSymbol(c, symbol))
<1> DEFINE operand == symbol.index
           operand2 == 0
           tasks == << >>
<1>1. /\ operand \in Nat /\ operand2 \in Nat
      /\ StoreOp(symbol) \in {"SET_GLOBAL", "SET_LOCAL"}
      /\ LoadOp(symbol) \in LoadOps
  BY SymbolOps
<1>2. StoreOp(symbol) \notin JumpOps /\ LoadOp(symbol) \notin JumpOps
  BY <1>1 DEF JumpOps, LoadOps
<1>3. Readies(c, c, tasks) /\ tasks \in {<< >>, <<LEAVE>>} /\ tasks = << >>
  BY ReadiesBy
<1>4. ASSUME t.do = "STORE"
      PROVE  Stops(StoreSymbol(c, symbol)) \/ Advances(c, t, StoreSymbol(c, symbol))
  <2> DEFINE d == StoreSymbol(c, symbol)
             op == StoreOp(symbol)
  <2>1. Stops(d) \/ Emits(c, d, op, operand, operand2)
    BY SymbolMoved
  <2>2. Simple(t) /\ op \in {"SET_GLOBAL", "SET_LOCAL"} /\ op \notin JumpOps
    BY <1>1, <1>2, <1>4 DEF Simple
  <2> HIDE DEF op, operand, operand2, tasks, d
  <2>3. \A h : \A x, y \in Nat :
          Does(Emitted(c), h, t, x, y) =>
            /\ x >= Taken(Instr(op, operand, operand2))
            /\ op \notin ReturnOps => y = HeightAfter(Instr(op, operand, operand2), x)
    BY <1>4, <2>2, MovedBy
  <2>4. ASSUME Emits(c, d, op, operand, operand2)
        PROVE  Advances(c, t, d)
    <3>1. d \in Compilers
      BY <2>4 DEF Emits
    <3> QED
      BY <1>1, <1>3, <2>2, <2>3, <2>4, <3>1, EmitsAdvances
  <2> QED
    BY <2>1, <2>4 DEF d
<1>5. ASSUME t.do = "LOAD"
      PROVE  Stops(LoadSymbol(c, symbol)) \/ Advances(c, t, LoadSymbol(c, symbol))
  <2> DEFINE d == LoadSymbol(c, symbol)
             op == LoadOp(symbol)
  <2>1. Stops(d) \/ Emits(c, d, op, operand, operand2)
    BY SymbolMoved
  <2>2. Simple(t) /\ op \in LoadOps /\ op \notin JumpOps
    BY <1>1, <1>2, <1>5 DEF Simple
  <2> HIDE DEF op, operand, operand2, tasks, d
  <2>3. \A h : \A x, y \in Nat :
          Does(Emitted(c), h, t, x, y) =>
            /\ x >= Taken(Instr(op, operand, operand2))
            /\ op \notin ReturnOps => y = HeightAfter(Instr(op, operand, operand2), x)
    BY <1>5, <2>2, MovedBy
  <2>4. ASSUME Emits(c, d, op, operand, operand2)
        PROVE  Advances(c, t, d)
    <3>1. d \in Compilers
      BY <2>4 DEF Emits
    <3> QED
      BY <1>1, <1>3, <2>2, <2>3, <2>4, <3>1, EmitsAdvances
  <2> QED
    BY <2>1, <2>4 DEF d
<1> QED
  BY <1>4, <1>5

(* An instruction of an operator, of a call, or at the end of a statement. *)
LEMMA EmitAdvances ==
  ASSUME NEW c \in Compilers, ~Failed(c), NEW t \in Tasks, t.do = "EMIT"
  PROVE  LET d == Emit(c, t.op, t.operand, 0) IN
         \/ Stops(d)
         \/ t.op \in JumpOps
         \/ Advances(c, t, d)
<1> DEFINE op == t.op
           operand == t.operand
           operand2 == 0
           tasks == << >>
           d == Emit(c, op, operand, operand2)
<1>1. op \in OpCodes /\ operand \in Nat /\ operand2 \in Nat
  BY TaskKinds
<1>2. Stops(d) \/ Emits(c, d, op, operand, operand2)
  BY <1>1, EmitEmits
<1>3. Simple(t)
  BY DEF Simple
<1>4. Readies(c, c, tasks) /\ tasks \in {<< >>, <<LEAVE>>} /\ tasks = << >>
  BY ReadiesBy
<1>5. \A h : \A x, y \in Nat :
        Does(Emitted(c), h, t, x, y) =>
          /\ x >= Taken(Instr(op, operand, operand2))
          /\ op \notin ReturnOps => y = HeightAfter(Instr(op, operand, operand2), x)
  BY DEF Does, Emission1
<1> HIDE DEF op, operand, operand2, tasks, d
<1>6. ASSUME Emits(c, d, op, operand, operand2), op \notin JumpOps
      PROVE  Advances(c, t, d)
  <2>1. d \in Compilers
    BY <1>6 DEF Emits
  <2> QED
    BY <1>1, <1>3, <1>4, <1>5, <1>6, <2>1, EmitsAdvances
<1> QED
  BY <1>2, <1>6 DEF d, op, operand, operand2

(* Nothing more to do. *)
LEMMA QuietAdvances ==
  ASSUME NEW c \in Compilers, NEW t, t.do \in {"LEAVE", "DEFINE"}, NEW d,
         Readies(c, d, << >>)
  PROVE  Advances(c, t, d)
<1> DEFINE tasks == << >>
<1>1. ASSUME NEW h, NEW x \in Nat, NEW y \in Nat, Does(Emitted(c), h, t, x, y)
      PROVE  PathTo(Emitted(c), h, tasks, x, y)
  <2>1. y = x
    BY <1>1 DEF Does
  <2> QED
    BY <2>1, PathNone
<1>2. /\ Simple(t)
      /\ tasks = << >> /\ (Leaves(t) \/ Boundary(t))
      /\ \A j \in 1 .. Len(tasks) : Simple(tasks[j]) /\ tasks[j].do # "CLOSURE"
  BY DEF Simple, Leaves, Boundary
<1>3. Chains(t, tasks) /\ Readies(c, d, tasks)
  BY ChainsFew
<1> HIDE DEF tasks
<1>4. Leads(c, t, d, tasks)
  BY <1>1, <1>2, <1>3, ReadiesLeads
<1> QED
  BY <1>2, <1>4 DEF Advances

(* The way out of an expression, and a parameter. *)
LEMMA LeaveAdvances ==
  ASSUME NEW c \in Compilers, ~Failed(c), NEW t
  PROVE  /\ t.do = "LEAVE" => Advances(c, t, LeaveExpression(c))
         /\ \A name \in STRING : t.do = "DEFINE" =>
              Stops(DefineSymbol(c, name)) \/ Advances(c, t, DefineSymbol(c, name))
<1>1. t.do = "LEAVE" => Advances(c, t, LeaveExpression(c))
  BY ExpressionLeft, ReadiesBy, QuietAdvances
<1>2. ASSUME NEW name \in STRING, t.do = "DEFINE"
      PROVE  Stops(DefineSymbol(c, name)) \/ Advances(c, t, DefineSymbol(c, name))
  BY <1>2, DefinedIs, ReadiesBy, QuietAdvances
<1> QED
  BY <1>1, <1>2

(* What a name was found to be is loaded, or captured. *)
LEMMA ResolvesLeads ==
  ASSUME NEW c \in Compilers, NEW e \in Compilers, NEW tasks, Readies(c, e, tasks),
         tasks \in {<< >>, <<LEAVE>>}, NEW t, t.do \in {"EXPRESSION", "CAPTURE"},
         NEW d, NEW name, NEW l, NEW symbol \in Symbols, Resolves(e, d, name, l, symbol)
  PROVE  Advances(c, t, d)
<1>1. Simple(t) /\ Leaves(t)
  BY DEF Simple, Leaves
<1>2. CASE Emits(e, d, LoadOp(symbol), symbol.index, 0)
  <2> DEFINE op == LoadOp(symbol)
             operand == symbol.index
             operand2 == 0
  <2>1. /\ op \in LoadOps
        /\ operand \in Nat /\ operand2 \in Nat
        /\ Emits(e, d, op, operand, operand2)
        /\ d \in Compilers
    BY <1>2, SymbolOps DEF Emits
  <2>2. op \notin JumpOps
    BY <2>1 DEF JumpOps, LoadOps
  <2> HIDE DEF op, operand, operand2
  <2>3. \A h : \A x, y \in Nat :
          Does(Emitted(c), h, t, x, y) =>
            /\ x >= Taken(Instr(op, operand, operand2))
            /\ op \notin ReturnOps => y = HeightAfter(Instr(op, operand, operand2), x)
    BY <2>1, MovedBy
  <2> QED
    BY <1>1, <2>1, <2>2, <2>3, EmitsAdvances
<1>3. CASE Asks(e, d, <<CAPTURE(name, l + 1, symbol)>>)
  <2> DEFINE a == CAPTURE(name, l + 1, symbol)
             all == <<a>> \o tasks
  <2>1. ~Failed(e) /\ <<a>> \in Seq(Tasks)
    BY <1>3 DEF Readies, Asks
  <2>2. Readies(e, d, <<a>>)
    BY <1>3, <2>1, ReadiesBy
  <2>3. a \in Tasks /\ a.do = "CAPTURE"
    BY <2>1, FewAre DEF CAPTURE
  <2>4. tasks \in Seq(Tasks)
    BY DEF Readies
  <2> HIDE DEF a
  <2>5. Readies(c, d, all)
    BY <2>2, ReadiesTwice
  <2>6. LEAVE \in Tasks
    BY TasksAre DEF LEAVE
  <2>7. \/ tasks = << >> /\ all = <<a>>
        \/ tasks = <<LEAVE>> /\ all = <<a, LEAVE>>
    <3>1. <<a>> \o << >> = <<a>>
      BY <2>1
    <3>2. <<a>> \o <<LEAVE>> = <<a, LEAVE>>
      BY <2>3, <2>6, TaskLists
    <3> QED
      BY <3>1, <3>2
  <2>8. Simple(a) /\ Leaves(a) /\ ~Boundary(a) /\ Simple(LEAVE) /\ ~Boundary(LEAVE)
    BY <2>3 DEF Simple, Leaves, Boundary, LEAVE
  <2>9. /\ \A j \in 1 .. Len(all) : Simple(all[j]) /\ all[j].do # "CLOSURE"
        /\ all # << >> /\ ~Boundary(all[1])
    BY <2>3, <2>7, <2>8 DEF LEAVE
  <2>10. Chains(t, all)
    BY <1>1, <2>7, <2>8, ChainsFew
  <2>11. ASSUME NEW h, NEW x \in Nat, NEW y \in Nat, Does(Emitted(c), h, t, x, y)
         PROVE  PathTo(Emitted(c), h, all, x, y)
    <3>1. y = x + 1
      BY <2>11 DEF Does
    <3>2. Does(Emitted(c), h, a, x, y) /\ Does(Emitted(c), h, LEAVE, y, y)
      BY <2>3, <3>1, DoesBy DEF LEAVE
    <3>3. PathTo(Emitted(c), h, <<a>>, x, y)
      BY <3>2, PathOne
    <3>4. PathTo(Emitted(c), h, <<a, LEAVE>>, x, y)
      BY <2>3, <2>6, <3>2, PathFew
    <3> QED
      BY <2>7, <3>3, <3>4
  <2> HIDE DEF all
  <2>12. Leads(c, t, d, all)
    BY <1>1, <2>5, <2>9, <2>10, <2>11, ReadiesLeads
  <2> QED
    BY <2>9, <2>12 DEF Advances
<1> QED
  BY <1>2, <1>3 DEF Resolves

(* A function captures what the level around it knows. *)
LEMMA CaptureAdvances ==
  ASSUME NEW c \in Compilers, ~Failed(c), NEW t, t.do = "CAPTURE", NEW name \in STRING,
         NEW symbol \in Symbols, NEW l \in 1 .. Level(c)
  PROVE  LET d == Capture(c, name, l, symbol) IN Stops(d) \/ Advances(c, t, d)
<1> DEFINE d == Capture(c, name, l, symbol)
           none == << >>
           s == FreeSymbol(c, l)
<1>1. s \in Symbols
  <2>1. Len(c.scopes[l].free_symbols) \in Nat
    BY OpenScope
  <2> QED
    BY <2>1 DEF FreeSymbol, Symbols
<1>2. ASSUME NEW e \in Compilers, Captures(c, e, l, name, symbol),
             Resolves(e, d, name, l, s)
      PROVE  Advances(c, t, d)
  <2>1. Readies(c, e, none) /\ none \in {<< >>, <<LEAVE>>}
    BY <1>2, ReadiesBy
  <2> HIDE DEF none, s, d
  <2> QED
    BY <1>1, <1>2, <2>1, ResolvesLeads
<1>3. \/ Stops(d)
      \/ \E e \in Compilers : Captures(c, e, l, name, symbol) /\ Resolves(e, d, name, l, s)
  BY CaptureIs
<1> QED
  BY <1>2, <1>3

(* The arguments of a call, and the call. *)
LEMMA ArgumentsAdvance ==
  ASSUME NEW c \in Compilers, ~Failed(c), NEW t, t.do = "ARGUMENTS",
         NEW exprs \in Seq(Exprs)
  PROVE  LET d == CompileArguments(c, exprs) IN Stops(d) \/ Advances(c, t, d)
<1> DEFINE d == CompileArguments(c, exprs)
           first == Expressions(exprs)
           n == Len(exprs)
           a == Emission("CALL", n)
           tasks == Append(first, a)
<1>1. Stops(d) \/ Asks(c, d, tasks)
  BY ArgumentsAre
<1>2. /\ n \in Nat
      /\ first \in Seq(Tasks)
      /\ Len(first) = n
      /\ \A k \in 1 .. n : first[k].do = "EXPRESSION"
  BY ExpressionTasks
<1>3. a \in Tasks /\ a.do = "EMIT" /\ a.op = "CALL" /\ a.operand = n
  <2>1. "CALL" \in OpCodes
    BY DEF OpCodes
  <2> QED
    BY <1>2, <2>1, TasksAre DEF Emission
<1> HIDE DEF d, first, n, a
<1>4. /\ Len(tasks) = n + 1
      /\ \A k \in 1 .. n : tasks[k] = first[k]
      /\ tasks[n + 1] = a
      /\ tasks = first \o <<a>>
      /\ <<a>> \in Seq(Tasks)
  BY <1>2, <1>3
<1>5. Simple(t) /\ Leaves(t)
  BY DEF Simple, Leaves
<1>6. ASSUME NEW j \in 1 .. n + 1
      PROVE  tasks[j].do \in {"EXPRESSION", "EMIT"}
  <2>1. j \in 1 .. n \/ j = n + 1
    BY <1>2
  <2> QED
    BY <1>2, <1>3, <1>4, <2>1
<1> HIDE DEF tasks
<1>7. \A j \in 1 .. Len(tasks) :
        Simple(tasks[j]) /\ tasks[j].do # "CLOSURE" /\ ~Boundary(tasks[j])
  BY <1>4, <1>6 DEF Simple, Boundary
<1>8. tasks # << >> /\ ~Boundary(tasks[1])
  <2>1. 1 \in 1 .. Len(tasks) /\ Len(tasks) # 0
    BY <1>2, <1>4
  <2> QED
    BY <1>7, <2>1
<1>9. Chains(t, tasks)
  <2>1. \A j \in 1 .. Len(tasks) : j < Len(tasks) => j + 1 \in 1 .. Len(tasks)
    BY <1>2, <1>4
  <2> QED
    BY <1>5, <1>7, <2>1 DEF Chains
<1>10. ASSUME NEW h, NEW x \in Nat, NEW y \in Nat, Does(Emitted(c), h, t, x, y)
       PROVE  PathTo(Emitted(c), h, tasks, x, y)
  <2>1. x >= 1 /\ y = x
    BY <1>10 DEF Does
  <2>2. \A k \in 1 .. Len(first) : \A m \in Nat : Does(Emitted(c), h, first[k], m, m + 1)
    BY <1>2, DoesBy
  <2>3. PathTo(Emitted(c), h, first, x, x + Len(first))
    BY <1>2, <2>2, PathClimbs
  <2> DEFINE m == x - 1
             z == x + n
  <2>4. m \in Nat /\ m + 1 = x /\ (m + 1) + n = z /\ z \in Nat
    BY <1>2, <2>1
  <2>5. Does(Emitted(c), h, a, (m + 1) + a.operand, m + 1)
    <3> HIDE DEF m
    <3> QED
      BY <1>2, <1>3, <2>4, DoesBy
  <2>6. Does(Emitted(c), h, a, z, x)
    BY <1>3, <2>4, <2>5
  <2>7. PathTo(Emitted(c), h, first, x, z)
    BY <1>2, <2>3
  <2> HIDE DEF z, m
  <2>8. PathTo(Emitted(c), h, <<a>>, z, x)
    BY <2>4, <2>6, PathOne
  <2>9. PathTo(Emitted(c), h, first \o <<a>>, x, x)
    BY <1>2, <1>4, <2>7, <2>8, PathJoin
  <2> QED
    BY <1>4, <2>1, <2>9
<1>11. ASSUME Asks(c, d, tasks)
       PROVE  Advances(c, t, d)
  <2>1. Readies(c, d, tasks)
    BY <1>11, ReadiesBy
  <2>2. Leads(c, t, d, tasks)
    BY <1>5, <1>7, <1>8, <1>9, <1>10, <2>1, ReadiesLeads
  <2> QED
    BY <1>7, <2>2 DEF Advances
<1> QED
  BY <1>1, <1>11 DEF d

(* The statements of a branch, and its end. *)
LEMMA BranchTasks ==
  ASSUME NEW stmts \in Seq(Stmts), NEW a \in Tasks, a.do \in {"ALTERNATIVE", "END_IF"},
         NEW t, Leaves(t)
  PROVE  LET tasks == Append(Statements(stmts), a) IN
         /\ tasks \in Seq(Tasks)
         /\ \A j \in 1 .. Len(tasks) : tasks[j].do # "CLOSURE"
         /\ Chains(t, tasks)
         /\ Awaited(tasks) = Awaited(<<a>>)
         /\ \A code, h : \A x, z \in Nat :
              Does(code, h, a, x, z) => PathTo(code, h, tasks, x, z)
<1> DEFINE first == Statements(stmts)
           n == Len(first)
           tasks == Append(first, a)
<1>1. /\ n \in Nat
      /\ first \in Seq(Tasks)
      /\ \A k \in 1 .. n : first[k].do = "STATEMENT"
  <2>1. /\ first \in Seq(Tasks)
        /\ Len(first) = Len(stmts)
        /\ \A k \in 1 .. Len(stmts) : first[k].do = "STATEMENT"
    BY StatementTasks
  <2> HIDE DEF first
  <2> QED
    BY <2>1
<1> HIDE DEF first
<1>2. /\ Len(tasks) = n + 1
      /\ \A k \in 1 .. n : tasks[k] = first[k]
      /\ tasks[n + 1] = a
      /\ tasks = first \o <<a>>
      /\ <<a>> \in Seq(Tasks)
      /\ tasks \in Seq(Tasks)
  BY <1>1
<1> HIDE DEF tasks
<1>3. \A j \in 1 .. n + 1 : j \in 1 .. n \/ j = n + 1
  BY <1>1
<1>4. \A j \in 1 .. Len(tasks) : tasks[j].do # "CLOSURE"
  BY <1>1, <1>2, <1>3
<1>5. Chains(t, tasks)
  <2>1. \A j \in 1 .. n : ~Leaves(tasks[j])
    BY <1>1, <1>2 DEF Leaves
  <2>2. ~(n + 1 < n + 1)
    BY <1>1
  <2> QED
    BY <1>2, <1>3, <2>1, <2>2 DEF Chains
<1>6. Awaited(tasks) = Awaited(<<a>>)
  <2>1. \A j \in 1 .. Len(first) : Simple(first[j])
    BY <1>1 DEF Simple
  <2>2. Awaited(first) = {}
    BY <2>1, SimpleAwaits
  <2>3. Awaited(first \o <<a>>) = Awaited(first) \union Awaited(<<a>>)
    BY <1>1, <1>2, AwaitedIs, ZenonT(30)
  <2> QED
    BY <1>2, <2>2, <2>3
<1>7. ASSUME NEW code, NEW h, NEW x \in Nat, NEW z \in Nat, Does(code, h, a, x, z)
      PROVE  PathTo(code, h, tasks, x, z)
  <2>1. \A k \in 1 .. Len(first) : Does(code, h, first[k], x, x)
    BY <1>1, DoesBy
  <2>2. PathTo(code, h, first, x, x)
    BY <1>1, <2>1, PathLevel
  <2>3. PathTo(code, h, <<a>>, x, z)
    BY <1>7, PathOne
  <2>4. PathTo(code, h, first \o <<a>>, x, z)
    BY <1>1, <1>2, <2>2, <2>3, PathJoin
  <2> QED
    BY <1>2, <2>4
<1> QED
  BY <1>2, <1>4, <1>5, <1>6, <1>7 DEF tasks, first

(* The jumps that wait for the end of a branch. *)
LEMMA AwaitedBy ==
  /\ \A t, p : t.do = "ALTERNATIVE" /\ t.jump_if_false = p /\ p \in Nat =>
       Awaited(<<t>>) = {p + 1}
  /\ \A t, p : t.do = "END_IF" /\ t.jump_end = p /\ p \in Nat => Awaited(<<t>>) = {p + 1}
<1>1. ASSUME NEW t, NEW p, t.do = "ALTERNATIVE", t.jump_if_false = p, p \in Nat
      PROVE  Awaited(<<t>>) = {p + 1}
  <2>1. \A k : Awaits(t, k) <=> k = p + 1
    BY <1>1 DEF Awaits
  <2> QED
    BY <1>1, <2>1, AwaitedIs
<1>2. ASSUME NEW t, NEW p, t.do = "END_IF", t.jump_end = p, p \in Nat
      PROVE  Awaited(<<t>>) = {p + 1}
  <2>1. \A k : Awaits(t, k) <=> k = p + 1
    BY <1>2 DEF Awaits
  <2> QED
    BY <1>2, <2>1, AwaitedIs
<1> QED
  BY <1>1, <1>2

(* The condition of an if is compiled: a jump around its consequence waits. *)
LEMMA ConsequenceAdvances ==
  ASSUME NEW c \in Compilers, ~Failed(c), NEW t, t.do = "CONSEQUENCE",
         NEW yes \in Seq(Stmts), NEW no \in Seq(Stmts)
  PROVE  LET d == CompileConsequence(c, yes, no) IN Stops(d) \/ Advances(c, t, d)
<1> DEFINE d == CompileConsequence(c, yes, no)
           p == Len(Emitted(c))
           a == ALTERNATIVE(no, p)
           tasks == Append(Statements(yes), a)
<1>1. /\ Stops(d) \/ \E e \in Compilers : /\ Emits(c, e, "JUMP_NOT_TRUTHY", Unpatched, 0)
                                          /\ Asks(e, d, tasks)
  BY ConsequenceIs
<1>2. SUFFICES ASSUME NEW e \in Compilers, Emits(c, e, "JUMP_NOT_TRUTHY", Unpatched, 0),
                      Asks(e, d, tasks)
               PROVE  Advances(c, t, d)
  BY <1>1
<1>3. p \in Nat
  BY CurrentScope
<1>4. a \in Tasks /\ a.do = "ALTERNATIVE" /\ a.jump_if_false = p
  BY <1>3, TasksAre DEF ALTERNATIVE
<1>5. Simple(t) /\ Leaves(t) /\ Awaited(<<t>>) = {}
  BY SimpleAwaits DEF Simple, Leaves
<1> DEFINE op == "JUMP_NOT_TRUTHY"
           none == 0
<1>6. /\ Emits(c, e, op, Unpatched, none)
      /\ Unpatched \in Nat /\ none \in Nat
      /\ op \in JumpOps
      /\ op = "JUMP_NOT_TRUTHY"
  BY <1>2 DEF Unpatched, JumpOps
<1> HIDE DEF op, none, p, a, d
<1>7. /\ tasks \in Seq(Tasks)
      /\ \A j \in 1 .. Len(tasks) : tasks[j].do # "CLOSURE"
      /\ Chains(t, tasks)
      /\ Awaited(tasks) = Awaited(<<a>>)
      /\ \A code, h : \A x, z \in Nat :
           Does(code, h, a, x, z) => PathTo(code, h, tasks, x, z)
  BY <1>4, <1>5, BranchTasks
<1>8. Awaited(tasks) = {p + 1}
  BY <1>3, <1>4, <1>7, AwaitedBy
<1>9. Asks(e, d, tasks) /\ Emitted(d) = Emitted(e)
  BY <1>2 DEF Asks, SameCode
<1> HIDE DEF tasks
<1>10. Follows(Emitted(c), t, Emitted(e), tasks)
  <2>1. SUFFICES ASSUME NEW h, NEW V, NEW y, y \in Nat, Top(Emitted(c), h) \in Nat,
                        Fit(Emitted(c), h, Awaited(<<t>>) \union V),
                        Does(Emitted(c), h, t, Top(Emitted(c), h), y)
                 PROVE  /\ \E g : /\ Fit(Emitted(e), g, Awaited(tasks) \union V)
                                  /\ JumpsKept(Emitted(c), h, Emitted(e), g)
                                  /\ PathTo(Emitted(e), g, tasks, Top(Emitted(e), g), y)
                        /\ EndsWell(Emitted(e), Awaited(tasks) \union V)
    BY DEF Follows
  <2> DEFINE x == Top(Emitted(c), h)
             z == x - 1
             W == {p + 1} \union V
             i == Instr(op, Unpatched, none)
  <2>2. x >= 1 /\ y = x /\ x \in Nat
    BY <2>1 DEF Does
  <2>3. z \in Nat /\ x = z + 1
    BY <2>2
  <2>4. i.op = op /\ Taken(i) = 1 /\ Given(i) = 0
    BY <1>6, TakenBy DEF Instr
  <2>5. CanFollow(Emitted(c), h, W, i, z)
    <3>1. z = HeightAfter(i, x)
      BY <2>2, <2>4 DEF HeightAfter
    <3>2. x >= Taken(i) /\ p + 1 \in W
      BY <2>2, <2>4
    <3> QED
      BY <2>3, <3>1, <3>2 DEF CanFollow, p
  <2>6. Fit(Emitted(c), h, V) /\ V \subseteq W
    BY <1>5, <2>1
  <2> HIDE DEF W, z
  <2>7. /\ ~TargetsEnd(Emitted(e), W)
        /\ Len(Emitted(e)) = p + 1
        /\ Emitted(e)[p + 1] = i
        /\ \E g : /\ Fit(Emitted(e), g, W)
                  /\ Top(Emitted(e), g) = z
                  /\ g[p + 1] = x
                  /\ JumpsKept(Emitted(c), h, Emitted(e), g)
    BY <1>6, <2>3, <2>5, <2>6, EmitFits DEF p
  <2>8. PICK g : /\ Fit(Emitted(e), g, W)
                 /\ Top(Emitted(e), g) = z
                 /\ g[p + 1] = x
                 /\ JumpsKept(Emitted(c), h, Emitted(e), g)
    BY <2>7
  <2>9. Waits(Emitted(e), g, p + 1, op, z)
    <3>1. p + 1 \in 1 .. Len(Emitted(e))
      BY <1>3, <2>7
    <3> QED
      BY <2>3, <2>4, <2>7, <2>8, <3>1 DEF Waits
  <2>10. Does(Emitted(e), g, a, z, x)
    BY <1>4, <1>6, <2>3, <2>9 DEF Does
  <2>11. PathTo(Emitted(e), g, tasks, Top(Emitted(e), g), y)
    BY <1>7, <2>2, <2>3, <2>8, <2>10
  <2> QED
    BY <1>8, <2>7, <2>8, <2>11 DEF W, EndsWell
<1>11. Leads(c, t, d, tasks)
  <2>1. Level(e) = Level(c) /\ SameBelow(c, e) /\ SameBytecode(c, e) /\ Todo(e) = Todo(c)
    BY <1>6 DEF Emits, SameBelow
  <2>2. /\ d \in Compilers /\ ~Failed(d)
        /\ SameBelow(e, d) /\ SameBytecode(e, d)
        /\ Todo(d) = tasks \o Todo(e)
    BY <1>9 DEF Asks
  <2>3. Follows(Emitted(c), t, Emitted(d), tasks)
    BY <1>9, <1>10
  <2> QED
    BY <1>7, <2>1, <2>2, <2>3 DEF Leads, SameBelow, SameBytecode
<1> QED
  BY <1>7, <1>11 DEF Advances

(* Jumps that are kept twice are kept. *)
LEMMA JumpsKeptTwice ==
  ASSUME NEW code, NEW h, NEW new, NEW g, JumpsKept(code, h, new, g),
         NEW newer, NEW f, JumpsKept(new, g, newer, f)
  PROVE  JumpsKept(code, h, newer, f)
<1>1. ASSUME NEW k \in 1 .. Len(code), code[k].op \in JumpOps
      PROVE  k <= Len(newer) /\ newer[k].op = code[k].op /\ f[k] = h[k]
  <2>1. k <= Len(new) /\ new[k].op = code[k].op /\ g[k] = h[k]
    BY <1>1 DEF JumpsKept
  <2>2. Len(new) \in Nat
    BY DEF JumpsKept
  <2>3. k \in 1 .. Len(new)
    BY <2>1, <2>2
  <2>4. k <= Len(newer) /\ newer[k].op = new[k].op /\ f[k] = g[k]
    BY <1>1, <2>1, <2>3 DEF JumpsKept
  <2> QED
    BY <2>1, <2>4
<1> QED
  BY <1>1 DEF JumpsKept

(* A jump that waits still waits where it was kept. *)
LEMMA WaitsKept ==
  ASSUME NEW code, NEW h, NEW new, NEW g, JumpsKept(code, h, new, g), NEW k,
         NEW op \in JumpOps, NEW x, Waits(code, h, k, op, x)
  PROVE  Waits(new, g, k, op, x)
<1>1. k \in 1 .. Len(code) /\ code[k].op = op /\ h[k] = x + 1
  BY DEF Waits
<1>2. Len(new) \in Nat /\ k <= Len(new) /\ new[k].op = op /\ g[k] = h[k]
  BY <1>1 DEF JumpsKept
<1>3. k \in 1 .. Len(new)
  BY <1>1, <1>2
<1> QED
  BY <1>1, <1>2, <1>3 DEF Waits

(* The jump at position p gets its target. *)
LEMMA PatchesFit ==
  ASSUME NEW c \in Compilers, NEW d, NEW p \in Nat, Patches(c, d, p), NEW h, NEW W,
         Fit(Emitted(c), h, W), NEW x \in Nat, NEW op \in JumpOps,
         Waits(Emitted(c), h, p + 1, op, x),
         Top(Emitted(c), h) = IF op = "JUMP" THEN x + 1 ELSE x,
         NEW V, W \subseteq V \union {p + 1}
  PROVE  /\ Fit(Emitted(d), h, V)
         /\ Top(Emitted(d), h) = Top(Emitted(c), h)
         /\ JumpsKept(Emitted(c), h, Emitted(d), h)
<1> DEFINE code == Emitted(c)
           new == Emitted(d)
           n == Len(code)
           q == p + 1
<1>1. /\ d \in Compilers
      /\ Len(new) = n
      /\ \A k \in 1 .. n : k # q => new[k] = code[k]
      /\ new[q] = [code[q] EXCEPT !.operand = n]
  BY DEF Patches
<1>2. /\ code \in Seq(Instructions) /\ new \in Seq(Instructions) /\ n \in Nat
      /\ \A k \in 1 .. n : code[k] \in Instructions
  BY <1>1, CurrentScope, CodeIs
<1>3. q \in 1 .. n /\ code[q].op = op /\ h[q] = x + 1
  BY DEF Waits
<1>4. Fit(code, h, W) /\ W \subseteq V \union {q}
  OBVIOUS
<1>5. Top(code, h) = HeightAfter(code[q], h[q])
  <2>1. HeightAfter(code[q], h[q]) = (x + 1) - Taken(code[q]) + Given(code[q])
    BY <1>3 DEF HeightAfter
  <2>2. CASE op = "JUMP"
    <3>1. Taken(code[q]) = 0 /\ Given(code[q]) = 0
      BY <1>3, <2>2, TakenBy
    <3> QED
      BY <2>1, <2>2, <3>1
  <2>3. CASE op = "JUMP_NOT_TRUTHY"
    <3>1. Taken(code[q]) = 1 /\ Given(code[q]) = 0
      BY <1>3, <2>3, TakenBy
    <3> QED
      BY <2>1, <2>3, <3>1
  <2> QED
    BY <2>2, <2>3 DEF JumpOps
<1> HIDE DEF code, new, q
<1>6. Fit(new, h, V)
  <2>1. Patched(code, h, new, q)
    BY <1>1, <1>3, <1>5 DEF Patched, n
  <2> QED
    BY <1>2, <1>4, <2>1, FitPatch
<1>7. Top(new, h) = Top(code, h)
  BY <1>1 DEF Top, n
<1>8. JumpsKept(code, h, new, h)
  <2>1. code[q] \in Instructions /\ new[q].op = code[q].op
    <3>1. code[q] \in Instructions
      BY <1>2, <1>3
    <3> QED
      BY <1>1, <3>1 DEF Instructions
  <2>2. \A k \in 1 .. n : new[k].op = code[k].op
    BY <1>1, <2>1
  <2>3. \A k \in 1 .. n : k <= n
    BY <1>2
  <2> QED
    BY <1>1, <1>2, <2>2, <2>3 DEF JumpsKept, n
<1> QED
  BY <1>6, <1>7, <1>8 DEF code, new

(* The second branch of an if is compiled: the jump at the end of the first goes
   here. *)
LEMMA EndIfAdvances ==
  ASSUME NEW c \in Compilers, ~Failed(c), NEW t, t.do = "END_IF", NEW p,
         p = t.jump_end, JumpAt(c, p, "JUMP")
  PROVE  LET d == EndIf(c, p) IN Stops(d) \/ Advances(c, t, d)
<1> DEFINE d == EndIf(c, p)
           none == << >>
<1>1. Stops(d) \/ \E e \in Compilers : Branch(c, e) /\ Patches(e, d, p)
  BY EndIfIs
<1>2. SUFFICES ASSUME NEW e \in Compilers, Branch(c, e), Patches(e, d, p)
               PROVE  Advances(c, t, d)
  BY <1>1
<1>3. p \in Nat /\ "JUMP" \in JumpOps
  BY DEF JumpAt, JumpOps
<1>4. Moves(c, e, << >>) /\ Moves(e, d, << >>)
  <2>1. Moves(c, e, << >>)
    BY <1>2, BranchMoves
  <2> QED
    BY <1>2, <1>3, <2>1, PatchesMoves DEF Moves
<1>5. Moves(c, d, << >> \o << >>)
  BY <1>4, MovesTwice
<1>6. Awaited(<<t>>) = {p + 1}
  BY <1>3, AwaitedBy
<1>7. Awaited(none) = {} /\ Leaves(t) /\ Boundary(t)
  BY AwaitedIs DEF Leaves, Boundary
<1> HIDE DEF d
<1>8. Follows(Emitted(c), t, Emitted(d), none)
  <2>1. SUFFICES ASSUME NEW h, NEW V, NEW y, y \in Nat, Top(Emitted(c), h) \in Nat,
                        Fit(Emitted(c), h, Awaited(<<t>>) \union V),
                        Does(Emitted(c), h, t, Top(Emitted(c), h), y),
                        Boundary(t) => EndsWell(Emitted(c), Awaited(<<t>>) \union V)
                 PROVE  \E g : /\ Fit(Emitted(d), g, Awaited(none) \union V)
                               /\ JumpsKept(Emitted(c), h, Emitted(d), g)
                               /\ PathTo(Emitted(d), g, none, Top(Emitted(d), g), y)
    BY <1>7 DEF Follows
  <2> DEFINE x == Top(Emitted(c), h)
             W == {p + 1} \union V
  <2>2. x \in Nat /\ Waits(Emitted(c), h, p + 1, "JUMP", x) /\ y = x + 1
    BY <2>1 DEF Does
  <2>3. Fit(Emitted(c), h, W) /\ EndsWell(Emitted(c), W)
    BY <1>6, <1>7, <2>1
  <2>4. W \subseteq V \union {p + 1}
    OBVIOUS
  <2> HIDE DEF W
  <2>5. PICK g : /\ Fit(Emitted(e), g, W)
                 /\ Top(Emitted(e), g) = x + 1
                 /\ JumpsKept(Emitted(c), h, Emitted(e), g)
    BY <1>2, <2>3, BranchFits
  <2> DEFINE op == "JUMP"
  <2>6. op \in JumpOps /\ op = "JUMP" /\ Waits(Emitted(c), h, p + 1, op, x)
    BY <1>3, <2>2
  <2> HIDE DEF op, x
  <2>7. Waits(Emitted(e), g, p + 1, op, x)
    BY <2>5, <2>6, WaitsKept
  <2>8. Top(Emitted(e), g) = IF op = "JUMP" THEN x + 1 ELSE x
    BY <2>5, <2>6
  <2>9. /\ Fit(Emitted(d), g, V)
        /\ Top(Emitted(d), g) = Top(Emitted(e), g)
        /\ JumpsKept(Emitted(e), g, Emitted(d), g)
    BY <1>2, <1>3, <2>2, <2>4, <2>5, <2>6, <2>7, <2>8, PatchesFit
  <2>10. JumpsKept(Emitted(c), h, Emitted(d), g)
    BY <2>5, <2>9, JumpsKeptTwice
  <2>11. PathTo(Emitted(d), g, none, y, y)
    BY <2>1, PathNone
  <2> QED
    BY <1>7, <2>2, <2>5, <2>9, <2>10, <2>11
<1>9. Leads(c, t, d, none)
  <2>1. none \in Seq(Tasks) /\ << >> \o << >> = none
    OBVIOUS
  <2>2. Chains(t, none)
    BY ChainsFew
  <2> QED
    BY <1>5, <1>8, <2>1, <2>2 DEF Leads, Moves
<1>10. \A j \in 1 .. Len(none) : none[j].do # "CLOSURE"
  OBVIOUS
<1> QED
  BY <1>9, <1>10 DEF Advances

(* The first branch of an if is compiled: a jump around the second waits, and the
   one around the first goes here. *)
LEMMA AlternativeAdvances ==
  ASSUME NEW c \in Compilers, ~Failed(c), NEW t, t.do = "ALTERNATIVE", NEW p,
         p = t.jump_if_false, JumpAt(c, p, "JUMP_NOT_TRUTHY"), NEW stmts \in Seq(Stmts)
  PROVE  LET d == CompileAlternative(c, stmts, p) IN Stops(d) \/ Advances(c, t, d)
<1> DEFINE d == CompileAlternative(c, stmts, p)
<1>1. \/ Stops(d)
      \/ \E e, f, r \in Compilers :
           /\ Branch(c, e)
           /\ Emits(e, f, "JUMP", Unpatched, 0)
           /\ Patches(f, r, p)
           /\ Asks(r, d, Append(Statements(stmts), END_IF(Len(Emitted(e)))))
  BY AlternativeIs
<1>2. SUFFICES ASSUME NEW e \in Compilers, NEW f \in Compilers, NEW r \in Compilers,
                      Branch(c, e), Emits(e, f, "JUMP", Unpatched, 0), Patches(f, r, p),
                      Asks(r, d, Append(Statements(stmts), END_IF(Len(Emitted(e)))))
               PROVE  Advances(c, t, d)
  BY <1>1
<1> DEFINE q == Len(Emitted(e))
           a == END_IF(q)
           tasks == Append(Statements(stmts), a)
           op == "JUMP"
           notTruthy == "JUMP_NOT_TRUTHY"
           zero == 0
<1>3. /\ p \in Nat /\ q \in Nat /\ zero \in Nat /\ Unpatched \in Nat
      /\ op \in JumpOps /\ op = "JUMP"
      /\ notTruthy \in JumpOps /\ notTruthy = "JUMP_NOT_TRUTHY"
  BY CurrentScope DEF JumpAt, JumpOps, Unpatched
<1>4. a \in Tasks /\ a.do = "END_IF" /\ a.jump_end = q
  BY <1>3, TasksAre DEF END_IF
<1>5. Emits(e, f, op, Unpatched, zero) /\ Asks(r, d, tasks)
  BY <1>2
<1>6. Moves(c, e, << >>) /\ Moves(e, f, << >>) /\ Moves(f, r, << >>)
  <2>1. Moves(c, e, << >>)
    BY <1>2, BranchMoves
  <2>2. Moves(e, f, << >>)
    BY <1>5, EmitsMoves
  <2>3. ~Failed(f)
    BY <2>2 DEF Moves
  <2> QED
    BY <1>2, <1>3, <2>1, <2>2, <2>3, PatchesMoves
<1>7. Moves(c, r, << >>)
  <2>1. << >> \o << >> = << >>
    OBVIOUS
  <2>2. Moves(c, f, << >>)
    BY <1>6, <2>1, MovesTwice
  <2> QED
    BY <1>6, <2>1, <2>2, MovesTwice, ZenonT(30)
<1>8. Awaited(<<t>>) = {p + 1}
  BY <1>3, AwaitedBy
<1>9. Leaves(t) /\ Boundary(t)
  BY DEF Leaves, Boundary
<1> HIDE DEF d, q, a, op, notTruthy, zero
<1>10. /\ tasks \in Seq(Tasks)
       /\ \A j \in 1 .. Len(tasks) : tasks[j].do # "CLOSURE"
       /\ Chains(t, tasks)
       /\ Awaited(tasks) = Awaited(<<a>>)
       /\ \A code, h : \A x, z \in Nat :
            Does(code, h, a, x, z) => PathTo(code, h, tasks, x, z)
  BY <1>4, <1>9, BranchTasks
<1>11. Awaited(tasks) = {q + 1}
  BY <1>3, <1>4, <1>10, AwaitedBy
<1> HIDE DEF tasks
<1>12. Follows(Emitted(c), t, Emitted(r), tasks)
  <2>1. SUFFICES ASSUME NEW h, NEW V, NEW y, y \in Nat, Top(Emitted(c), h) \in Nat,
                        Fit(Emitted(c), h, Awaited(<<t>>) \union V),
                        Does(Emitted(c), h, t, Top(Emitted(c), h), y),
                        Boundary(t) => EndsWell(Emitted(c), Awaited(<<t>>) \union V)
                 PROVE  /\ \E g : /\ Fit(Emitted(r), g, Awaited(tasks) \union V)
                                  /\ JumpsKept(Emitted(c), h, Emitted(r), g)
                                  /\ PathTo(Emitted(r), g, tasks, Top(Emitted(r), g), y)
                        /\ EndsWell(Emitted(r), Awaited(tasks) \union V)
    BY DEF Follows
  <2> DEFINE x == Top(Emitted(c), h)
             W == {p + 1} \union V
             X == {q + 1} \union W
             U == {q + 1} \union V
             i == Instr(op, Unpatched, zero)
  <2>2. x \in Nat /\ Waits(Emitted(c), h, p + 1, notTruthy, x) /\ y = x + 1
    BY <1>3, <2>1 DEF Does
  <2>3. Fit(Emitted(c), h, W) /\ EndsWell(Emitted(c), W)
    BY <1>8, <1>9, <2>1
  <2>4. W \subseteq X /\ q + 1 \in X /\ X \subseteq U \union {p + 1}
    OBVIOUS
  <2>5. i.op = op /\ Taken(i) = 0
    BY <1>3, TakenBy DEF Instr
  <2> HIDE DEF W, X, U, i
  <2>6. PICK g : /\ Fit(Emitted(e), g, W)
                 /\ Top(Emitted(e), g) = x + 1
                 /\ JumpsKept(Emitted(c), h, Emitted(e), g)
    BY <1>2, <2>3, BranchFits
  <2> HIDE DEF x
  <2>7. CanFollow(Emitted(e), g, X, i, x)
    <3>1. x + 1 >= Taken(i)
      BY <2>2, <2>5
    <3> QED
      BY <1>3, <2>2, <2>4, <2>5, <2>6, <3>1 DEF CanFollow, q
  <2>8. /\ ~TargetsEnd(Emitted(f), X)
        /\ Len(Emitted(f)) = Len(Emitted(e)) + 1
        /\ Emitted(f)[Len(Emitted(e)) + 1] = i
        /\ \E k : /\ Fit(Emitted(f), k, X)
                  /\ Top(Emitted(f), k) = x
                  /\ k[Len(Emitted(e)) + 1] = Top(Emitted(e), g)
                  /\ JumpsKept(Emitted(e), g, Emitted(f), k)
    BY <1>3, <1>5, <2>4, <2>6, <2>7, EmitFits DEF i
  <2>9. PICK k : /\ Fit(Emitted(f), k, X)
                 /\ Top(Emitted(f), k) = x
                 /\ k[q + 1] = x + 1
                 /\ JumpsKept(Emitted(e), g, Emitted(f), k)
    BY <2>6, <2>8 DEF q
  <2>10. Len(Emitted(f)) = q + 1 /\ Emitted(f)[q + 1] = i
    BY <2>8 DEF q
  <2>11. JumpsKept(Emitted(c), h, Emitted(f), k)
    BY <2>6, <2>9, JumpsKeptTwice
  <2>12. Waits(Emitted(f), k, p + 1, notTruthy, x)
    BY <1>3, <2>2, <2>11, WaitsKept
  <2>13. Waits(Emitted(f), k, q + 1, op, x)
    <3>1. q + 1 \in 1 .. q + 1
      BY <1>3
    <3> QED
      BY <2>5, <2>9, <2>10, <3>1 DEF Waits
  <2>14. Top(Emitted(f), k) = IF notTruthy = "JUMP" THEN x + 1 ELSE x
    BY <1>3, <2>9
  <2>15. /\ Fit(Emitted(r), k, U)
         /\ Top(Emitted(r), k) = Top(Emitted(f), k)
         /\ JumpsKept(Emitted(f), k, Emitted(r), k)
    BY <1>2, <1>3, <2>2, <2>4, <2>9, <2>12, <2>14, PatchesFit
  <2>16. JumpsKept(Emitted(c), h, Emitted(r), k)
    BY <2>11, <2>15, JumpsKeptTwice
  <2>17. Waits(Emitted(r), k, q + 1, op, x)
    BY <1>3, <2>13, <2>15, WaitsKept
  <2>18. Does(Emitted(r), k, a, x, y)
    BY <1>3, <1>4, <2>2, <2>17 DEF Does
  <2>19. PathTo(Emitted(r), k, tasks, Top(Emitted(r), k), y)
    BY <1>10, <2>1, <2>2, <2>9, <2>15, <2>18
  <2>20. EndsWell(Emitted(r), U)
    <3>1. Len(Emitted(r)) = q + 1 /\ Emitted(r)[q + 1].op = "JUMP"
      BY <1>2, <1>3, <2>10, <2>17 DEF Patches, Waits
    <3> QED
      BY <3>1 DEF EndsWell, ReturnOps
  <2>21. U = Awaited(tasks) \union V
    BY <1>11 DEF U
  <2> QED
    BY <2>15, <2>16, <2>19, <2>20, <2>21
<1>13. Leads(c, t, d, tasks)
  <2>1. /\ Level(r) = Level(c)
        /\ \A k \in 1 .. Level(c) - 1 :
             /\ r.scopes[k].instructions = c.scopes[k].instructions
             /\ r.scopes[k].todo = c.scopes[k].todo
        /\ Todo(r) = << >> \o Todo(c)
        /\ r.functions = c.functions
    BY <1>7 DEF Moves
  <2>2. Todo(r) = Todo(c)
    BY <2>1, NoTasks
  <2>3. /\ d \in Compilers /\ ~Failed(d)
        /\ SameBelow(r, d) /\ SameBytecode(r, d)
        /\ Emitted(d) = Emitted(r)
        /\ Todo(d) = tasks \o Todo(r)
    BY <1>5 DEF Asks, SameCode
  <2>4. Follows(Emitted(c), t, Emitted(d), tasks)
    BY <1>12, <2>3
  <2> QED
    BY <1>10, <2>1, <2>2, <2>3, <2>4 DEF Leads, SameBelow, SameBytecode
<1> QED
  BY <1>10, <1>13 DEF Advances

(* A constant of an expression. *)
LEMMA ConstantAdvances ==
  ASSUME NEW c \in Compilers, NEW e \in Compilers, Readies(c, e, <<LEAVE>>), NEW d,
         NEW op \in LoadOps, NEW operand \in Nat, Emits(e, d, op, operand, 0),
         NEW t, t.do = "EXPRESSION"
  PROVE  Advances(c, t, d)
<1> DEFINE operand2 == 0
           tasks == <<LEAVE>>
<1>1. /\ operand2 \in Nat
      /\ Emits(e, d, op, operand, operand2)
      /\ d \in Compilers
      /\ op \notin JumpOps
      /\ Readies(c, e, tasks) /\ tasks \in {<< >>, <<LEAVE>>}
      /\ Simple(t) /\ Leaves(t)
  BY DEF Emits, JumpOps, LoadOps, Simple, Leaves
<1> HIDE DEF operand2, tasks
<1>2. \A h : \A x, y \in Nat :
        Does(Emitted(c), h, t, x, y) =>
          /\ x >= Taken(Instr(op, operand, operand2))
          /\ op \notin ReturnOps => y = HeightAfter(Instr(op, operand, operand2), x)
  BY MovedBy
<1> QED
  BY <1>1, <1>2, EmitsAdvances

(* A task that makes of one value another. *)
Middle(m) ==
  \/ m.do \in {"CONSEQUENCE", "ARGUMENTS"}
  \/ m.do = "EMIT" /\ m.op \in UnaryOps

(* The parts of an expression, what is made of them, and the way out. *)
LEMMA PartsAdvance ==
  ASSUME NEW c \in Compilers, NEW t, t.do = "EXPRESSION", NEW d, NEW v, v.do = "EXPRESSION",
         NEW m
  PROVE  /\ Readies(c, d, <<v, m, LEAVE>>) /\ Middle(m) => Advances(c, t, d)
         /\ \A w : /\ Readies(c, d, <<v, w, m, LEAVE>>)
                   /\ w.do = "EXPRESSION" /\ m.do = "EMIT" /\ m.op \in BinaryOps
                   => Advances(c, t, d)
<1>1. Simple(t) /\ Leaves(t) /\ Simple(LEAVE) /\ ~Boundary(LEAVE) /\ LEAVE.do = "LEAVE"
  BY DEF Simple, Leaves, Boundary, LEAVE
<1>2. Simple(v) /\ ~Boundary(v) /\ v.do # "CLOSURE"
  BY DEF Simple, Boundary
<1>3. ASSUME Readies(c, d, <<v, m, LEAVE>>), Middle(m)
      PROVE  Advances(c, t, d)
  <2> DEFINE tasks == <<v, m, LEAVE>>
  <2>1. v \in Tasks /\ m \in Tasks /\ LEAVE \in Tasks
    BY <1>3, FewAre DEF Readies
  <2>2. Simple(m) /\ ~Boundary(m) /\ m.do # "CLOSURE"
    BY <1>3 DEF Middle, Simple, Boundary
  <2>3. /\ \A j \in 1 .. Len(tasks) : Simple(tasks[j]) /\ tasks[j].do # "CLOSURE"
        /\ tasks # << >> /\ ~Boundary(tasks[1])
    BY <1>1, <1>2, <2>2
  <2>4. Chains(t, tasks)
    BY <1>1, <2>2, ChainsFew
  <2>5. ASSUME NEW h, NEW x \in Nat, NEW y \in Nat, Does(Emitted(c), h, t, x, y)
        PROVE  PathTo(Emitted(c), h, tasks, x, y)
    <3>1. y = x + 1
      BY <2>5 DEF Does
    <3>2. Does(Emitted(c), h, m, x + 1, x + 1)
      <4>1. CASE m.do \in {"CONSEQUENCE", "ARGUMENTS"}
        BY <4>1, DoesBy
      <4>2. CASE m.do = "EMIT" /\ m.op \in UnaryOps
        BY <4>2, DoesBy
      <4> QED
        BY <1>3, <4>1, <4>2 DEF Middle
    <3>3. /\ Does(Emitted(c), h, v, x, y)
          /\ Does(Emitted(c), h, m, y, y)
          /\ Does(Emitted(c), h, LEAVE, y, y)
      BY <1>1, <3>1, <3>2, DoesBy
    <3> QED
      BY <2>1, <3>3, PathFew
  <2>6. Readies(c, d, tasks)
    BY <1>3
  <2> HIDE DEF tasks
  <2>7. Leads(c, t, d, tasks)
    BY <1>1, <2>3, <2>4, <2>5, <2>6, ReadiesLeads
  <2> QED
    BY <2>3, <2>7 DEF Advances
<1>4. ASSUME NEW w, Readies(c, d, <<v, w, m, LEAVE>>), w.do = "EXPRESSION", m.do = "EMIT",
             m.op \in BinaryOps
      PROVE  Advances(c, t, d)
  <2> DEFINE tasks == <<v, w, m, LEAVE>>
  <2>1. v \in Tasks /\ w \in Tasks /\ m \in Tasks /\ LEAVE \in Tasks
    BY <1>4, FewAre DEF Readies
  <2>2. /\ Simple(m) /\ ~Boundary(m) /\ m.do # "CLOSURE"
        /\ Simple(w) /\ ~Boundary(w) /\ w.do # "CLOSURE"
    BY <1>4 DEF Simple, Boundary
  <2>3. /\ \A j \in 1 .. Len(tasks) : Simple(tasks[j]) /\ tasks[j].do # "CLOSURE"
        /\ tasks # << >> /\ ~Boundary(tasks[1])
    BY <1>1, <1>2, <2>2
  <2>4. Chains(t, tasks)
    BY <1>1, <2>2, ChainsFew
  <2>5. ASSUME NEW h, NEW x \in Nat, NEW y \in Nat, Does(Emitted(c), h, t, x, y)
        PROVE  PathTo(Emitted(c), h, tasks, x, y)
    <3> DEFINE z == (x + 1) + 1
    <3>1. y = x + 1 /\ z = y + 1 /\ z \in Nat
      BY <2>5 DEF Does
    <3>2. Does(Emitted(c), h, m, z, y)
      BY <1>4, <3>1, DoesBy
    <3> HIDE DEF z
    <3>3. /\ Does(Emitted(c), h, v, x, y)
          /\ Does(Emitted(c), h, w, y, z)
          /\ Does(Emitted(c), h, LEAVE, y, y)
      BY <1>1, <1>4, <3>1, DoesBy
    <3> QED
      BY <2>1, <3>1, <3>2, <3>3, PathFour
  <2>6. Readies(c, d, tasks)
    BY <1>4
  <2> HIDE DEF tasks
  <2>7. Leads(c, t, d, tasks)
    BY <1>1, <2>3, <2>4, <2>5, <2>6, ReadiesLeads
  <2> QED
    BY <2>3, <2>7 DEF Advances
<1> QED
  BY <1>3, <1>4

(* A function literal stands for one value. *)
LEMMA FunctionAdvances ==
  ASSUME NEW c \in Compilers, NEW t, t.do = "EXPRESSION", NEW e, NEW n,
         Readies(c, e, <<FUNCTION(n), LEAVE>>)
  PROVE  Advances(c, t, e)
<1> DEFINE v == FUNCTION(n)
           tasks == <<v, LEAVE>>
<1>1. Simple(t) /\ Leaves(t) /\ Simple(LEAVE) /\ ~Boundary(LEAVE) /\ LEAVE.do = "LEAVE"
  BY DEF Simple, Leaves, Boundary, LEAVE
<1>2. Simple(v) /\ ~Boundary(v) /\ v.do = "FUNCTION"
  BY DEF Simple, Boundary, FUNCTION
<1>3. v \in Tasks /\ LEAVE \in Tasks
  BY FewAre DEF Readies
<1>4. Readies(c, e, tasks)
  OBVIOUS
<1> HIDE DEF v
<1>5. /\ \A j \in 1 .. Len(tasks) : Simple(tasks[j]) /\ tasks[j].do # "CLOSURE"
      /\ tasks # << >> /\ ~Boundary(tasks[1])
  BY <1>1, <1>2
<1>6. Chains(t, tasks)
  BY <1>1, ChainsFew
<1>7. ASSUME NEW h, NEW x \in Nat, NEW y \in Nat, Does(Emitted(c), h, t, x, y)
      PROVE  PathTo(Emitted(c), h, tasks, x, y)
  <2>1. y = x + 1
    BY <1>7 DEF Does
  <2>2. Does(Emitted(c), h, v, x, y) /\ Does(Emitted(c), h, LEAVE, y, y)
    BY <1>1, <1>2, <2>1, DoesBy
  <2> QED
    BY <1>3, <2>2, PathFew
<1> HIDE DEF tasks
<1>8. Leads(c, t, e, tasks)
  BY <1>1, <1>4, <1>5, <1>6, <1>7, ReadiesLeads
<1> QED
  BY <1>5, <1>8 DEF Advances

(* What each kind of expression leads to: a function literal opens a scope, any other
   goes on in this one. *)
LEMMA EvaluatesAdvances ==
  ASSUME NEW c \in Compilers, ~Failed(c), NEW t, t.do = "EXPRESSION", NEW expr \in Exprs,
         NEW function_name, NEW d, Evaluates(c, d, expr, function_name)
  PROVE  \/ Advances(c, t, d)
         \/ \E e \in Compilers :
              /\ expr.type = "FUNCTION"
              /\ Readies(c, e, <<FUNCTION(Len(expr.parameters)), LEAVE>>)
              /\ Advances(c, t, e)
              /\ Opens(e, d, expr, function_name)
<1>2. \A e, tasks : Asks(c, e, tasks) => Readies(c, e, tasks)
  BY ReadiesBy
<1>3. \A x, name : Evaluation(x, name).do = "EXPRESSION"
  BY DEF Evaluation
<1>4. \A op, n : Emission(op, n).do = "EMIT" /\ Emission(op, n).op = op
  BY DEF Emission
<1>5. CASE expr.type = "IDENT" /\ Evaluates(c, d, expr, function_name)
  <2>1. PICK e \in Compilers :
          \E l \in 1 .. Level(e) :
            /\ Asks(c, e, <<LEAVE>>)
            /\ e.scopes[l].entries[expr.ident] \in Symbols
            /\ Resolves(e, d, expr.ident, l, e.scopes[l].entries[expr.ident])
    BY <1>5 DEF Evaluates
  <2>2. PICK l \in 1 .. Level(e) :
          /\ Asks(c, e, <<LEAVE>>)
          /\ e.scopes[l].entries[expr.ident] \in Symbols
          /\ Resolves(e, d, expr.ident, l, e.scopes[l].entries[expr.ident])
    BY <2>1
  <2> DEFINE s == e.scopes[l].entries[expr.ident]
             tasks == <<LEAVE>>
             name == expr.ident
  <2>3. /\ Readies(c, e, tasks) /\ tasks \in {<< >>, <<LEAVE>>}
        /\ s \in Symbols /\ Resolves(e, d, name, l, s)
    BY <1>2, <2>2
  <2> HIDE DEF s, tasks, name
  <2> QED
    BY <2>3, ResolvesLeads
<1>6. CASE expr.type = "INT" /\ Evaluates(c, d, expr, function_name)
  <2>1. PICK e, f \in Compilers :
          /\ Asks(c, e, <<LEAVE>>)
          /\ Adds(e, f, IntegerValue(expr.integer))
          /\ Emits(f, d, "CONSTANT", Len(e.constants), 0)
    BY <1>6 DEF Evaluates
  <2>2. Readies(c, e, <<LEAVE>>) /\ ~Failed(e)
    BY <1>2, <2>1 DEF Readies
  <2>3. Readies(e, f, << >>)
    BY <2>1, <2>2, ReadiesBy
  <2>4. Readies(c, f, << >> \o <<LEAVE>>)
    BY <2>2, <2>3, ReadiesTwice
  <2>5. << >> \o <<LEAVE>> = <<LEAVE>>
    BY <2>2 DEF Readies
  <2> DEFINE op == "CONSTANT"
             n == Len(e.constants)
  <2>6. op \in LoadOps /\ n \in Nat /\ Emits(f, d, op, n, 0)
    <3>1. e.constants \in Seq(Values)
      BY DEF Compilers
    <3> QED
      BY <2>1, <3>1 DEF LoadOps
  <2> HIDE DEF op, n
  <2> QED
    BY <2>1, <2>4, <2>5, <2>6, ConstantAdvances
<1>7. CASE expr.type = "BOOL" /\ Evaluates(c, d, expr, function_name)
  <2>1. PICK e \in Compilers : /\ Asks(c, e, <<LEAVE>>)
                               /\ Emits(e, d, "TRUE", 0, 0) \/ Emits(e, d, "FALSE", 0, 0)
    BY <1>7 DEF Evaluates
  <2>2. PICK op \in LoadOps : Emits(e, d, op, 0, 0)
    BY <2>1 DEF LoadOps
  <2> DEFINE n == 0
  <2>3. n \in Nat /\ Emits(e, d, op, n, 0) /\ Readies(c, e, <<LEAVE>>)
    BY <1>2, <2>1, <2>2
  <2> HIDE DEF n
  <2> QED
    BY <2>3, ConstantAdvances
<1>8. CASE expr.type = "PREFIX" /\ Evaluates(c, d, expr, function_name)
  <2> DEFINE v == Evaluation(expr.right, NoName)
             m == Emission(expr.op, 0)
  <2>1. Readies(c, d, <<v, m, LEAVE>>)
    BY <1>2, <1>8 DEF Evaluates
  <2>2. v.do = "EXPRESSION" /\ Middle(m)
    BY <1>3, <1>4, <1>8, ExpressionParts DEF Middle
  <2> HIDE DEF v, m
  <2> QED
    BY <2>1, <2>2, PartsAdvance
<1>9. CASE expr.type = "INFIX" /\ Evaluates(c, d, expr, function_name)
  <2> DEFINE v == Evaluation(expr.left, NoName)
             w == Evaluation(expr.right, NoName)
             m == Emission(InfixOp[expr.op], 0)
  <2>1. Readies(c, d, <<v, w, m, LEAVE>>)
    BY <1>2, <1>9 DEF Evaluates
  <2>2. /\ v.do = "EXPRESSION" /\ w.do = "EXPRESSION"
        /\ m.do = "EMIT" /\ m.op \in BinaryOps
    BY <1>3, <1>4, <1>9, ExpressionParts
  <2> HIDE DEF v, w, m
  <2> QED
    BY <2>1, <2>2, PartsAdvance
<1>10. CASE expr.type = "IF" /\ Evaluates(c, d, expr, function_name)
  <2> DEFINE v == Evaluation(expr.condition, NoName)
             m == CONSEQUENCE(expr.consequence, expr.alternative)
  <2>1. Readies(c, d, <<v, m, LEAVE>>)
    BY <1>2, <1>10 DEF Evaluates
  <2>2. v.do = "EXPRESSION" /\ Middle(m)
    BY <1>3 DEF Middle, CONSEQUENCE
  <2> HIDE DEF v, m
  <2> QED
    BY <2>1, <2>2, PartsAdvance
<1>11. CASE expr.type = "CALL" /\ Evaluates(c, d, expr, function_name)
  <2> DEFINE v == Evaluation(expr.function, NoName)
             m == ARGUMENTS(expr.arguments)
  <2>1. Readies(c, d, <<v, m, LEAVE>>)
    BY <1>2, <1>11 DEF Evaluates
  <2>2. v.do = "EXPRESSION" /\ Middle(m)
    BY <1>3 DEF Middle, ARGUMENTS
  <2> HIDE DEF v, m
  <2> QED
    BY <2>1, <2>2, PartsAdvance
<1>12. CASE expr.type = "FUNCTION" /\ Evaluates(c, d, expr, function_name)
  <2>1. PICK e \in Compilers : /\ Asks(c, e, <<FUNCTION(Len(expr.parameters)), LEAVE>>)
                               /\ Opens(e, d, expr, function_name)
    BY <1>12 DEF Evaluates
  <2>2. Readies(c, e, <<FUNCTION(Len(expr.parameters)), LEAVE>>)
    BY <1>2, <2>1
  <2>3. Advances(c, t, e)
    BY <2>2, FunctionAdvances
  <2> QED
    BY <1>12, <2>1, <2>2, <2>3
<1>13. expr.type \in {"IDENT", "INT", "BOOL", "PREFIX", "INFIX", "IF", "FUNCTION", "CALL"}
  BY ExpressionParts
<1> QED
  BY <1>5, <1>6, <1>7, <1>8, <1>9, <1>10, <1>11, <1>12, <1>13

(* An expression. *)
LEMMA ExpressionAdvances ==
  ASSUME NEW c \in Compilers, ~Failed(c), NEW t, t.do = "EXPRESSION", NEW expr \in Exprs,
         NEW function_name \in STRING \union {NoName}
  PROVE  LET d == CompileExpression(c, expr, function_name) IN
         \/ Stops(d)
         \/ Advances(c, t, d)
         \/ \E e \in Compilers :
              /\ expr.type = "FUNCTION"
              /\ Readies(c, e, <<FUNCTION(Len(expr.parameters)), LEAVE>>)
              /\ Advances(c, t, e)
              /\ Opens(e, d, expr, function_name)
<1> DEFINE d == CompileExpression(c, expr, function_name)
<1>1. Stops(d) \/ Evaluates(c, d, expr, function_name)
  BY ExpressionIs
<1> HIDE DEF d
<1>2. Evaluates(c, d, expr, function_name) =>
        \/ Advances(c, t, d)
        \/ \E e \in Compilers :
             /\ expr.type = "FUNCTION"
             /\ Readies(c, e, <<FUNCTION(Len(expr.parameters)), LEAVE>>)
             /\ Advances(c, t, e)
             /\ Opens(e, d, expr, function_name)
  BY EvaluatesAdvances
<1> QED
  BY <1>1, <1>2 DEF d

-----------------------------------------------------------------------------
(* The compiler's steps *)

(* The code of every scope and what is to be done there fit each other, and the
   verifier accepts the heights of every function that is compiled. *)
Aligned(c) ==
  /\ \A l \in 1 .. Level(c) : Lined(c.scopes[l].instructions, c.scopes[l].todo)
  /\ \A k \in 1 .. Len(c.functions) : Balanced(c.functions[k].instructions)
  /\ \A l \in 1 .. Level(c) : \A k \in 1 .. Len(c.scopes[l].todo) :
       c.scopes[l].todo[k].do = "CLOSURE" =>
         Balanced(c.scopes[l].todo[k].function.instructions)

(* The tasks of a scope, other tasks in the place of the first. *)
LEMMA OtherTasks ==
  ASSUME NEW todo \in Seq(Tasks), todo # << >>, NEW tasks \in Seq(Tasks),
         NEW k \in 1 .. Len(tasks \o Tail(todo))
  PROVE  \/ k \in 1 .. Len(tasks) /\ (tasks \o Tail(todo))[k] = tasks[k]
         \/ \E j \in 1 .. Len(todo) : (tasks \o Tail(todo))[k] = todo[j]
<1> DEFINE rest == Tail(todo)
           m == Len(tasks)
           n == Len(rest)
           both == tasks \o rest
<1>1. /\ rest \in Seq(Tasks)
      /\ m \in Nat /\ n \in Nat
      /\ Len(todo) = n + 1
      /\ \A j \in 1 .. n : rest[j] = todo[j + 1]
  OBVIOUS
<1>2. /\ Len(both) = m + n
      /\ \A j \in 1 .. m : both[j] = tasks[j]
      /\ \A j \in m + 1 .. m + n : both[j] = rest[j - m]
  BY <1>1
<1> HIDE DEF rest, m, n, both
<1>3. k \in 1 .. m + n
  BY <1>2 DEF both, rest
<1>4. CASE k \in 1 .. m
  BY <1>2, <1>4 DEF both, rest, m
<1>5. CASE k \in m + 1 .. m + n
  <2>1. /\ k - m \in 1 .. n
        /\ (k - m) + 1 \in 1 .. n + 1
    BY <1>1, <1>5
  <2>2. both[k] = todo[(k - m) + 1]
    BY <1>1, <1>2, <1>5, <2>1
  <2> QED
    BY <1>1, <2>1, <2>2 DEF both, rest
<1> QED
  BY <1>1, <1>3, <1>4, <1>5, SMTT(30)

(* Statements and parameters fit code that is yet to be emitted. *)
LEMMA LinedEmpty ==
  ASSUME NEW todo \in Seq(Tasks),
         \A k \in 1 .. Len(todo) : todo[k].do \in {"STATEMENT", "DEFINE"}
  PROVE  Lined(<< >>, todo)
<1> DEFINE code == << >>
           h == [k \in 1 .. 1 |-> 0]
           x == 0
<1>1. Len(code) = 0 /\ Positions(code) = 1 .. 1
  BY DEF Positions
<1>2. h \in [1 .. 1 -> Nat] /\ h[1] = 0
  OBVIOUS
<1>3. Chained(todo)
  BY DEF Chained, Leaves
<1>4. \A W : Fit(code, h, W) /\ EndsWell(code, W)
  <2>1. \A k \in 1 .. Len(code) : FALSE
    BY <1>1
  <2> HIDE DEF code, h
  <2> QED
    BY <1>1, <1>2, <2>1 DEF Fit, EndsWell, TargetsEnd
<1>5. Top(code, h) = x /\ x \in Nat
  BY <1>1, <1>2 DEF Top
<1> HIDE DEF code, h, x
<1>6. PathTo(code, h, todo, x, x)
  <2>1. \A k \in 1 .. Len(todo) : Does(code, h, todo[k], x, x)
    BY <1>5, DoesBy
  <2> QED
    BY <1>5, <2>1, PathLevel
<1>7. Lined(code, todo)
  BY <1>3, <1>4, <1>5, <1>6 DEF Lined
<1> QED
  BY <1>7 DEF code

(* Where only the current scope changes. *)
LEMMA AlignedHere ==
  ASSUME NEW c \in Compilers, NEW d \in Compilers, Aligned(c), Level(d) = Level(c),
         \A k \in 1 .. Level(c) - 1 :
           /\ d.scopes[k].instructions = c.scopes[k].instructions
           /\ d.scopes[k].todo = c.scopes[k].todo,
         Lined(Emitted(d), Todo(d)),
         \A k \in 1 .. Len(Todo(d)) :
           Todo(d)[k].do = "CLOSURE" => Balanced(Todo(d)[k].function.instructions),
         \A k \in 1 .. Len(d.functions) : Balanced(d.functions[k].instructions)
  PROVE  Aligned(d)
<1>1. /\ Level(c) \in Nat \ {0}
      /\ Scope(d) = d.scopes[Level(d)]
  BY CurrentScope
<1>2. \A l \in 1 .. Level(d) : l \in 1 .. Level(c) - 1 \/ l = Level(d)
  BY <1>1
<1>3. \A l \in 1 .. Level(c) - 1 : l \in 1 .. Level(c)
  BY <1>1
<1>4. ASSUME NEW l \in 1 .. Level(d)
      PROVE  /\ Lined(d.scopes[l].instructions, d.scopes[l].todo)
             /\ \A k \in 1 .. Len(d.scopes[l].todo) :
                  d.scopes[l].todo[k].do = "CLOSURE" =>
                    Balanced(d.scopes[l].todo[k].function.instructions)
  <2>1. CASE l = Level(d)
    BY <1>1, <2>1 DEF Emitted, Todo
  <2>2. CASE l \in 1 .. Level(c) - 1
    <3>1. /\ Lined(c.scopes[l].instructions, c.scopes[l].todo)
          /\ \A k \in 1 .. Len(c.scopes[l].todo) :
               c.scopes[l].todo[k].do = "CLOSURE" =>
                 Balanced(c.scopes[l].todo[k].function.instructions)
      BY <1>3, <2>2 DEF Aligned
    <3>2. /\ d.scopes[l].instructions = c.scopes[l].instructions
          /\ d.scopes[l].todo = c.scopes[l].todo
      BY <2>2
    <3> QED
      BY <3>1, <3>2
  <2> QED
    BY <1>2, <2>1, <2>2
<1> QED
  BY <1>4 DEF Aligned

(* The next task is begun and leads on. *)
LEMMA AlignedAdvances ==
  ASSUME NEW c \in Compilers, ~Failed(c), Aligned(c), Todo(c) # << >>, NEW d,
         Advances(Begun(c), Task(c), d)
  PROVE  Aligned(d)
<1> DEFINE b == Begun(c)
           t == Task(c)
           todo == Todo(c)
<1>1. /\ b \in Compilers
      /\ SameBelow(c, b) /\ SameCode(c, b) /\ SameBytecode(c, b)
      /\ Todo(b) = Tail(todo)
      /\ t = Head(todo)
  BY BegunIs
<1>2. PICK tasks : /\ Leads(b, t, d, tasks)
                   /\ \A j \in 1 .. Len(tasks) : tasks[j].do # "CLOSURE"
  BY DEF Advances
<1>3. /\ d \in Compilers /\ tasks \in Seq(Tasks)
      /\ Level(d) = Level(c)
      /\ Todo(d) = tasks \o Tail(todo)
      /\ Follows(Emitted(c), t, Emitted(d), tasks)
      /\ Chains(t, tasks)
      /\ d.functions = c.functions
  BY <1>1, <1>2 DEF Leads, SameBelow, SameCode, SameBytecode
<1>4. \A k \in 1 .. Level(c) - 1 :
        /\ d.scopes[k].instructions = c.scopes[k].instructions
        /\ d.scopes[k].todo = c.scopes[k].todo
  BY <1>1, <1>2 DEF Leads, SameBelow
<1>5. /\ Emitted(c) \in Seq(Instructions) /\ todo \in Seq(Tasks)
      /\ Level(c) \in 1 .. Level(c)
      /\ Scope(c) = c.scopes[Level(c)]
  BY CurrentScope
<1>6. /\ Lined(Emitted(c), todo)
      /\ \A k \in 1 .. Len(todo) :
           todo[k].do = "CLOSURE" => Balanced(todo[k].function.instructions)
      /\ \A k \in 1 .. Len(c.functions) : Balanced(c.functions[k].instructions)
  BY <1>5 DEF Aligned, Emitted, Todo
<1> HIDE DEF b, t, todo
<1>7. Lined(Emitted(d), Todo(d))
  <2>1. Len(Emitted(c)) \in Nat /\ todo # << >>
    BY <1>5 DEF todo
  <2> QED
    BY <1>1, <1>3, <1>5, <1>6, <2>1, LinedFollows
<1>8. ASSUME NEW k \in 1 .. Len(Todo(d)), Todo(d)[k].do = "CLOSURE"
      PROVE  Balanced(Todo(d)[k].function.instructions)
  <2>1. \/ k \in 1 .. Len(tasks) /\ Todo(d)[k] = tasks[k]
        \/ \E j \in 1 .. Len(todo) : Todo(d)[k] = todo[j]
    <3>1. todo # << >>
      BY DEF todo
    <3> QED
      BY <1>3, <1>5, <1>8, <3>1, OtherTasks
  <2> QED
    BY <1>2, <1>6, <1>8, <2>1
<1> QED
  BY <1>3, <1>4, <1>6, <1>7, <1>8, AlignedHere

(* A function literal: the scope that is opened fits, too. *)
LEMMA AlignedOpens ==
  ASSUME NEW e \in Compilers, Aligned(e), NEW expr \in Exprs, expr.type = "FUNCTION",
         NEW d, NEW function_name, Opens(e, d, expr, function_name)
  PROVE  Aligned(d)
<1> DEFINE first == Definitions(expr.parameters)
           more == Statements(expr.body)
           todo == first \o more
<1>1. /\ first \in Seq(Tasks) /\ more \in Seq(Tasks)
      /\ \A k \in 1 .. Len(first) : first[k].do = "DEFINE"
      /\ \A k \in 1 .. Len(more) : more[k].do = "STATEMENT"
  BY ExpressionParts, DefinitionTasks, StatementTasks
<1>2. /\ d \in Compilers
      /\ Level(d) = Level(e) + 1
      /\ \A k \in 1 .. Level(e) : d.scopes[k] = e.scopes[k]
      /\ d.functions = e.functions
      /\ Emitted(d) = << >>
      /\ Todo(d) = todo
  BY DEF Opens, SameBytecode
<1> HIDE DEF first, more
<1>3. todo \in Seq(Tasks) /\ \A k \in 1 .. Len(todo) : todo[k].do \in {"STATEMENT", "DEFINE"}
  <2> DEFINE m == Len(first)
             n == Len(more)
  <2>1. m \in Nat /\ n \in Nat /\ todo \in Seq(Tasks)
    BY <1>1
  <2>2. /\ Len(todo) = m + n
        /\ \A k \in 1 .. m : todo[k] = first[k]
        /\ \A k \in m + 1 .. m + n : todo[k] = more[k - m]
    BY <1>1
  <2> HIDE DEF m, n, todo
  <2>3. \A k \in 1 .. m + n : k \in 1 .. m \/ (k \in m + 1 .. m + n /\ k - m \in 1 .. n)
    BY <2>1
  <2>4. \A k \in 1 .. m + n : todo[k].do \in {"STATEMENT", "DEFINE"}
    BY <1>1, <2>2, <2>3 DEF m, n
  <2> QED
    BY <2>1, <2>2, <2>4
<1> HIDE DEF todo
<1>4. Lined(Emitted(d), Todo(d))
  BY <1>2, <1>3, LinedEmpty
<1>5. Level(e) \in Nat /\ Scope(d) = d.scopes[Level(d)]
  BY CurrentScope DEF Scope
<1>6. ASSUME NEW l \in 1 .. Level(d)
      PROVE  /\ Lined(d.scopes[l].instructions, d.scopes[l].todo)
             /\ \A k \in 1 .. Len(d.scopes[l].todo) :
                  d.scopes[l].todo[k].do = "CLOSURE" =>
                    Balanced(d.scopes[l].todo[k].function.instructions)
  <2>1. CASE l = Level(d)
    <3>1. d.scopes[l].todo = todo /\ d.scopes[l].instructions = Emitted(d)
      BY <1>2, <1>5, <2>1 DEF Emitted, Todo
    <3> QED
      BY <1>2, <1>3, <1>4, <3>1
  <2>2. CASE l \in 1 .. Level(e)
    BY <1>2, <2>2 DEF Aligned
  <2>3. l = Level(d) \/ l \in 1 .. Level(e)
    BY <1>2, <1>5
  <2> QED
    BY <2>1, <2>2, <2>3
<1>7. \A k \in 1 .. Len(d.functions) : Balanced(d.functions[k].instructions)
  BY <1>2 DEF Aligned
<1> QED
  BY <1>6, <1>7 DEF Aligned

(* The closure is made: the function is one of the compiler's. *)
LEMMA AlignedCloses ==
  ASSUME NEW c \in Compilers, ~Failed(c), Aligned(c), Todo(c) # << >>,
         Task(c).do = "CLOSURE", NEW e \in Compilers,
         AddsFunction(Begun(c), e, Task(c).function),
         NEW d, NEW operand \in Nat, Emits(e, d, "CLOSURE", operand, Task(c).free_count)
  PROVE  Aligned(d)
<1> DEFINE b == Begun(c)
           t == Task(c)
           todo == Todo(c)
           op == "CLOSURE"
           operand2 == t.free_count
           none == << >>
           i == Instr(op, operand, operand2)
<1>1. /\ b \in Compilers
      /\ SameBelow(c, b) /\ SameCode(c, b) /\ SameBytecode(c, b)
      /\ Todo(b) = Tail(todo)
      /\ t = Head(todo) /\ t \in Tasks
  BY BegunIs
<1>2. operand2 \in Nat /\ t.function \in CompiledFunctions
  BY <1>1, TaskKinds
<1>3. /\ e.scopes = b.scopes
      /\ e.functions = Append(b.functions, t.function)
  BY DEF AddsFunction
<1>4. SameBelow(b, e) /\ Emitted(e) = Emitted(b) /\ Todo(e) = Todo(b)
  BY <1>3, SameScopes
<1>5. /\ d \in Compilers /\ Emits(e, d, op, operand, operand2)
      /\ SameBelow(e, d) /\ SameBytecode(e, d) /\ Todo(d) = Todo(e)
  BY DEF Emits
<1>6. /\ Emitted(c) \in Seq(Instructions) /\ todo \in Seq(Tasks)
      /\ Level(c) \in 1 .. Level(c)
      /\ Scope(c) = c.scopes[Level(c)]
  BY CurrentScope
<1>7. /\ Lined(Emitted(c), todo)
      /\ \A k \in 1 .. Len(todo) :
           todo[k].do = "CLOSURE" => Balanced(todo[k].function.instructions)
      /\ \A k \in 1 .. Len(c.functions) : Balanced(c.functions[k].instructions)
  BY <1>6 DEF Aligned, Emitted, Todo
<1>8. op \notin JumpOps /\ Simple(t) /\ none \in {<< >>, <<LEAVE>>}
  BY DEF JumpOps, Simple
<1>9. Taken(i) = operand2 /\ Given(i) = 1
  BY TakenBy DEF Instr
<1>10. ASSUME NEW h, NEW x \in Nat, NEW y \in Nat, Does(Emitted(e), h, t, x, y)
       PROVE  x >= Taken(i) /\ y = HeightAfter(i, x)
  BY <1>9, <1>10 DEF Does, HeightAfter
<1>11. none \in Seq(Tasks) /\ Chains(t, none) /\ none \o Tail(todo) = Tail(todo)
  BY <1>6, ChainsFew
<1> HIDE DEF b, t, todo, op, operand2, none
<1>12. Follows(Emitted(e), t, Emitted(d), none)
  BY <1>2, <1>5, <1>8, <1>10, EmitsFollow
<1>13. Emitted(e) = Emitted(c) /\ Todo(d) = Tail(todo)
  BY <1>1, <1>4, <1>5 DEF SameCode
<1>14. todo # << >> /\ Len(Emitted(c)) \in Nat
  BY <1>6 DEF todo
<1>15. Lined(Emitted(d), none \o Tail(todo))
  BY <1>1, <1>6, <1>7, <1>11, <1>12, <1>13, <1>14, LinedFollows
<1>16. Lined(Emitted(d), Todo(d))
  BY <1>11, <1>13, <1>15
<1>17. /\ \A k \in 1 .. Len(Todo(d)) :
            Todo(d)[k].do = "CLOSURE" => Balanced(Todo(d)[k].function.instructions)
       /\ Balanced(t.function.instructions)
  <2>1. \A k \in 1 .. Len(Tail(todo)) : /\ k + 1 \in 1 .. Len(todo)
                                        /\ Tail(todo)[k] = todo[k + 1]
    BY <1>6, <1>14
  <2>2. 1 \in 1 .. Len(todo) /\ Head(todo) = todo[1]
    BY <1>6, <1>14
  <2>3. t.do = "CLOSURE"
    BY DEF t
  <2> QED
    BY <1>1, <1>7, <1>13, <2>1, <2>2, <2>3
<1>18. d.functions = Append(c.functions, t.function)
  BY <1>1, <1>3, <1>5 DEF SameBytecode
<1>19. \A k \in 1 .. Len(d.functions) : Balanced(d.functions[k].instructions)
  <2> DEFINE n == Len(c.functions)
             more == Append(c.functions, t.function)
  <2>1. c.functions \in Seq(CompiledFunctions)
    BY DEF Compilers
  <2>2. /\ n \in Nat
        /\ Len(more) = n + 1
        /\ \A k \in 1 .. n : more[k] = c.functions[k]
        /\ more[n + 1] = t.function
    BY <1>2, <2>1
  <2>3. \A k \in 1 .. n + 1 : k \in 1 .. n \/ k = n + 1
    BY <2>2
  <2> HIDE DEF more
  <2>4. \A k \in 1 .. n + 1 : Balanced(more[k].instructions)
    BY <1>7, <1>17, <2>2, <2>3
  <2> QED
    BY <1>18, <2>2, <2>4 DEF more
<1>20. /\ Level(d) = Level(c)
       /\ \A k \in 1 .. Level(c) - 1 :
            /\ d.scopes[k].instructions = c.scopes[k].instructions
            /\ d.scopes[k].todo = c.scopes[k].todo
  BY <1>1, <1>4, <1>5 DEF SameBelow
<1> QED
  BY <1>5, <1>16, <1>17, <1>19, <1>20, AlignedHere

(* What a function captured is loaded, and the closure made. *)
LEMMA ClosureTasks ==
  ASSUME NEW code, Len(code) \in Nat, NEW t, t.do = "FUNCTION",
         NEW symbols \in Seq(Symbols), NEW function \in CompiledFunctions,
         NEW n, n = Len(symbols)
  PROVE  LET tasks == Append(Loads(symbols), CLOSURE(function, n)) IN
         /\ tasks \in Seq(Tasks)
         /\ Follows(code, t, code, tasks)
         /\ Chains(t, tasks)
         /\ \A j \in 1 .. Len(tasks) :
              tasks[j].do = "CLOSURE" => tasks[j].function = function
<1> DEFINE first == Loads(symbols)
           a == CLOSURE(function, n)
           tasks == Append(first, a)
<1>1. /\ first \in Seq(Tasks)
      /\ Len(first) = n
      /\ \A k \in 1 .. n : first[k].do = "LOAD"
  BY LoadTasks
<1>2. n \in Nat
  OBVIOUS
<1>3. /\ a \in Tasks /\ a.do = "CLOSURE" /\ a.function = function /\ a.free_count = n
  BY <1>2, TasksAre DEF CLOSURE
<1> HIDE DEF first, a
<1>4. /\ Len(tasks) = n + 1
      /\ \A k \in 1 .. n : tasks[k] = first[k]
      /\ tasks[n + 1] = a
      /\ tasks = first \o <<a>>
      /\ <<a>> \in Seq(Tasks)
      /\ tasks \in Seq(Tasks)
  BY <1>1, <1>2, <1>3
<1>5. ASSUME NEW j \in 1 .. n + 1
      PROVE  /\ tasks[j].do \in {"LOAD", "CLOSURE"}
             /\ tasks[j].do = "CLOSURE" => tasks[j].function = function
  <2>1. j \in 1 .. n \/ j = n + 1
    BY <1>2
  <2> QED
    BY <1>1, <1>3, <1>4, <2>1
<1> HIDE DEF tasks
<1>6. \A j \in 1 .. Len(tasks) : Simple(tasks[j]) /\ ~Boundary(tasks[j])
  BY <1>4, <1>5 DEF Simple, Boundary
<1>7. tasks # << >> /\ ~Boundary(tasks[1])
  <2>1. 1 \in 1 .. Len(tasks) /\ Len(tasks) # 0
    BY <1>2, <1>4
  <2> QED
    BY <1>6, <2>1
<1>8. Simple(t) /\ Leaves(t)
  BY DEF Simple, Leaves
<1>9. Chains(t, tasks)
  <2>1. \A j \in 1 .. Len(tasks) : j < Len(tasks) => j + 1 \in 1 .. Len(tasks)
    BY <1>2, <1>4
  <2> QED
    BY <1>6, <1>8, <2>1 DEF Chains
<1>10. ASSUME NEW h, NEW x \in Nat, NEW y \in Nat, Does(code, h, t, x, y)
       PROVE  PathTo(code, h, tasks, x, y)
  <2>1. y = x + 1
    BY <1>10 DEF Does
  <2>2. \A k \in 1 .. Len(first) : \A m \in Nat : Does(code, h, first[k], m, m + 1)
    BY <1>1, DoesBy
  <2>3. PathTo(code, h, first, x, x + Len(first))
    BY <1>1, <2>2, PathClimbs
  <2> DEFINE z == x + n
  <2>4. z \in Nat /\ z >= n /\ y = z - n + 1
    BY <1>2, <2>1
  <2>5. PathTo(code, h, first, x, z)
    BY <1>1, <2>3
  <2> HIDE DEF z
  <2>6. Does(code, h, a, z, y)
    BY <1>3, <2>4 DEF Does
  <2>7. PathTo(code, h, <<a>>, z, y)
    BY <2>4, <2>6, PathOne
  <2>8. PathTo(code, h, first \o <<a>>, x, y)
    BY <1>1, <1>4, <2>5, <2>7, PathJoin
  <2> QED
    BY <1>4, <2>8
<1>11. Follows(code, t, code, tasks)
  BY <1>6, <1>7, <1>8, <1>10, SameFollows
<1> QED
  BY <1>4, <1>5, <1>9, <1>11 DEF tasks, first, a

(* Code after which nothing is left to do. *)
LinedBare(code) == EndsWell(code, {}) /\ \E h : Fit(code, h, {})

(* What Lined says then. *)
LEMMA LinedNoTask ==
  ASSUME NEW code, Lined(code, << >>)
  PROVE  LinedBare(code)
<1> DEFINE none == << >>
<1>1. Awaited(none) = {} /\ none = << >>
  BY AwaitedIs
<1>2. Lined(code, none)
  OBVIOUS
<1> HIDE DEF none
<1>3. EndsWell(code, Awaited(none)) /\ \E h : Fit(code, h, Awaited(none))
  BY <1>1, <1>2 DEF Lined
<1> QED
  BY <1>1, <1>3 DEF LinedBare

(* A body is compiled, and is one the verifier accepts. *)
LEMMA AlignedEnds ==
  ASSUME NEW c \in Compilers, ~Failed(c), Aligned(c), Placed(c), Todo(c) = << >>,
         Level(c) > 1, NEW e \in Compilers, Body(c, e), NEW d, Closes(e, d)
  PROVE  Aligned(d)
<1> DEFINE l == Level(e) - 1
           around == e.scopes[l]
           symbols == Scope(e).free_symbols
           n == Len(symbols)
           function == FunctionOf(e, around.todo[1].parameter_count)
           tasks == Append(Loads(symbols), CLOSURE(function, n))
           todo == around.todo
           code == around.instructions
<1>1. Level(c) \in Nat /\ Level(c) \in 1 .. Level(c) /\ Scope(c) = c.scopes[Level(c)]
  BY CurrentScope
<1>2. /\ Level(e) = Level(c)
      /\ \A k \in 1 .. Level(c) - 1 : e.scopes[k] = c.scopes[k]
      /\ e.functions = c.functions
  BY BodyKeeps DEF SameBelow, SameBytecode
<1>3. l \in 1 .. Level(c) - 1 /\ l \in 1 .. Level(c) /\ l \in 1 .. Level(e)
  BY <1>1, <1>2
<1>4. /\ around = c.scopes[l]
      /\ around \in CompilerScopes
      /\ code \in Seq(Instructions) /\ todo \in Seq(Tasks)
  BY <1>2, <1>3, OpenScope
<1>5. todo # << >> /\ todo[1].do = "FUNCTION"
  BY <1>3, <1>4 DEF Placed, Waiting
<1>6. /\ d \in Compilers
      /\ Level(d) = l
      /\ \A k \in 1 .. l - 1 : d.scopes[k] = e.scopes[k]
      /\ Emitted(d) = code
      /\ function \in CompiledFunctions
      /\ Todo(d) = tasks \o Tail(todo)
      /\ d.functions = e.functions
  BY DEF Closes, SameBytecode, Emitted
<1>7. symbols \in Seq(Symbols) /\ function.instructions = Emitted(e)
  BY CurrentScope DEF CompilerScopes, FunctionOf
<1>8. Balanced(Emitted(e))
  <2>1. Lined(Emitted(c), << >>)
    <3>1. Lined(c.scopes[Level(c)].instructions, c.scopes[Level(c)].todo)
      BY <1>1 DEF Aligned
    <3> QED
      BY <1>1, <3>1 DEF Emitted, Todo
  <2>2. LinedBare(Emitted(c))
    BY <2>1, LinedNoTask
  <2>3. PICK h : Fit(Emitted(c), h, {})
    BY <2>2 DEF LinedBare
  <2>4. EndsWell(Emitted(c), {})
    BY <2>2 DEF LinedBare
  <2> QED
    BY <2>3, <2>4, BodyBalances
<1>9. /\ Lined(code, todo)
      /\ \A k \in 1 .. Len(todo) :
           todo[k].do = "CLOSURE" => Balanced(todo[k].function.instructions)
  BY <1>3, <1>4 DEF Aligned
<1>10. Len(code) \in Nat /\ Head(todo) = todo[1]
  BY <1>4, <1>5
<1> HIDE DEF l, around, symbols, n, function, todo, code
<1>11. /\ tasks \in Seq(Tasks)
       /\ Follows(code, Head(todo), code, tasks)
       /\ Chains(Head(todo), tasks)
       /\ \A j \in 1 .. Len(tasks) : tasks[j].do = "CLOSURE" => tasks[j].function = function
  <2>1. Head(todo).do = "FUNCTION"
    BY <1>5, <1>10
  <2> QED
    BY <1>6, <1>7, <1>10, <2>1, ClosureTasks DEF n
<1> HIDE DEF tasks
<1>12. Lined(code, tasks \o Tail(todo))
  BY <1>4, <1>5, <1>9, <1>10, <1>11, LinedFollows
<1>13. ASSUME NEW k \in 1 .. Len(Todo(d)), Todo(d)[k].do = "CLOSURE"
       PROVE  Balanced(Todo(d)[k].function.instructions)
  <2>1. \/ k \in 1 .. Len(tasks) /\ Todo(d)[k] = tasks[k]
        \/ \E j \in 1 .. Len(todo) : Todo(d)[k] = todo[j]
    BY <1>4, <1>5, <1>6, <1>11, <1>13, OtherTasks
  <2> QED
    BY <1>7, <1>8, <1>9, <1>11, <1>13, <2>1
<1>14. \A k \in 1 .. Len(d.functions) : Balanced(d.functions[k].instructions)
  BY <1>2, <1>6 DEF Aligned
<1>15. ASSUME NEW k \in 1 .. Level(d)
       PROVE  /\ Lined(d.scopes[k].instructions, d.scopes[k].todo)
              /\ \A j \in 1 .. Len(d.scopes[k].todo) :
                   d.scopes[k].todo[j].do = "CLOSURE" =>
                     Balanced(d.scopes[k].todo[j].function.instructions)
  <2>1. CASE k = Level(d)
    <3>1. d.scopes[k].instructions = Emitted(d) /\ d.scopes[k].todo = Todo(d)
      BY <2>1 DEF Emitted, Todo, Scope
    <3> QED
      BY <1>6, <1>12, <1>13, <3>1
  <2>2. CASE k \in 1 .. l - 1
    <3>1. k \in 1 .. Level(c) - 1 /\ k \in 1 .. Level(c)
      BY <1>1, <1>3, <2>2
    <3>2. d.scopes[k] = c.scopes[k]
      BY <1>2, <1>6, <2>2, <3>1
    <3> QED
      BY <3>1, <3>2 DEF Aligned
  <2>3. k = Level(d) \/ k \in 1 .. l - 1
    BY <1>1, <1>3, <1>6
  <2> QED
    BY <2>1, <2>2, <2>3
<1> QED
  BY <1>14, <1>15 DEF Aligned

(* A line's statements are to be compiled into new code. *)
LEMMA AlignedStarts ==
  ASSUME NEW c \in Compilers, ~Failed(c), Aligned(c), Compiled(c), NEW stmts \in Lines
  PROVE  Aligned(Compile(c, stmts))
<1> DEFINE d == Compile(c, stmts)
           todo == Statements(stmts)
<1>1. stmts \in Seq(Stmts)
  BY SyntaxAssumption
<1>2. /\ todo \in Seq(Tasks)
      /\ \A k \in 1 .. Len(todo) : todo[k].do = "STATEMENT"
  BY <1>1, StatementTasks
<1>3. /\ Level(c) = 1
      /\ c.scopes \in Seq(CompilerScopes)
      /\ c.scopes[1] \in CompilerScopes
      /\ Len(c.scopes) = 1
  BY CurrentScope DEF Compiled, Level
<1> HIDE DEF todo
<1>4. /\ Len(d.scopes) = 1
      /\ d.scopes[1].instructions = << >>
      /\ d.scopes[1].todo = todo
      /\ d.functions = c.functions
  BY <1>3 DEF Compile, Compilers, CompilerScopes, todo
<1>5. Lined(<< >>, todo)
  BY <1>2, LinedEmpty
<1>6. Level(d) = 1
  BY <1>4 DEF Level
<1> HIDE DEF d
<1>7. Aligned(d)
  BY <1>2, <1>4, <1>5, <1>6 DEF Aligned
<1> QED
  BY <1>7 DEF d

(* The compiler is never asked to emit a jump by itself. *)
LEMMA EmitIsNoJump ==
  ASSUME NEW c \in Compilers, Aligned(c), Todo(c) # << >>, Task(c).do = "EMIT"
  PROVE  Task(c).op \notin JumpOps
<1>1. Level(c) \in 1 .. Level(c) /\ Scope(c) = c.scopes[Level(c)] /\ Todo(c) \in Seq(Tasks)
  BY CurrentScope
<1>2. Lined(Emitted(c), Todo(c))
  <2>1. Lined(c.scopes[Level(c)].instructions, c.scopes[Level(c)].todo)
    BY <1>1 DEF Aligned
  <2> QED
    BY <1>1, <2>1 DEF Emitted, Todo
<1> DEFINE code == Emitted(c)
<1>3. PICK h : \E z : PathTo(code, h, Todo(c), Top(code, h), z)
  BY <1>2 DEF Lined
<1>4. PICK z : PathTo(code, h, Todo(c), Top(code, h), z)
  BY <1>3
<1>5. \E y \in Nat : Does(code, h, Head(Todo(c)), Top(code, h), y)
  BY <1>1, <1>4, PathBegins
<1>6. Head(Todo(c)) = Task(c)
  BY DEF Task, Todo
<1> QED
  BY <1>5, <1>6 DEF Does

(* Every step of the compiler leaves it aligned, or with a failure. *)
LEMMA TaskAligned ==
  ASSUME compiler \in Compilers, ~Failed(compiler), Sane(compiler), Aligned(compiler),
         CompileStep
  PROVE  \E d : Becomes(d) /\ (Stops(d) \/ Aligned(d))
<1> DEFINE c == compiler
           b == Begun(c)
           task == Task(c)
<1>1. Todo(c) # << >>
  BY DEF CompileStep, Doing, Todo
<1>2. /\ b \in Compilers /\ ~Failed(b)
      /\ task \in Tasks
      /\ Fits(Emitted(b), Level(b), task)
  BY <1>1, BegunSane, Zenon
<1>3. ASSUME NEW d, Becomes(d), Stops(d) \/ Advances(b, task, d)
      PROVE  \E x : Becomes(x) /\ (Stops(x) \/ Aligned(x))
  <2>1. CASE Stops(d)
    BY <1>3, <2>1
  <2>2. CASE Advances(b, task, d)
    <3>1. Aligned(d)
      BY <1>1, <2>2, AlignedAdvances
    <3> QED
      BY <1>3, <3>1
  <2> QED
    BY <1>3, <2>1, <2>2
<1>4. task.do = "EMIT" => task.op \notin JumpOps
  BY <1>1, EmitIsNoJump
<1>5. Aligned(c) /\ c \in Compilers /\ ~Failed(c)
  OBVIOUS
<1>6.  \/ task.do = "STATEMENT" /\ Becomes(CompileStatement(b, task.stmt))
       \/ task.do = "LET" /\ Becomes(CompileLet(b, task.name))
       \/ task.do = "STORE" /\ Becomes(StoreSymbol(b, task.symbol))
       \/ task.do = "EXPRESSION" /\ Becomes(CompileExpression(b, task.expr, task.name))
       \/ task.do = "LEAVE" /\ Becomes(LeaveExpression(b))
       \/ task.do = "EMIT" /\ Becomes(Emit(b, task.op, task.operand, 0))
       \/ /\ task.do = "CAPTURE"
          /\ Becomes(Capture(b, task.name, task.level, task.symbol))
       \/ /\ task.do = "CONSEQUENCE"
          /\ Becomes(CompileConsequence(b, task.consequence, task.alternative))
       \/ /\ task.do = "ALTERNATIVE"
          /\ Becomes(CompileAlternative(b, task.stmts, task.jump_if_false))
       \/ task.do = "END_IF" /\ Becomes(EndIf(b, task.jump_end))
       \/ task.do = "ARGUMENTS" /\ Becomes(CompileArguments(b, task.exprs))
       \/ task.do = "DEFINE" /\ Becomes(DefineSymbol(b, task.name))
       \/ task.do = "LOAD" /\ Becomes(LoadSymbol(b, task.symbol))
       \/ /\ task.do = "CLOSURE"
          /\ Becomes(MakeClosure(b, task.function, task.free_count))
  BY DEF CompileStep, Doing
<1>7. b = Begun(c) /\ task = Task(c)
  OBVIOUS
<1> HIDE DEF b, task, c
<1> SUFFICES \E x : Becomes(x) /\ (Stops(x) \/ Aligned(x))
  OBVIOUS
<1>8. CASE task.do = "STATEMENT" /\ Becomes(CompileStatement(b, task.stmt))
  BY <1>2, <1>3, <1>8, TaskKinds, StatementAdvances
<1>9. CASE task.do = "LET" /\ Becomes(CompileLet(b, task.name))
  BY <1>2, <1>3, <1>9, TaskKinds, LetAdvances
<1>10. CASE task.do = "STORE" /\ Becomes(StoreSymbol(b, task.symbol))
  BY <1>2, <1>3, <1>10, TaskKinds, SymbolAdvances
<1>11. CASE task.do = "EXPRESSION" /\ Becomes(CompileExpression(b, task.expr, task.name))
  <2>1. task.expr \in Exprs /\ task.name \in STRING \union {NoName}
    BY <1>2, <1>11, TaskKinds
  <2> DEFINE d == CompileExpression(b, task.expr, task.name)
  <2>2. \/ Stops(d)
        \/ Advances(b, task, d)
        \/ \E e \in Compilers :
             /\ task.expr.type = "FUNCTION"
             /\ Readies(b, e, <<FUNCTION(Len(task.expr.parameters)), LEAVE>>)
             /\ Advances(b, task, e)
             /\ Opens(e, d, task.expr, task.name)
    BY <1>2, <1>11, <2>1, ExpressionAdvances, Zenon
  <2> HIDE DEF d
  <2>3. CASE Stops(d) \/ Advances(b, task, d)
    BY <1>3, <1>11, <2>3 DEF d
  <2>4. CASE \E e \in Compilers :
               /\ task.expr.type = "FUNCTION"
               /\ Readies(b, e, <<FUNCTION(Len(task.expr.parameters)), LEAVE>>)
               /\ Advances(b, task, e)
               /\ Opens(e, d, task.expr, task.name)
    <3>1. PICK e \in Compilers :
               /\ task.expr.type = "FUNCTION"
               /\ Advances(b, task, e)
               /\ Opens(e, d, task.expr, task.name)
      BY <2>4
    <3>2. Aligned(e)
      BY <1>1, <1>5, <1>7, <3>1, AlignedAdvances
    <3>3. Aligned(d)
      BY <2>1, <3>1, <3>2, AlignedOpens
    <3> QED
      BY <1>11, <3>3 DEF d
  <2> QED
    BY <2>2, <2>3, <2>4
<1>12. CASE task.do = "LEAVE" /\ Becomes(LeaveExpression(b))
  BY <1>2, <1>3, <1>12, LeaveAdvances
<1>13. CASE task.do = "EMIT" /\ Becomes(Emit(b, task.op, task.operand, 0))
  BY <1>2, <1>3, <1>4, <1>13, EmitAdvances
<1>14. CASE /\ task.do = "CAPTURE"
            /\ Becomes(Capture(b, task.name, task.level, task.symbol))
  <2>1. task.level \in 2 .. Level(b) /\ Level(b) \in Nat
    BY <1>2, <1>14, CurrentScope DEF Fits
  <2>2. task.level \in 1 .. Level(b)
    BY <2>1
  <2> QED
    BY <1>2, <1>3, <1>14, <2>2, TaskKinds, CaptureAdvances
<1>15. CASE /\ task.do = "CONSEQUENCE"
            /\ Becomes(CompileConsequence(b, task.consequence, task.alternative))
  BY <1>2, <1>3, <1>15, TaskKinds, ConsequenceAdvances
<1>16. CASE /\ task.do = "ALTERNATIVE"
            /\ Becomes(CompileAlternative(b, task.stmts, task.jump_if_false))
  <2>1. task.stmts \in Seq(Stmts) /\ task.jump_if_false \in Nat
    BY <1>2, <1>16, TaskKinds
  <2>2. JumpAt(b, task.jump_if_false, "JUMP_NOT_TRUTHY")
    BY <1>2, <1>16, <2>1 DEF Fits, JumpAt
  <2> QED
    BY <1>2, <1>3, <1>16, <2>1, <2>2, AlternativeAdvances
<1>17. CASE task.do = "END_IF" /\ Becomes(EndIf(b, task.jump_end))
  <2>1. task.jump_end \in Nat
    BY <1>2, <1>17, TaskKinds
  <2>2. JumpAt(b, task.jump_end, "JUMP")
    BY <1>2, <1>17, <2>1 DEF Fits, JumpAt
  <2> QED
    BY <1>2, <1>3, <1>17, <2>2, EndIfAdvances
<1>18. CASE task.do = "ARGUMENTS" /\ Becomes(CompileArguments(b, task.exprs))
  BY <1>2, <1>3, <1>18, TaskKinds, ArgumentsAdvance
<1>19. CASE task.do = "DEFINE" /\ Becomes(DefineSymbol(b, task.name))
  BY <1>2, <1>3, <1>19, TaskKinds, LeaveAdvances
<1>20. CASE task.do = "LOAD" /\ Becomes(LoadSymbol(b, task.symbol))
  BY <1>2, <1>3, <1>20, TaskKinds, SymbolAdvances
<1>21. CASE /\ task.do = "CLOSURE"
            /\ Becomes(MakeClosure(b, task.function, task.free_count))
  <2>1. task.function \in CompiledFunctions /\ task.free_count \in Nat
    BY <1>2, <1>21, TaskKinds
  <2> DEFINE d == MakeClosure(b, task.function, task.free_count)
             index == Len(b.constants)
  <2>2. \/ Stops(d)
        \/ \E e \in Compilers :
             /\ AddsFunction(b, e, task.function)
             /\ Emits(e, d, "CLOSURE", index, task.free_count)
    BY <1>2, <2>1, ClosureIs, Zenon
  <2>3. index \in Nat
    BY <1>2 DEF Compilers
  <2> HIDE DEF d, index
  <2>4. ASSUME NEW e \in Compilers, AddsFunction(b, e, task.function),
               Emits(e, d, "CLOSURE", index, task.free_count)
        PROVE  Aligned(d)
    BY <1>1, <1>5, <1>7, <1>21, <2>3, <2>4, AlignedCloses
  <2> QED
    BY <1>21, <2>2, <2>4 DEF d
<1> QED
  BY <1>6, <1>8, <1>9, <1>10, <1>11, <1>12, <1>13, <1>14, <1>15, <1>16, <1>17, <1>18,
     <1>19, <1>20, <1>21

(* The end of a function leaves the compiler aligned, or with a failure. *)
LEMMA EndAligned ==
  ASSUME compiler \in Compilers, ~Failed(compiler), Sane(compiler), Aligned(compiler),
         CompileEndFunction
  PROVE  \E d : Becomes(d) /\ (Stops(d) \/ Aligned(d))
<1> DEFINE c == compiler
           d == EndFunction(c)
<1>1. Todo(c) = << >> /\ ~Compiled(c) /\ Becomes(d)
  BY DEF CompileEndFunction, Todo
<1>2. Level(c) > 1 /\ Level(c) \in Nat
  BY <1>1, CurrentScope DEF Compiled, Todo
<1>3. /\ c \in Compilers /\ ~Failed(c) /\ Placed(c) /\ Aligned(c)
      /\ \A l \in 1 .. Level(c) - 1 : Waiting(c.scopes[l].todo)
  BY DEF Sane, Placed
<1> HIDE DEF c
<1>4. Waiting(c.scopes[Level(c) - 1].todo)
  <2>1. Level(c) - 1 \in 1 .. Level(c) - 1
    BY <1>2
  <2> QED
    BY <1>3, <2>1
<1>5. Stops(d) \/ \E e \in Compilers : Body(c, e) /\ Closes(e, d)
  <2>1. /\ c.scopes[Level(c) - 1].todo # << >>
        /\ c.scopes[Level(c) - 1].todo[1].do = "FUNCTION"
    BY <1>4 DEF Waiting
  <2> QED
    BY <1>2, <1>3, <2>1, EndFunctionIs, Zenon
<1> HIDE DEF d
<1>6. ASSUME NEW e \in Compilers, Body(c, e), Closes(e, d)
      PROVE  Aligned(d)
  BY <1>1, <1>2, <1>3, <1>6, AlignedEnds
<1> QED
  BY <1>1, <1>5, <1>6

(* The compiler, as long as it has not failed, is aligned. *)
AlignedInv == ~Failed(compiler) => Aligned(compiler)

(* It is at the start. *)
LEMMA InitAligned == CompiledInit => AlignedInv
<1> SUFFICES ASSUME CompiledInit PROVE Aligned(compiler)
  BY DEF AlignedInv
<1> DEFINE none == << >>
<1>1. /\ Len(compiler.scopes) = 1
      /\ compiler.scopes[1].instructions = << >>
      /\ compiler.scopes[1].todo = none
      /\ Len(compiler.functions) = 0
  BY DEF CompiledInit, CompilerInit, EmptyScope
<1>2. none \in Seq(Tasks) /\ Len(none) = 0 /\ 1 .. Len(none) = {}
  OBVIOUS
<1> HIDE DEF none
<1>3. Lined(<< >>, none)
  BY <1>2, LinedEmpty
<1>4. Level(compiler) = 1
  BY <1>1 DEF Level
<1> QED
  BY <1>1, <1>2, <1>3, <1>4 DEF Aligned

(* It stays so in every step. *)
LEMMA NextAligned ==
  CompilerInv /\ AlignedInv /\ [CompiledNext]_compiledVars => AlignedInv'
<1> SUFFICES ASSUME CompilerInv, AlignedInv, [CompiledNext]_compiledVars
             PROVE  AlignedInv'
  OBVIOUS
<1>1. \A d : Becomes(d) => compiler' = d
  BY DEF Becomes
<1>2. compiling => /\ compiler \in Compilers /\ ~Failed(compiler)
                   /\ Sane(compiler) /\ Aligned(compiler)
  BY DEF CompilerInv, AlignedInv
<1>3. ASSUME NEW d, Becomes(d), Stops(d) \/ Aligned(d)
      PROVE  AlignedInv'
  <2>1. compiler' = d
    BY <1>1, <1>3
  <2> QED
    BY <1>3, <2>1 DEF AlignedInv, Stops
<1>4. CASE ReadLine
  <2>1. PICK stmts \in Lines : compiler' = Compile(compiler, stmts)
    BY <1>4 DEF ReadLine, Enters
  <2>2. compiler \in Compilers /\ ~Failed(compiler) /\ Compiled(compiler)
        /\ Aligned(compiler)
    BY <1>4 DEF ReadLine, Ready, CompilerInv, AlignedInv
  <2>3. Aligned(Compile(compiler, stmts))
    BY <2>2, AlignedStarts
  <2> QED
    BY <2>1, <2>3 DEF AlignedInv
<1>5. CASE CompileStep
  <2>1. compiling
    BY <1>5 DEF CompileStep, Doing
  <2>2. \E d : Becomes(d) /\ (Stops(d) \/ Aligned(d))
    BY <1>2, <1>5, <2>1, TaskAligned
  <2> QED
    BY <1>3, <2>2
<1>6. CASE CompileEndFunction
  <2>1. compiling
    BY <1>6 DEF CompileEndFunction
  <2>2. \E d : Becomes(d) /\ (Stops(d) \/ Aligned(d))
    BY <1>2, <1>6, <2>1, EndAligned
  <2> QED
    BY <1>3, <2>2
<1>7. CASE compiler' = compiler
  BY <1>7 DEF AlignedInv
<1>8. CASE UNCHANGED compiledVars
  BY <1>7, <1>8 DEF compiledVars
<1> QED
  BY <1>4, <1>5, <1>6, <1>7, <1>8 DEF CompiledNext, GoOn, RunCompiled, Execute

-----------------------------------------------------------------------------
(* What the machine is handed *)

(* The code the machine runs has the heights of Verified, and so has that of every
   function there is. *)
RunsBalanced ==
  running => /\ HeightsAgree(Running.instructions)
             /\ \A k \in 1 .. Len(Running.functions) :
                  Balanced(Running.functions[k].instructions)

(* The machine writes closures after its main closure only. *)
ClosuresKept ==
  /\ closure_count \in Nat
  /\ DOMAIN closures = 0 .. MaxVmClosures
  /\ RunsBalanced

(* A step of the machine leaves the main closure alone. *)
LEMMA MainStays ==
  ASSUME closure_count \in Nat, DOMAIN closures = 0 .. MaxVmClosures, VmStep
  PROVE  /\ closures'[0] = closures[0]
         /\ closure_count' \in Nat
         /\ DOMAIN closures' = 0 .. MaxVmClosures
<1>1. CASE PushClosure
  <2>1. closure_count' = closure_count + 1 /\ closure_count + 1 # 0
    BY <1>1 DEF PushClosure
  <2>2. \E x : closures' = [closures EXCEPT ![closure_count + 1] = x]
    BY <1>1 DEF PushClosure
  <2>3. PICK x : closures' = [closures EXCEPT ![closure_count + 1] = x]
    BY <2>2
  <2> QED
    BY <2>1, <2>3, VmAssumption
<1>2. CASE UNCHANGED <<closures, closure_count>>
  BY <1>2
<1>3. VmStep => PushClosure \/ UNCHANGED <<closures, closure_count>>
  BY DEF VmStep, Load, Pop, ExecuteBinary, ExecuteUnary, Jump, SetGlobal, SetLocal,
         Call, ReturnFromMain, ReturnToCaller, Finish, Abort
<1> QED
  BY <1>1, <1>2, <1>3

(* Code that fits no jump has the verifier's heights. *)
LEMMA LinedAgrees ==
  ASSUME NEW code \in Seq(Instructions), Lined(code, << >>)
  PROVE  HeightsAgree(code)
<1> DEFINE none == {}
<1>1. PICK h : Fit(code, h, none)
  BY LinedNoTask DEF LinedBare
<1>2. Consistent(code, h)
  BY <1>1, FitConsistent
<1> QED
  BY <1>2, ConsistentAgrees

(* What the compiler hands over has them. *)
LEMMA HandedOver ==
  ASSUME NEW c \in Compilers, Aligned(c), Compiled(c)
  PROVE  /\ HeightsAgree(Emitted(c))
         /\ \A k \in 1 .. Len(c.functions) : Balanced(c.functions[k].instructions)
<1>1. /\ Level(c) = 1 /\ Scope(c).todo = << >>
      /\ Scope(c) = c.scopes[Level(c)]
      /\ Emitted(c) \in Seq(Instructions)
  BY CurrentScope DEF Compiled
<1>2. Lined(Emitted(c), << >>)
  <2>1. Lined(c.scopes[1].instructions, c.scopes[1].todo)
    BY <1>1 DEF Aligned
  <2> QED
    BY <1>1, <2>1 DEF Emitted
<1> QED
  BY <1>1, <1>2, LinedAgrees DEF Aligned

(* It is so at the start. *)
LEMMA InitBalanced == CompiledInit => ClosuresKept
BY DEF CompiledInit, VmInit, ClosuresKept, RunsBalanced

(* It stays so in every step. *)
LEMMA NextBalanced ==
  CompilerInv /\ AlignedInv /\ ClosuresKept /\ [CompiledNext]_compiledVars => ClosuresKept'
<1> SUFFICES ASSUME CompilerInv, AlignedInv, ClosuresKept, [CompiledNext]_compiledVars
             PROVE  ClosuresKept'
  OBVIOUS
<1>1. CASE UNCHANGED <<running, functions, constants, closures, closure_count>>
  BY <1>1 DEF ClosuresKept, RunsBalanced, Running
<1>2. CASE ReadLine \/ CompileStep \/ CompileEndFunction
  <2>1. UNCHANGED <<running, functions, constants, closures, closure_count>>
    BY <1>2 DEF ReadLine, Enters, CompileStep, CompileEndFunction, Becomes, vmVars
  <2> QED
    BY <1>1, <2>1
<1>3. CASE RunCompiled
  <2>1. /\ compiler \in Compilers /\ Aligned(compiler) /\ Compiled(compiler)
    BY <1>3 DEF RunCompiled, CompilerInv, AlignedInv
  <2>2. /\ closure_count' = closure_count
        /\ functions' = compiler.functions
        /\ \E x : x.function.instructions = Emitted(compiler)
                    /\ closures' = [closures EXCEPT ![0] = x]
    <3> DEFINE b == BytecodeOf(compiler)
               x == [function |-> [NoFunction EXCEPT !.instructions = b.instructions],
                     free_values |-> << >>]
    <3>1. /\ closure_count' = closure_count
          /\ functions' = b.functions
          /\ closures' = [closures EXCEPT ![0] = x]
      BY <1>3 DEF RunCompiled, VmRun
    <3>2. b.functions = compiler.functions /\ b.instructions = Emitted(compiler)
      BY <2>1 DEF BytecodeOf, Emitted, Compiled, Scope
    <3>3. x.function.instructions = b.instructions
      BY DEF NoFunction
    <3> HIDE DEF b, x
    <3> QED
      BY <3>1, <3>2, <3>3
  <2>3. PICK x : x.function.instructions = Emitted(compiler)
                   /\ closures' = [closures EXCEPT ![0] = x]
    BY <2>2
  <2>4. 0 \in DOMAIN closures
    BY VmAssumption DEF ClosuresKept
  <2>5. /\ closures'[0].function.instructions = Emitted(compiler)
        /\ DOMAIN closures' = DOMAIN closures
    BY <2>3, <2>4
  <2>6. RunsBalanced'
    BY <2>1, <2>2, <2>5, HandedOver DEF RunsBalanced, Running
  <2> QED
    BY <2>2, <2>5, <2>6 DEF ClosuresKept
<1>4. CASE Execute
  <2>1. /\ running
        /\ UNCHANGED <<constants, functions>>
        /\ closures'[0] = closures[0]
        /\ closure_count' \in Nat
        /\ DOMAIN closures' = 0 .. MaxVmClosures
    BY <1>4, VmStepKeepsBytecode, MainStays DEF Execute, ClosuresKept
  <2> QED
    BY <2>1 DEF ClosuresKept, RunsBalanced, Running
<1>5. CASE UNCHANGED compiledVars
  BY <1>1, <1>5 DEF compiledVars, vmVars
<1> QED
  BY <1>2, <1>3, <1>4, <1>5 DEF CompiledNext, GoOn

(* The stack half of CompilesVerified, with no hypothesis on the program that is
   compiled (compiler_compile_if_expression, compiler_remove_last, compiler_patch_jump,
   compiler.c): whatever a session has compiled, all ways through the code the machine
   runs agree on the height of the stack wherever they meet, no instruction takes more
   than there is, every jump stays inside its function, and no function runs past its
   end. *)
THEOREM CompilesBalanced == CompiledSpec => []RunsBalanced
<1>1. CompilerInv /\ AlignedInv /\ ClosuresKept => RunsBalanced
  BY DEF ClosuresKept
<1> QED
  BY <1>1, InitCompiler, NextCompiler, InitAligned, NextAligned, InitBalanced,
     NextBalanced, PTL DEF CompiledSpec

-----------------------------------------------------------------------------
(* Names and operands *)

(* A symbol known at a level is one that code there can load. *)
SymbolFits(c, l, s) ==
  /\ s.scope = "GLOBAL" => s.index < MaxVmGlobals
  /\ s.scope # "GLOBAL" => l > 1
  /\ s.scope = "LOCAL" => s.index < c.scopes[l].definition_count
  /\ s.scope = "FREE" => s.index < Len(c.scopes[l].free_symbols)

(* One instruction of what OperandsValid says of all. *)
OperandFits(b, i, locals) ==
  /\ i.op = "CONSTANT" => i.operand < Len(b.constants)
  /\ i.op \in {"GET_GLOBAL", "SET_GLOBAL"} => i.operand < MaxVmGlobals
  /\ i.op \in {"GET_LOCAL", "SET_LOCAL"} => i.operand < locals
  /\ i.op = "CLOSURE" =>
       /\ IsFunctionConstant(b, i.operand)
       /\ FreeValuesNeeded(FunctionConstant(b, i.operand).instructions, i.operand2)

(* The main code has no locals, however many globals are defined. *)
LocalsAt(c, l) == IF l = 1 THEN 0 ELSE c.scopes[l].definition_count

InstructionFits(c, l, i) ==
  /\ OperandFits(c, i, LocalsAt(c, l))
  /\ i.op = "GET_FREE" => i.operand < Len(c.scopes[l].free_symbols)
  /\ i.op = "CURRENT_CLOSURE" => l > 1

(* What a task at a level carries is fit to be emitted there. *)
TaskFits(c, l, t) ==
  /\ t.do = "STORE" => SymbolFits(c, l, t.symbol) /\ t.symbol.scope \in {"GLOBAL", "LOCAL"}
  /\ t.do = "LOAD" => SymbolFits(c, l, t.symbol)
  /\ t.do = "CAPTURE" => t.level \in 2 .. l /\ SymbolFits(c, t.level - 1, t.symbol)
  /\ t.do = "CLOSURE" =>
       /\ OperandsValid(c, t.function.instructions, t.function.local_count)
       /\ FreeValuesNeeded(t.function.instructions, t.free_count)
  /\ t.do = "EMIT" => t.op \in {"POP", "RETURN_VALUE", "CALL"} \union BinaryOps \union UnaryOps

ScopeFits(c, l) ==
  LET s == c.scopes[l] IN
  /\ \A name \in DOMAIN s.entries : SymbolFits(c, l, s.entries[name])
  /\ \A k \in 1 .. Len(s.free_symbols) : l > 1 /\ SymbolFits(c, l - 1, s.free_symbols[k])
  /\ \A k \in 1 .. Len(s.todo) : TaskFits(c, l, s.todo[k])
  /\ \A k \in 1 .. Len(s.instructions) : InstructionFits(c, l, s.instructions[k])

(* IsBytecode, of the constants of a compiler. *)
ConstantsFit(c) ==
  \A k \in 1 .. Len(c.constants) :
    \/ c.constants[k].type = "INT" /\ c.constants[k].data \in MinInt .. MaxInt
    \/ /\ c.constants[k].type = "COMPILED_FUNCTION"
       /\ c.constants[k].data \in 1 .. Len(c.functions)

FunctionsFit(c) ==
  \A k \in 1 .. Len(c.functions) :
    OperandsValid(c, c.functions[k].instructions, c.functions[k].local_count)

(* Every name, task, instruction and function there is carries what it needs. *)
Named(c) ==
  /\ \A l \in 1 .. Level(c) : ScopeFits(c, l)
  /\ FunctionsFit(c)
  /\ ConstantsFit(c)

(* All operands are valid if each one is. *)
LEMMA OperandsFit ==
  ASSUME NEW b, NEW code, NEW locals
  PROVE  OperandsValid(b, code, locals)
           <=> \A k \in 1 .. Len(code) : OperandFits(b, code[k], locals)
BY DEF OperandsValid, OperandFits

(* d has room for what c has. *)
Wider(c, d, l) ==
  /\ c.scopes[l].definition_count <= d.scopes[l].definition_count
  /\ Len(c.scopes[l].free_symbols) <= Len(d.scopes[l].free_symbols)

(* d has all the bytecode of c. *)
MoreBytecode(c, d) ==
  Longer(c.constants, d.constants) /\ Longer(c.functions, d.functions)

(* What is counted of a scope. *)
LEMMA ScopeNumbers ==
  ASSUME NEW c \in Compilers, NEW l \in 1 .. Level(c)
  PROVE  /\ c.scopes[l].definition_count \in Nat
         /\ c.scopes[l].free_symbols \in Seq(Symbols)
         /\ Len(c.scopes[l].free_symbols) \in Nat
<1>1. c.scopes[l].definition_count \in Nat /\ c.scopes[l].free_symbols \in Seq(Symbols)
  BY OpenScope
<1> QED
  BY <1>1

(* The same of the bytecode. *)
LEMMA BytecodeNumbers ==
  ASSUME NEW c \in Compilers
  PROVE  /\ c.constants \in Seq(Values) /\ Len(c.constants) \in Nat
         /\ c.functions \in Seq(CompiledFunctions) /\ Len(c.functions) \in Nat
<1>1. c.constants \in Seq(Values) /\ c.functions \in Seq(CompiledFunctions)
  BY DEF Compilers
<1> QED
  BY <1>1

(* What fits goes on to fit. *)
LEMMA OperandStays ==
  ASSUME NEW c \in Compilers, NEW d \in Compilers, ConstantsFit(c), MoreBytecode(c, d),
         NEW m \in Nat, NEW n \in Nat, m <= n, NEW i \in Instructions,
         OperandFits(c, i, m)
  PROVE  OperandFits(d, i, n)
<1>1. /\ i.operand \in Nat /\ i.operand2 \in Nat
      /\ Len(c.constants) \in Nat /\ Len(d.constants) \in Nat
      /\ Len(c.constants) <= Len(d.constants)
      /\ \A k \in 1 .. Len(c.constants) : d.constants[k] = c.constants[k]
      /\ \A k \in 1 .. Len(c.functions) : d.functions[k] = c.functions[k]
  <2>1. i.operand \in Nat /\ i.operand2 \in Nat
    BY DEF Instructions
  <2> QED
    BY <2>1, BytecodeNumbers DEF MoreBytecode, Longer
<1>2. i.op = "CONSTANT" => i.operand < Len(d.constants)
  BY <1>1 DEF OperandFits
<1>3. i.op \in {"GET_LOCAL", "SET_LOCAL"} => i.operand < n
  BY <1>1 DEF OperandFits
<1>4. ASSUME i.op = "CLOSURE"
      PROVE  /\ IsFunctionConstant(d, i.operand)
             /\ FunctionConstant(d, i.operand) = FunctionConstant(c, i.operand)
  <2>1. /\ i.operand < Len(c.constants)
        /\ c.constants[i.operand + 1].type = "COMPILED_FUNCTION"
    BY <1>4 DEF OperandFits, IsFunctionConstant
  <2>2. i.operand + 1 \in 1 .. Len(c.constants) /\ i.operand < Len(d.constants)
    BY <1>1, <2>1
  <2>3. d.constants[i.operand + 1] = c.constants[i.operand + 1]
    BY <1>1, <2>2
  <2>4. c.constants[i.operand + 1].data \in 1 .. Len(c.functions)
    BY <2>1, <2>2 DEF ConstantsFit
  <2> QED
    BY <1>1, <2>1, <2>2, <2>3, <2>4 DEF IsFunctionConstant, FunctionConstant
<1> QED
  BY <1>2, <1>3, <1>4 DEF OperandFits

(* A symbol that fits goes on fitting. *)
LEMMA SymbolStays ==
  ASSUME NEW c \in Compilers, NEW d \in Compilers, NEW l \in 1 .. Level(c),
         l \in 1 .. Level(d), Wider(c, d, l), NEW s \in Symbols, SymbolFits(c, l, s)
  PROVE  SymbolFits(d, l, s)
<1>1. /\ s.index \in Nat
      /\ c.scopes[l].definition_count \in Nat /\ d.scopes[l].definition_count \in Nat
      /\ Len(c.scopes[l].free_symbols) \in Nat /\ Len(d.scopes[l].free_symbols) \in Nat
  <2>1. s.index \in Nat
    BY DEF Symbols
  <2> QED
    BY <2>1, ScopeNumbers
<1> DEFINE i == s.index
           a == c.scopes[l].definition_count
           b == d.scopes[l].definition_count
           m == Len(c.scopes[l].free_symbols)
           n == Len(d.scopes[l].free_symbols)
<1>2. a <= b /\ m <= n
  BY DEF Wider
<1>3. /\ s.scope = "GLOBAL" => i < MaxVmGlobals
      /\ s.scope # "GLOBAL" => l > 1
      /\ s.scope = "LOCAL" => i < a
      /\ s.scope = "FREE" => i < m
  BY DEF SymbolFits
<1>4. i \in Nat /\ a \in Nat /\ b \in Nat /\ m \in Nat /\ n \in Nat
  BY <1>1
<1> HIDE DEF i, a, b, m, n
<1>5. (i < a => i < b) /\ (i < m => i < n)
  BY <1>2, <1>4
<1> QED
  BY <1>3, <1>5 DEF SymbolFits, i, b, n

(* So does an instruction of an open scope. *)
LEMMA InstructionStays ==
  ASSUME NEW c \in Compilers, NEW d \in Compilers, ConstantsFit(c), MoreBytecode(c, d),
         NEW l \in 1 .. Level(c), l \in 1 .. Level(d), Wider(c, d, l),
         NEW i \in Instructions, InstructionFits(c, l, i)
  PROVE  InstructionFits(d, l, i)
<1>1. /\ i.operand \in Nat
      /\ c.scopes[l].definition_count \in Nat /\ d.scopes[l].definition_count \in Nat
      /\ Len(c.scopes[l].free_symbols) \in Nat /\ Len(d.scopes[l].free_symbols) \in Nat
  <2>1. i.operand \in Nat
    BY DEF Instructions
  <2> QED
    BY <2>1, ScopeNumbers
<1>2. /\ LocalsAt(c, l) \in Nat /\ LocalsAt(d, l) \in Nat
      /\ LocalsAt(c, l) <= LocalsAt(d, l)
  BY <1>1 DEF LocalsAt, Wider
<1>3. OperandFits(d, i, LocalsAt(d, l))
  BY <1>2, OperandStays DEF InstructionFits
<1> DEFINE o == i.operand
           m == Len(c.scopes[l].free_symbols)
           n == Len(d.scopes[l].free_symbols)
<1>4. m <= n
  BY DEF Wider
<1>5. i.op = "GET_FREE" => o < m
  BY DEF InstructionFits
<1>6. o \in Nat /\ m \in Nat /\ n \in Nat
  BY <1>1
<1> HIDE DEF o, m, n
<1>7. o < m => o < n
  BY <1>4, <1>6
<1>8. i.op = "GET_FREE" => i.operand < Len(d.scopes[l].free_symbols)
  BY <1>5, <1>7 DEF o, n
<1> QED
  BY <1>3, <1>8 DEF InstructionFits

(* A function's operands stay valid. *)
LEMMA FunctionStays ==
  ASSUME NEW c \in Compilers, NEW d \in Compilers, ConstantsFit(c), MoreBytecode(c, d),
         NEW f \in CompiledFunctions, OperandsValid(c, f.instructions, f.local_count)
  PROVE  OperandsValid(d, f.instructions, f.local_count)
<1>1. f.instructions \in Seq(Instructions) /\ f.local_count \in Nat
  BY DEF CompiledFunctions
<1>2. \A k \in 1 .. Len(f.instructions) : f.instructions[k] \in Instructions
  BY <1>1
<1>3. \A k \in 1 .. Len(f.instructions) : OperandFits(c, f.instructions[k], f.local_count)
  BY OperandsFit
<1>4. ASSUME NEW k \in 1 .. Len(f.instructions)
      PROVE  OperandFits(d, f.instructions[k], f.local_count)
  <2> DEFINE m == f.local_count
  <2>1. m \in Nat /\ m <= m
    BY <1>1
  <2> QED
    BY <1>2, <1>3, <2>1, OperandStays
<1> QED
  BY <1>4, OperandsFit

(* So does a task. *)
LEMMA TaskStays ==
  ASSUME NEW c \in Compilers, NEW d \in Compilers, ConstantsFit(c), MoreBytecode(c, d),
         NEW l \in 1 .. Level(c), l \in 1 .. Level(d), \A k \in 1 .. l : Wider(c, d, k),
         NEW t \in Tasks, TaskFits(c, l, t)
  PROVE  TaskFits(d, l, t)
<1>1. Level(c) \in Nat /\ Level(d) \in Nat
  BY CurrentScope
<1>2. CASE t.do \in {"STORE", "LOAD"}
  <2>1. t.symbol \in Symbols /\ SymbolFits(c, l, t.symbol)
    BY <1>2, TaskKinds DEF TaskFits
  <2>2. Wider(c, d, l)
    BY <1>1
  <2>3. SymbolFits(d, l, t.symbol)
    BY <2>1, <2>2, SymbolStays
  <2>4. t.do = "STORE" => t.symbol.scope \in {"GLOBAL", "LOCAL"}
    BY DEF TaskFits
  <2> QED
    BY <1>2, <2>3, <2>4 DEF TaskFits
<1>3. CASE t.do = "CAPTURE"
  <2>1. /\ t.symbol \in Symbols /\ t.level \in 2 .. l
        /\ SymbolFits(c, t.level - 1, t.symbol)
    BY <1>3, TaskKinds DEF TaskFits
  <2>2. t.level - 1 \in 1 .. l /\ t.level - 1 \in 1 .. Level(c) /\ t.level - 1 \in 1 .. Level(d)
    BY <1>1, <2>1
  <2>3. SymbolFits(d, t.level - 1, t.symbol)
    BY <2>1, <2>2, SymbolStays
  <2> QED
    BY <1>3, <2>1, <2>3 DEF TaskFits
<1>4. CASE t.do = "CLOSURE"
  <2>1. /\ t.function \in CompiledFunctions
        /\ OperandsValid(c, t.function.instructions, t.function.local_count)
        /\ FreeValuesNeeded(t.function.instructions, t.free_count)
    BY <1>4, TaskKinds DEF TaskFits
  <2>2. OperandsValid(d, t.function.instructions, t.function.local_count)
    BY <2>1, FunctionStays
  <2> QED
    BY <1>4, <2>1, <2>2 DEF TaskFits
<1>5. CASE t.do \notin {"STORE", "LOAD", "CAPTURE", "CLOSURE"}
  BY <1>5 DEF TaskFits
<1> QED
  BY <1>2, <1>3, <1>4, <1>5

(* At a level, d has what c has there, or what fits. *)
Carries(c, d, l) ==
  LET r == c.scopes[l]
      s == d.scopes[l]
  IN /\ \A name \in DOMAIN s.entries :
          \/ name \in DOMAIN r.entries /\ s.entries[name] = r.entries[name]
          \/ SymbolFits(d, l, s.entries[name])
     /\ \A k \in 1 .. Len(s.free_symbols) :
          \/ \E j \in 1 .. Len(r.free_symbols) : s.free_symbols[k] = r.free_symbols[j]
          \/ l > 1 /\ SymbolFits(d, l - 1, s.free_symbols[k])
     /\ \A k \in 1 .. Len(s.todo) :
          (\E j \in 1 .. Len(r.todo) : s.todo[k] = r.todo[j]) \/ TaskFits(d, l, s.todo[k])
     /\ \A k \in 1 .. Len(s.instructions) :
          \/ \E j \in 1 .. Len(r.instructions) : s.instructions[k] = r.instructions[j]
          \/ InstructionFits(d, l, s.instructions[k])

(* What is carried on fits. *)
LEMMA CarriesFits ==
  ASSUME NEW c \in Compilers, NEW d \in Compilers, ConstantsFit(c), MoreBytecode(c, d),
         NEW l \in 1 .. Level(c), l \in 1 .. Level(d), \A k \in 1 .. l : Wider(c, d, k),
         ScopeFits(c, l), Carries(c, d, l)
  PROVE  ScopeFits(d, l)
<1> DEFINE r == c.scopes[l]
           s == d.scopes[l]
<1>1. l \in Nat /\ Level(c) \in Nat /\ Level(d) \in Nat /\ Wider(c, d, l)
  <2>1. Level(c) \in Nat /\ Level(d) \in Nat
    BY CurrentScope
  <2> QED
    BY <2>1
<1>2. /\ r \in CompilerScopes /\ r.entries \in Tables /\ r.free_symbols \in Seq(Symbols)
      /\ r.instructions \in Seq(Instructions) /\ r.todo \in Seq(Tasks)
  BY OpenScope
<1>3. ASSUME NEW name \in DOMAIN s.entries
      PROVE  SymbolFits(d, l, s.entries[name])
  <2>1. CASE name \in DOMAIN r.entries /\ s.entries[name] = r.entries[name]
    <3>1. r.entries[name] \in Symbols /\ SymbolFits(c, l, r.entries[name])
      BY <1>2, <2>1, TableIs DEF ScopeFits
    <3>2. SymbolFits(d, l, r.entries[name])
      BY <1>1, <3>1, SymbolStays
    <3> QED
      BY <2>1, <3>2
  <2> QED
    BY <2>1 DEF Carries
<1>4. ASSUME NEW k \in 1 .. Len(s.free_symbols)
      PROVE  l > 1 /\ SymbolFits(d, l - 1, s.free_symbols[k])
  <2>1. ASSUME NEW j \in 1 .. Len(r.free_symbols), s.free_symbols[k] = r.free_symbols[j]
        PROVE  l > 1 /\ SymbolFits(d, l - 1, s.free_symbols[k])
    <3>1. /\ r.free_symbols[j] \in Symbols
          /\ l > 1 /\ SymbolFits(c, l - 1, r.free_symbols[j])
      BY <1>2 DEF ScopeFits
    <3>2. l - 1 \in 1 .. Level(c) /\ l - 1 \in 1 .. Level(d) /\ l - 1 \in 1 .. l
      BY <1>1, <3>1
    <3>3. SymbolFits(d, l - 1, r.free_symbols[j])
      BY <3>1, <3>2, SymbolStays
    <3> QED
      BY <2>1, <3>1, <3>3
  <2> QED
    BY <2>1 DEF Carries
<1>5. ASSUME NEW k \in 1 .. Len(s.todo)
      PROVE  TaskFits(d, l, s.todo[k])
  <2>1. ASSUME NEW j \in 1 .. Len(r.todo), s.todo[k] = r.todo[j]
        PROVE  TaskFits(d, l, s.todo[k])
    <3>1. r.todo[j] \in Tasks /\ TaskFits(c, l, r.todo[j])
      BY <1>2 DEF ScopeFits
    <3>2. TaskFits(d, l, r.todo[j])
      BY <3>1, TaskStays
    <3> QED
      BY <2>1, <3>2
  <2> QED
    BY <2>1 DEF Carries
<1>6. ASSUME NEW k \in 1 .. Len(s.instructions)
      PROVE  InstructionFits(d, l, s.instructions[k])
  <2>1. ASSUME NEW j \in 1 .. Len(r.instructions), s.instructions[k] = r.instructions[j]
        PROVE  InstructionFits(d, l, s.instructions[k])
    <3>1. r.instructions[j] \in Instructions /\ InstructionFits(c, l, r.instructions[j])
      BY <1>2 DEF ScopeFits
    <3>2. InstructionFits(d, l, r.instructions[j])
      BY <1>1, <3>1, InstructionStays
    <3> QED
      BY <2>1, <3>2
  <2> QED
    BY <2>1 DEF Carries
<1> QED
  BY <1>3, <1>4, <1>5, <1>6 DEF ScopeFits

(* A scope that stays as it is carries on what it has. *)
LEMMA SameCarries ==
  ASSUME NEW c \in Compilers, NEW d, NEW l \in 1 .. Level(c), d.scopes[l] = c.scopes[l]
  PROVE  Wider(c, d, l) /\ Carries(c, d, l)
<1>1. Wider(c, d, l)
  BY ScopeNumbers DEF Wider
<1>2. Carries(c, d, l)
  BY DEF Carries
<1> QED
  BY <1>1, <1>2

(* Bytecode that stays as it is. *)
LEMMA BytecodeStays ==
  ASSUME NEW c \in Compilers, NEW d \in Compilers, Named(c), SameBytecode(c, d)
  PROVE  MoreBytecode(c, d) /\ ConstantsFit(d) /\ FunctionsFit(d)
<1>1. d.constants = c.constants /\ d.functions = c.functions
  BY DEF SameBytecode
<1>2. MoreBytecode(c, d)
  BY <1>1, BytecodeNumbers DEF MoreBytecode, Longer
<1>3. ConstantsFit(d)
  BY <1>1 DEF ConstantsFit, Named
<1>4. ASSUME NEW k \in 1 .. Len(d.functions)
      PROVE  OperandsValid(d, d.functions[k].instructions, d.functions[k].local_count)
  <2>1. c.functions[k] \in CompiledFunctions
    BY <1>1, BytecodeNumbers
  <2>2. OperandsValid(c, c.functions[k].instructions, c.functions[k].local_count)
    BY <1>1 DEF Named, FunctionsFit
  <2>3. OperandsValid(d, c.functions[k].instructions, c.functions[k].local_count)
    BY <1>2, <2>1, <2>2, FunctionStays DEF Named
  <2> QED
    BY <1>1, <2>3
<1> QED
  BY <1>2, <1>3, <1>4 DEF FunctionsFit

(* A step that opens and closes no scope. *)
LEMMA NamedStays ==
  ASSUME NEW c \in Compilers, NEW d \in Compilers, Named(c), Level(d) = Level(c),
         \A l \in 1 .. Level(c) : Wider(c, d, l) /\ Carries(c, d, l),
         MoreBytecode(c, d), ConstantsFit(d), FunctionsFit(d)
  PROVE  Named(d)
<1>1. Level(c) \in Nat
  BY CurrentScope
<1>2. ASSUME NEW l \in 1 .. Level(d)
      PROVE  ScopeFits(d, l)
  <2>1. l \in 1 .. Level(c) /\ \A k \in 1 .. l : k \in 1 .. Level(c)
    BY <1>1
  <2>2. ScopeFits(c, l) /\ ConstantsFit(c) /\ Carries(c, d, l)
    BY <2>1 DEF Named
  <2>3. \A k \in 1 .. l : Wider(c, d, k)
    BY <2>1
  <2> QED
    BY <2>1, <2>2, <2>3, CarriesFits
<1> QED
  BY <1>2 DEF Named

(* The scopes but the current one. *)
LEMMA BelowCarries ==
  ASSUME NEW c \in Compilers, NEW d \in Compilers, SameBelow(c, d),
         Wider(c, d, Level(c)), Carries(c, d, Level(c))
  PROVE  \A l \in 1 .. Level(c) : Wider(c, d, l) /\ Carries(c, d, l)
<1>1. Level(c) \in Nat
  BY CurrentScope
<1> SUFFICES ASSUME NEW l \in 1 .. Level(c), l # Level(c)
             PROVE  Wider(c, d, l) /\ Carries(c, d, l)
  OBVIOUS
<1>2. l \in 1 .. Level(c) - 1
  BY <1>1
<1>3. d.scopes[l] = c.scopes[l]
  BY <1>2 DEF SameBelow
<1> QED
  BY <1>3, SameCarries

(* A step that changes what is emitted and what is to be done. *)
LEMMA NamedHere ==
  ASSUME NEW c \in Compilers, NEW d \in Compilers, Named(c), SameBelow(c, d),
         SameNames(c, d), SameBytecode(c, d),
         \A k \in 1 .. Len(Todo(d)) :
           \/ \E j \in 1 .. Len(Todo(c)) : Todo(d)[k] = Todo(c)[j]
           \/ TaskFits(d, Level(d), Todo(d)[k]),
         \A k \in 1 .. Len(Emitted(d)) :
           \/ \E j \in 1 .. Len(Emitted(c)) : Emitted(d)[k] = Emitted(c)[j]
           \/ InstructionFits(d, Level(d), Emitted(d)[k])
  PROVE  Named(d)
<1> DEFINE n == Level(c)
<1>1. /\ n \in 1 .. Level(c) /\ Level(d) = n
      /\ Scope(c) = c.scopes[n] /\ Scope(d) = d.scopes[n]
  BY CurrentScope DEF SameBelow
<1>2. /\ d.scopes[n].entries = c.scopes[n].entries
      /\ d.scopes[n].free_symbols = c.scopes[n].free_symbols
      /\ d.scopes[n].definition_count = c.scopes[n].definition_count
      /\ d.scopes[n].todo = Todo(d) /\ c.scopes[n].todo = Todo(c)
      /\ d.scopes[n].instructions = Emitted(d) /\ c.scopes[n].instructions = Emitted(c)
  BY <1>1 DEF SameNames, Todo, Emitted
<1>3. Wider(c, d, n)
  <2>1. c.scopes[n].definition_count \in Nat /\ Len(c.scopes[n].free_symbols) \in Nat
    BY <1>1, ScopeNumbers
  <2> QED
    BY <1>2, <2>1 DEF Wider
<1>4. Carries(c, d, n)
  BY <1>1, <1>2 DEF Carries
<1> HIDE DEF n
<1>5. \A l \in 1 .. Level(c) : Wider(c, d, l) /\ Carries(c, d, l)
  BY <1>3, <1>4, BelowCarries DEF n
<1>6. MoreBytecode(c, d) /\ ConstantsFit(d) /\ FunctionsFit(d)
  BY BytecodeStays
<1> QED
  BY <1>1, <1>5, <1>6, NamedStays DEF n

(* A task in two lists is in one of them. *)
LEMMA JoinedTasks ==
  ASSUME NEW first \in Seq(Tasks), NEW more \in Seq(Tasks),
         NEW k \in 1 .. Len(first \o more)
  PROVE  \/ k \in 1 .. Len(first) /\ (first \o more)[k] = first[k]
         \/ \E j \in 1 .. Len(more) : (first \o more)[k] = more[j]
<1> DEFINE m == Len(first)
           n == Len(more)
           both == first \o more
<1>1. m \in Nat /\ n \in Nat
  OBVIOUS
<1>2. /\ Len(both) = m + n
      /\ \A j \in 1 .. m : both[j] = first[j]
      /\ \A j \in m + 1 .. m + n : both[j] = more[j - m]
  OBVIOUS
<1>3. k \in 1 .. m + n
  BY <1>2
<1> HIDE DEF m, n, both
<1>4. k \in 1 .. m \/ (k \in m + 1 .. m + n /\ k - m \in 1 .. n)
  BY <1>1, <1>3
<1> QED
  BY <1>2, <1>4 DEF m, n, both

(* Tasks asked for. *)
LEMMA NamedAsks ==
  ASSUME NEW c \in Compilers, Named(c), NEW d, NEW tasks, Asks(c, d, tasks),
         \A k \in 1 .. Len(tasks) : TaskFits(d, Level(d), tasks[k])
  PROVE  Named(d)
<1>1. /\ d \in Compilers /\ tasks \in Seq(Tasks)
      /\ SameBelow(c, d) /\ SameNames(c, d) /\ SameBytecode(c, d)
      /\ Emitted(d) = Emitted(c) /\ Todo(d) = tasks \o Todo(c)
  BY DEF Asks, SameCode
<1>2. Todo(c) \in Seq(Tasks)
  BY CurrentScope
<1>3. ASSUME NEW k \in 1 .. Len(Todo(d))
      PROVE  \/ \E j \in 1 .. Len(Todo(c)) : Todo(d)[k] = Todo(c)[j]
             \/ TaskFits(d, Level(d), Todo(d)[k])
  <2> DEFINE todo == Todo(c)
             both == tasks \o todo
  <2>1. \/ k \in 1 .. Len(tasks) /\ both[k] = tasks[k]
        \/ \E j \in 1 .. Len(todo) : both[k] = todo[j]
    BY <1>1, <1>2, <1>3, JoinedTasks
  <2> QED
    BY <1>1, <2>1
<1> QED
  BY <1>1, <1>3, NamedHere

(* An instruction emitted. *)
LEMMA NamedEmits ==
  ASSUME NEW c \in Compilers, Named(c), NEW d, NEW op, NEW operand, NEW operand2,
         Emits(c, d, op, operand, operand2),
         InstructionFits(d, Level(d), Instr(op, operand, operand2))
  PROVE  Named(d)
<1>1. /\ d \in Compilers
      /\ SameBelow(c, d) /\ SameNames(c, d) /\ SameBytecode(c, d)
      /\ Emitted(d) = Append(Emitted(c), Instr(op, operand, operand2))
      /\ Todo(d) = Todo(c)
  BY DEF Emits
<1>2. Emitted(c) \in Seq(Instructions)
  BY CurrentScope
<1>3. ASSUME NEW k \in 1 .. Len(Emitted(d))
      PROVE  \/ \E j \in 1 .. Len(Emitted(c)) : Emitted(d)[k] = Emitted(c)[j]
             \/ InstructionFits(d, Level(d), Emitted(d)[k])
  BY <1>1, <1>2
<1>4. \A k \in 1 .. Len(Todo(d)) : \E j \in 1 .. Len(Todo(c)) : Todo(d)[k] = Todo(c)[j]
  BY <1>1
<1> QED
  BY <1>1, <1>3, <1>4, NamedHere

(* Opcodes with an operand that may be wrong. *)
Careful == {"CONSTANT", "GET_GLOBAL", "SET_GLOBAL", "GET_LOCAL", "SET_LOCAL", "CLOSURE",
            "GET_FREE", "CURRENT_CLOSURE"}

(* The others have none. *)
LEMMA CarelessFits ==
  ASSUME NEW c, NEW l, NEW i, i.op \notin Careful
  PROVE  InstructionFits(c, l, i)
BY DEF InstructionFits, OperandFits, Careful

(* The end of a branch. *)
LEMMA NamedBranch ==
  ASSUME NEW c \in Compilers, Named(c), NEW d, Branch(c, d)
  PROVE  Named(d)
<1>1. CASE Removes(c, d)
  <2>1. /\ d \in Compilers /\ Emitted(c) # << >>
        /\ SameBelow(c, d) /\ SameNames(c, d) /\ SameBytecode(c, d)
        /\ Todo(d) = Todo(c)
        /\ Len(Emitted(d)) = Len(Emitted(c)) - 1
        /\ \A k \in 1 .. Len(Emitted(c)) - 1 : Emitted(d)[k] = Emitted(c)[k]
    BY <1>1 DEF Removes
  <2>2. Len(Emitted(c)) \in Nat
    BY Counts
  <2>3. ASSUME NEW k \in 1 .. Len(Emitted(d))
        PROVE  \E j \in 1 .. Len(Emitted(c)) : Emitted(d)[k] = Emitted(c)[j]
    <3>1. k \in 1 .. Len(Emitted(c)) /\ k \in 1 .. Len(Emitted(c)) - 1
      BY <2>1, <2>2
    <3> QED
      BY <2>1, <3>1
  <2>4. \A k \in 1 .. Len(Todo(d)) : \E j \in 1 .. Len(Todo(c)) : Todo(d)[k] = Todo(c)[j]
    BY <2>1
  <2> QED
    BY <2>1, <2>3, <2>4, NamedHere
<1>2. CASE Emits(c, d, "NULL", 0, 0)
  <2> DEFINE zero == 0
             op == "NULL"
  <2>1. Instr(op, zero, zero).op \notin Careful
    BY DEF Instr, Careful
  <2>2. Emits(c, d, op, zero, zero)
    BY <1>2
  <2> HIDE DEF zero, op
  <2>3. InstructionFits(d, Level(d), Instr(op, zero, zero))
    BY <2>1, CarelessFits
  <2> QED
    BY <2>2, <2>3, NamedEmits
<1> QED
  BY <1>1, <1>2 DEF Branch

(* A jump that gets its target. *)
LEMMA NamedPatches ==
  ASSUME NEW c \in Compilers, Named(c), NEW d, NEW p \in Nat, Patches(c, d, p),
         Emitted(c)[p + 1].op \in JumpOps
  PROVE  Named(d)
<1>1. /\ d \in Compilers /\ p < Len(Emitted(c))
      /\ SameBelow(c, d) /\ SameNames(c, d) /\ SameBytecode(c, d)
      /\ Todo(d) = Todo(c)
      /\ Len(Emitted(d)) = Len(Emitted(c))
      /\ \A k \in 1 .. Len(Emitted(c)) : k # p + 1 => Emitted(d)[k] = Emitted(c)[k]
      /\ Emitted(d)[p + 1] = [Emitted(c)[p + 1] EXCEPT !.operand = Len(Emitted(c))]
  BY DEF Patches
<1>2. Emitted(c) \in Seq(Instructions)
  BY CurrentScope
<1>3. Emitted(c)[p + 1] \in Instructions
  BY <1>1, <1>2
<1>4. Emitted(d)[p + 1].op = Emitted(c)[p + 1].op
  BY <1>1, <1>3 DEF Instructions
<1>5. Emitted(d)[p + 1].op \notin Careful
  BY <1>4 DEF Careful, JumpOps
<1>6. ASSUME NEW k \in 1 .. Len(Emitted(d))
      PROVE  \/ \E j \in 1 .. Len(Emitted(c)) : Emitted(d)[k] = Emitted(c)[j]
             \/ InstructionFits(d, Level(d), Emitted(d)[k])
  <2>1. CASE k = p + 1
    <3>1. InstructionFits(d, Level(d), Emitted(d)[p + 1])
      BY <1>5, CarelessFits
    <3> QED
      BY <2>1, <3>1
  <2>2. CASE k # p + 1
    BY <1>1, <2>2
  <2> QED
    BY <2>1, <2>2
<1>7. \A k \in 1 .. Len(Todo(d)) : \E j \in 1 .. Len(Todo(c)) : Todo(d)[k] = Todo(c)[j]
  BY <1>1
<1> QED
  BY <1>1, <1>6, <1>7, NamedHere

(* A task begun. *)
LEMMA NamedBegun ==
  ASSUME NEW c \in Compilers, ~Failed(c), Named(c), Todo(c) # << >>
  PROVE  LET b == Begun(c) IN
         /\ Named(b)
         /\ Level(b) = Level(c)
         /\ TaskFits(b, Level(b), Task(c))
<1> DEFINE b == Begun(c)
<1>1. /\ b \in Compilers
      /\ SameBelow(c, b) /\ SameNames(c, b) /\ SameBytecode(c, b)
      /\ Emitted(b) = Emitted(c) /\ Todo(b) = Tail(Todo(c)) /\ Task(c) = Head(Todo(c))
      /\ Task(c) \in Tasks
  BY BegunIs DEF SameCode
<1> HIDE DEF b
<1>2. Todo(c) \in Seq(Tasks)
  BY CurrentScope
<1>3. \A k \in 1 .. Len(Todo(b)) : \E j \in 1 .. Len(Todo(c)) : Todo(b)[k] = Todo(c)[j]
  BY <1>1, <1>2
<1>4. \A k \in 1 .. Len(Emitted(b)) :
        \E j \in 1 .. Len(Emitted(c)) : Emitted(b)[k] = Emitted(c)[j]
  BY <1>1
<1>5. Named(b)
  BY <1>1, <1>3, <1>4, NamedHere
<1>6. Level(b) = Level(c)
  BY <1>1 DEF SameBelow
<1>7. TaskFits(b, Level(b), Task(c))
  <2> DEFINE l == Level(c)
             t == Task(c)
  <2>1. l \in 1 .. Level(c) /\ l \in 1 .. Level(b) /\ l \in Nat /\ Scope(c) = c.scopes[l]
    BY <1>6, CurrentScope
  <2>2. 1 \in 1 .. Len(Todo(c)) /\ t = Todo(c)[1]
    BY <1>1, <1>2
  <2>3. TaskFits(c, l, t)
    BY <2>1, <2>2 DEF Named, ScopeFits, Todo
  <2>4. \A k \in 1 .. l : Wider(c, b, k)
    <3>1. Scope(b) = b.scopes[l]
      BY <1>6 DEF Scope
    <3>2. c.scopes[l].definition_count \in Nat /\ Len(c.scopes[l].free_symbols) \in Nat
      BY <2>1, ScopeNumbers
    <3>3. Wider(c, b, l)
      BY <1>1, <2>1, <3>1, <3>2 DEF SameNames, Wider
    <3>4. ASSUME NEW k \in 1 .. l, k # l
          PROVE  Wider(c, b, k)
      <4>1. k \in 1 .. Level(c) - 1 /\ k \in 1 .. Level(c)
        BY <2>1, <3>4
      <4>2. b.scopes[k] = c.scopes[k]
        BY <1>1, <4>1 DEF SameBelow
      <4> QED
        BY <4>1, <4>2, SameCarries
    <3> QED
      BY <3>3, <3>4
  <2>5. MoreBytecode(c, b) /\ ConstantsFit(c)
    BY <1>1, BytecodeStays DEF Named
  <2>6. t \in Tasks
    BY <1>1
  <2> HIDE DEF l, t
  <2>7. TaskFits(b, l, t)
    BY <1>1, <2>1, <2>3, <2>4, <2>5, <2>6, TaskStays
  <2> QED
    BY <1>6, <2>7 DEF l, t
<1> QED
  BY <1>5, <1>6, <1>7 DEF b

(* A symbol looked up where it is known fits there. *)
LEMMA NamedKnows ==
  ASSUME NEW c \in Compilers, Named(c), NEW l \in 1 .. Level(c),
         NEW name \in DOMAIN c.scopes[l].entries
  PROVE  SymbolFits(c, l, c.scopes[l].entries[name])
BY DEF Named, ScopeFits

(* A name defined. *)
LEMMA NamedDefines ==
  ASSUME NEW c \in Compilers, Named(c), NEW name \in STRING, NEW d \in Compilers,
         Defines(c, d, name)
  PROVE  Named(d) /\ Level(d) = Level(c)
<1> DEFINE n == Level(c)
           count == Scope(c).definition_count
           symbol == [scope |-> ScopeOf(n), index |-> count]
<1>1. CASE d = c
  BY <1>1
<1>2. CASE ~Known(c, name) /\ d # c
  <2>1. /\ SameBelow(c, d) /\ SameBytecode(c, d)
        /\ Emitted(d) = Emitted(c) /\ Todo(d) = Todo(c)
        /\ Scope(d).entries = Put(Scope(c).entries, name, symbol)
        /\ Scope(d).free_symbols = Scope(c).free_symbols
        /\ Scope(d).definition_count = count + 1
        /\ n = 1 => count < MaxCompilerSymbols
    BY <1>2 DEF Defines, SameCode
  <2>2. /\ n \in Nat \ {0} /\ n \in 1 .. Level(c) /\ Level(d) = n
        /\ Scope(c) = c.scopes[n] /\ Scope(d) = d.scopes[n]
    BY <2>1, CurrentScope DEF SameBelow
  <2>3. /\ count \in Nat /\ Len(Scope(c).free_symbols) \in Nat
        /\ Scope(c).entries \in Tables
    BY <2>2, ScopeNumbers, OpenScope
  <2>4. symbol \in Symbols /\ symbol.scope = ScopeOf(n) /\ symbol.index = count
    BY <2>3 DEF Symbols, ScopeOf
  <2>5. /\ DOMAIN Scope(d).entries = DOMAIN Scope(c).entries \union {name}
        /\ Scope(d).entries[name] = symbol
        /\ \A other \in DOMAIN Scope(c).entries :
             other # name => Scope(d).entries[other] = Scope(c).entries[other]
    <3> DEFINE t == Scope(c).entries
    <3>1. t \in Tables /\ symbol \in Symbols /\ Scope(d).entries = Put(t, name, symbol)
      BY <2>1, <2>3, <2>4
    <3> HIDE DEF t, symbol
    <3>2. /\ DOMAIN Put(t, name, symbol) = DOMAIN t \union {name}
          /\ Put(t, name, symbol)[name] = symbol
          /\ \A other \in DOMAIN t : other # name => Put(t, name, symbol)[other] = t[other]
      BY <3>1, TableWith
    <3> QED
      BY <3>1, <3>2 DEF t
  <2>6. Wider(c, d, n)
    BY <2>1, <2>2, <2>3 DEF Wider
  <2>7. SymbolFits(d, n, symbol)
    <3>1. CASE n = 1
      <4>1. count < MaxVmGlobals
        BY <2>1, <2>3, <3>1, GlobalsAssumption, CompilerAssumption, VmAssumption
      <4> QED
        BY <2>4, <3>1, <4>1 DEF ScopeOf, SymbolFits
    <3>2. CASE n # 1
      <4>1. count < d.scopes[n].definition_count /\ n > 1
        BY <2>1, <2>2, <2>3, <3>2
      <4> QED
        BY <2>4, <3>2, <4>1 DEF ScopeOf, SymbolFits
    <3> QED
      BY <3>1, <3>2
  <2> HIDE DEF symbol
  <2>8. Carries(c, d, n)
    <3>1. \A other \in DOMAIN d.scopes[n].entries :
            \/ /\ other \in DOMAIN c.scopes[n].entries
               /\ d.scopes[n].entries[other] = c.scopes[n].entries[other]
            \/ SymbolFits(d, n, d.scopes[n].entries[other])
      BY <2>2, <2>5, <2>7
    <3>2. /\ d.scopes[n].free_symbols = c.scopes[n].free_symbols
          /\ d.scopes[n].todo = c.scopes[n].todo
          /\ d.scopes[n].instructions = c.scopes[n].instructions
      BY <2>1, <2>2 DEF Todo, Emitted
    <3> QED
      BY <3>1, <3>2 DEF Carries
  <2> HIDE DEF n
  <2>9. \A l \in 1 .. Level(c) : Wider(c, d, l) /\ Carries(c, d, l)
    BY <2>1, <2>6, <2>8, BelowCarries DEF n
  <2>10. MoreBytecode(c, d) /\ ConstantsFit(d) /\ FunctionsFit(d)
    BY <2>1, BytecodeStays
  <2> QED
    BY <2>2, <2>9, <2>10, NamedStays DEF n
<1> QED
  BY <1>1, <1>2 DEF Defines

(* A symbol captured. *)
LEMMA NamedCaptures ==
  ASSUME NEW c \in Compilers, Named(c), NEW e \in Compilers, NEW l \in 2 .. Level(c),
         NEW name \in STRING, NEW original \in Symbols, SymbolFits(c, l - 1, original),
         Captures(c, e, l, name, original)
  PROVE  /\ Named(e)
         /\ Level(e) = Level(c)
         /\ FreeSymbol(c, l) \in Symbols
         /\ SymbolFits(e, l, FreeSymbol(c, l))
<1> DEFINE r == c.scopes[l]
           s == e.scopes[l]
           symbol == FreeSymbol(c, l)
           count == Len(r.free_symbols)
<1>1. /\ Level(e) = Level(c)
      /\ \A k \in 1 .. Level(c) : k # l => e.scopes[k] = c.scopes[k]
      /\ SameBytecode(c, e)
      /\ s.instructions = r.instructions
      /\ s.todo = r.todo
      /\ s.definition_count = r.definition_count
      /\ s.free_symbols = Append(r.free_symbols, original)
      /\ s.entries = Put(r.entries, name, symbol)
  BY DEF Captures
<1>2. /\ Level(c) \in Nat /\ l \in Nat /\ l > 1
      /\ l \in 1 .. Level(c) /\ l - 1 \in 1 .. Level(c) /\ l - 1 # l
  BY CurrentScope
<1>3. /\ count \in Nat /\ r.free_symbols \in Seq(Symbols) /\ r.definition_count \in Nat
      /\ r.entries \in Tables
  BY <1>2, ScopeNumbers, OpenScope
<1>4. symbol \in Symbols /\ symbol.scope = "FREE" /\ symbol.index = count
  BY <1>3 DEF Symbols, FreeSymbol
<1>5. /\ DOMAIN s.entries = DOMAIN r.entries \union {name}
      /\ s.entries[name] = symbol
      /\ \A other \in DOMAIN r.entries :
           other # name => s.entries[other] = r.entries[other]
  <2> DEFINE t == r.entries
  <2>1. t \in Tables /\ symbol \in Symbols /\ s.entries = Put(t, name, symbol)
    BY <1>1, <1>3, <1>4
  <2> HIDE DEF t, symbol
  <2>2. /\ DOMAIN Put(t, name, symbol) = DOMAIN t \union {name}
        /\ Put(t, name, symbol)[name] = symbol
        /\ \A other \in DOMAIN t : other # name => Put(t, name, symbol)[other] = t[other]
    BY <2>1, TableWith
  <2> QED
    BY <2>1, <2>2 DEF t
<1>6. /\ Len(s.free_symbols) = count + 1
      /\ \A k \in 1 .. count : s.free_symbols[k] = r.free_symbols[k]
      /\ s.free_symbols[count + 1] = original
  <2> DEFINE u == r.free_symbols
  <2>1. /\ u \in Seq(Symbols) /\ s.free_symbols = Append(u, original)
        /\ count = Len(u)
    BY <1>1, <1>3
  <2> HIDE DEF u, count, s
  <2> QED
    BY <2>1, SMTT(30) DEF u
<1>7. Wider(c, e, l)
  <2>1. r.definition_count <= s.definition_count
    BY <1>1, <1>3
  <2>2. count <= Len(s.free_symbols)
    BY <1>3, <1>6
  <2> QED
    BY <2>1, <2>2 DEF Wider
<1>8. SymbolFits(e, l, symbol)
  <2> DEFINE n == Len(s.free_symbols)
  <2>1. count \in Nat /\ n = count + 1
    BY <1>3, <1>6
  <2> HIDE DEF symbol, count, n
  <2>2. count < n
    BY <2>1
  <2>3. symbol.index < Len(e.scopes[l].free_symbols)
    BY <1>4, <2>2 DEF n
  <2> QED
    BY <1>2, <1>4, <2>3 DEF SymbolFits
<1>9. e.scopes[l - 1] = c.scopes[l - 1]
  BY <1>1, <1>2
<1>10. SymbolFits(e, l - 1, original)
  BY <1>9 DEF SymbolFits
<1> HIDE DEF symbol
<1>11. Carries(c, e, l)
  <2>1. \A other \in DOMAIN s.entries :
          \/ other \in DOMAIN r.entries /\ s.entries[other] = r.entries[other]
          \/ SymbolFits(e, l, s.entries[other])
    BY <1>5, <1>8
  <2>2. ASSUME NEW k \in 1 .. Len(s.free_symbols)
        PROVE  \/ \E j \in 1 .. count : s.free_symbols[k] = r.free_symbols[j]
               \/ l > 1 /\ SymbolFits(e, l - 1, s.free_symbols[k])
    <3>1. k \in 1 .. count \/ k = count + 1
      BY <1>3, <1>6, SMTT(30)
    <3> QED
      BY <1>2, <1>6, <1>10, <3>1
  <2> QED
    BY <1>1, <2>1, <2>2 DEF Carries
<1>12. \A k \in 1 .. Level(c) : Wider(c, e, k) /\ Carries(c, e, k)
  BY <1>1, <1>7, <1>11, SameCarries
<1>13. MoreBytecode(c, e) /\ ConstantsFit(e) /\ FunctionsFit(e)
  BY <1>1, BytecodeStays
<1>14. Named(e)
  BY <1>1, <1>12, <1>13, NamedStays
<1> QED
  BY <1>1, <1>4, <1>8, <1>14 DEF symbol

(* The functions there were, with more bytecode. *)
LEMMA FunctionsStay ==
  ASSUME NEW c \in Compilers, NEW d \in Compilers, Named(c), MoreBytecode(c, d),
         NEW k \in 1 .. Len(c.functions)
  PROVE  OperandsValid(d, d.functions[k].instructions, d.functions[k].local_count)
<1>1. c.functions[k] \in CompiledFunctions
  BY BytecodeNumbers
<1>2. OperandsValid(c, c.functions[k].instructions, c.functions[k].local_count)
  BY DEF Named, FunctionsFit
<1>3. OperandsValid(d, c.functions[k].instructions, c.functions[k].local_count)
  BY <1>1, <1>2, FunctionStays DEF Named
<1>4. d.functions[k] = c.functions[k]
  BY DEF MoreBytecode, Longer
<1> QED
  BY <1>3, <1>4

(* A constant that is an integer. *)
LEMMA NamedAdds ==
  ASSUME NEW c \in Compilers, Named(c), NEW n \in 0 .. MaxInt, NEW e,
         Adds(c, e, IntegerValue(n))
  PROVE  /\ Named(e)
         /\ Level(e) = Level(c)
         /\ Len(c.constants) < Len(e.constants)
<1> DEFINE m == Len(c.constants)
<1>1. /\ e \in Compilers /\ e.scopes = c.scopes /\ e.functions = c.functions
      /\ e.constants = Append(c.constants, IntegerValue(n))
  BY DEF Adds
<1>2. c.constants \in Seq(Values) /\ m \in Nat /\ Len(c.functions) \in Nat
  BY BytecodeNumbers
<1>3. /\ Len(e.constants) = m + 1
      /\ \A k \in 1 .. m : e.constants[k] = c.constants[k]
      /\ e.constants[m + 1] = IntegerValue(n)
  BY <1>1, <1>2
<1>4. MoreBytecode(c, e)
  BY <1>1, <1>2, <1>3 DEF MoreBytecode, Longer
<1>5. ConstantsFit(e)
  <2>1. /\ e.constants[m + 1].type = "INT"
        /\ e.constants[m + 1].data \in MinInt .. MaxInt
    BY <1>3, VmAssumption DEF IntegerValue, MinInt
  <2>2. ASSUME NEW k \in 1 .. Len(e.constants)
        PROVE  k \in 1 .. m \/ k = m + 1
    BY <1>2, <1>3
  <2>3. \A k \in 1 .. m :
          \/ e.constants[k].type = "INT" /\ e.constants[k].data \in MinInt .. MaxInt
          \/ /\ e.constants[k].type = "COMPILED_FUNCTION"
             /\ e.constants[k].data \in 1 .. Len(e.functions)
    BY <1>1, <1>3 DEF Named, ConstantsFit
  <2> QED
    BY <2>1, <2>2, <2>3 DEF ConstantsFit
<1>6. FunctionsFit(e)
  BY <1>1, <1>4, FunctionsStay DEF FunctionsFit
<1>7. Level(e) = Level(c)
  BY <1>1 DEF Level
<1>8. \A l \in 1 .. Level(c) : Wider(c, e, l) /\ Carries(c, e, l)
  BY <1>1, SameCarries
<1>9. m < Len(e.constants)
  BY <1>2, <1>3
<1> QED
  BY <1>1, <1>4, <1>5, <1>6, <1>7, <1>8, <1>9, NamedStays

(* A function that is compiled, and its constant. *)
LEMMA NamedAddsFunction ==
  ASSUME NEW c \in Compilers, Named(c), NEW f \in CompiledFunctions, NEW e,
         AddsFunction(c, e, f), OperandsValid(c, f.instructions, f.local_count)
  PROVE  /\ Named(e)
         /\ Level(e) = Level(c)
         /\ IsFunctionConstant(e, Len(c.constants))
         /\ FunctionConstant(e, Len(c.constants)) = f
<1> DEFINE m == Len(c.constants)
           n == Len(c.functions)
<1>1. /\ e \in Compilers /\ e.scopes = c.scopes
      /\ e.functions = Append(c.functions, f)
      /\ e.constants = Append(c.constants, [type |-> "COMPILED_FUNCTION", data |-> n + 1])
  BY DEF AddsFunction
<1>2. /\ c.constants \in Seq(Values) /\ m \in Nat
      /\ c.functions \in Seq(CompiledFunctions) /\ n \in Nat
  BY BytecodeNumbers
<1>3. /\ Len(e.constants) = m + 1
      /\ \A k \in 1 .. m : e.constants[k] = c.constants[k]
      /\ e.constants[m + 1].type = "COMPILED_FUNCTION"
      /\ e.constants[m + 1].data = n + 1
  BY <1>1, <1>2
<1>4. /\ Len(e.functions) = n + 1
      /\ \A k \in 1 .. n : e.functions[k] = c.functions[k]
      /\ e.functions[n + 1] = f
  BY <1>1, <1>2
<1> HIDE DEF m, n
<1>5. MoreBytecode(c, e)
  BY <1>2, <1>3, <1>4 DEF MoreBytecode, Longer, m, n
<1>6. ConstantsFit(e)
  <2>1. \A k \in 1 .. Len(e.constants) : k \in 1 .. m \/ k = m + 1
    BY <1>2, <1>3
  <2>2. n + 1 \in 1 .. Len(e.functions) /\ \A j \in 1 .. n : j \in 1 .. Len(e.functions)
    BY <1>2, <1>4
  <2>3. \A k \in 1 .. m :
          \/ e.constants[k].type = "INT" /\ e.constants[k].data \in MinInt .. MaxInt
          \/ /\ e.constants[k].type = "COMPILED_FUNCTION"
             /\ e.constants[k].data \in 1 .. Len(e.functions)
    BY <1>3, <2>2 DEF Named, ConstantsFit, m, n
  <2> QED
    BY <1>3, <2>1, <2>2, <2>3 DEF ConstantsFit
<1>7. FunctionsFit(e)
  <2>1. \A k \in 1 .. Len(e.functions) : k \in 1 .. n \/ k = n + 1
    BY <1>2, <1>4
  <2>2. OperandsValid(e, f.instructions, f.local_count)
    BY <1>1, <1>5, FunctionStays DEF Named
  <2>3. \A k \in 1 .. n :
          OperandsValid(e, e.functions[k].instructions, e.functions[k].local_count)
    BY <1>1, <1>5, FunctionsStay DEF n
  <2> QED
    BY <1>4, <2>1, <2>2, <2>3 DEF FunctionsFit
<1>8. Level(e) = Level(c)
  BY <1>1 DEF Level
<1>9. \A l \in 1 .. Level(c) : Wider(c, e, l) /\ Carries(c, e, l)
  BY <1>1, SameCarries
<1>10. IsFunctionConstant(e, m) /\ FunctionConstant(e, m) = f
  BY <1>2, <1>3, <1>4 DEF IsFunctionConstant, FunctionConstant
<1> QED
  BY <1>1, <1>5, <1>6, <1>7, <1>8, <1>9, <1>10, NamedStays DEF m

(* Nothing is left of nothing. *)
LEMMA TailEmpty == \A s : s # << >> \/ Tail(s) = << >>
OBVIOUS

(* Tasks that carry nothing to be emitted. *)
LEMMA TaskEasy ==
  ASSUME NEW c, NEW l, NEW t, t.do \notin {"STORE", "LOAD", "CAPTURE", "CLOSURE", "EMIT"}
  PROVE  TaskFits(c, l, t)
BY DEF TaskFits

(* A function's scope opened. *)
LEMMA NamedOpens ==
  ASSUME NEW e \in Compilers, Named(e), NEW expr \in Exprs, expr.type = "FUNCTION",
         NEW d, NEW function_name \in STRING \union {NoName},
         Opens(e, d, expr, function_name)
  PROVE  Named(d)
<1> DEFINE n == Level(d)
           params == Definitions(expr.parameters)
           body == Statements(expr.body)
           empty == << >>
           symbol == [scope |-> "FUNCTION", index |-> 0]
<1>1. /\ d \in Compilers /\ Level(d) = Level(e) + 1
      /\ \A k \in 1 .. Level(e) : d.scopes[k] = e.scopes[k]
      /\ SameBytecode(e, d)
      /\ Emitted(d) = << >>
      /\ Scope(d).free_symbols = << >>
      /\ Scope(d).entries = empty \/ Scope(d).entries = Put(empty, function_name, symbol)
      /\ Todo(d) = params \o body
  BY DEF Opens
<1>2. /\ Level(e) \in Nat \ {0} /\ n \in 1 .. Level(d) /\ n > 1 /\ Scope(d) = d.scopes[n]
  BY <1>1, CurrentScope
<1>3. MoreBytecode(e, d) /\ ConstantsFit(d) /\ FunctionsFit(d)
  BY <1>1, BytecodeStays
<1>4. ASSUME NEW l \in 1 .. Level(e)
      PROVE  ScopeFits(d, l)
  <2>1. l \in 1 .. Level(d) /\ \A k \in 1 .. l : k \in 1 .. Level(e)
    BY <1>1, <1>2
  <2>2. \A k \in 1 .. l : Wider(e, d, k)
    BY <1>1, <2>1, SameCarries
  <2>3. Carries(e, d, l)
    BY <1>1, SameCarries
  <2> QED
    BY <1>1, <1>3, <2>1, <2>2, <2>3, CarriesFits DEF Named
<1>5. \A name \in DOMAIN Scope(d).entries : SymbolFits(d, n, Scope(d).entries[name])
  <2>1. ASSUME NEW name \in DOMAIN Scope(d).entries
        PROVE  Scope(d).entries[name] = symbol
    <3>1. CASE Scope(d).entries = empty
      BY <3>1
    <3>2. CASE Scope(d).entries = Put(empty, function_name, symbol)
      BY <3>2 DEF Put
    <3> QED
      BY <1>1, <3>1, <3>2
  <2>2. SymbolFits(d, n, symbol)
    BY <1>2 DEF SymbolFits
  <2> QED
    BY <2>1, <2>2
<1>6. ASSUME NEW k \in 1 .. Len(Todo(d))
      PROVE  TaskFits(d, n, Todo(d)[k])
  <2>1. /\ params \in Seq(Tasks) /\ body \in Seq(Tasks)
        /\ \A j \in 1 .. Len(params) : params[j].do = "DEFINE"
        /\ \A j \in 1 .. Len(body) : body[j].do = "STATEMENT"
    BY ExpressionParts, DefinitionTasks, StatementTasks
  <2> HIDE DEF params, body
  <2>2. \/ k \in 1 .. Len(params) /\ (params \o body)[k] = params[k]
        \/ \E j \in 1 .. Len(body) : (params \o body)[k] = body[j]
    BY <1>1, <1>6, <2>1, JoinedTasks
  <2>3. Todo(d)[k].do \in {"DEFINE", "STATEMENT"}
    BY <1>1, <2>1, <2>2
  <2>4. Todo(d)[k].do \notin {"STORE", "LOAD", "CAPTURE", "CLOSURE", "EMIT"}
    BY <2>3
  <2> QED
    BY <2>4, TaskEasy
<1>7. ScopeFits(d, n)
  BY <1>1, <1>2, <1>5, <1>6 DEF ScopeFits, Emitted, Todo
<1>8. \A l \in 1 .. Level(d) : l \in 1 .. Level(e) \/ l = n
  BY <1>1, <1>2
<1> QED
  BY <1>3, <1>4, <1>7, <1>8 DEF Named

(* The end of a body. *)
LEMMA NamedBody ==
  ASSUME NEW c \in Compilers, ~Failed(c), Named(c), NEW e, Body(c, e)
  PROVE  Named(e)
<1>1. CASE e = c
  BY <1>1
<1>2. CASE Emits(c, e, "RETURN", 0, 0)
  <2> DEFINE zero == 0
             op == "RETURN"
  <2>1. Instr(op, zero, zero).op \notin Careful
    BY DEF Instr, Careful
  <2>2. Emits(c, e, op, zero, zero)
    BY <1>2
  <2> HIDE DEF zero, op
  <2>3. InstructionFits(e, Level(e), Instr(op, zero, zero))
    BY <2>1, CarelessFits
  <2> QED
    BY <2>2, <2>3, NamedEmits
<1>3. CASE /\ e \in Compilers
           /\ Emitted(c) # << >>
           /\ Len(Emitted(e)) = Len(Emitted(c))
           /\ \A k \in 1 .. Len(Emitted(c)) - 1 : Emitted(e)[k] = Emitted(c)[k]
           /\ Emitted(e)[Len(Emitted(c))] =
                [Emitted(c)[Len(Emitted(c))] EXCEPT !.op = "RETURN_VALUE"]
  <2> DEFINE n == Len(Emitted(c))
  <2>1. Emitted(c) \in Seq(Instructions) /\ n \in Nat
    BY Counts
  <2>2. Emitted(c)[n] \in Instructions
    BY <1>3, <2>1
  <2>3. Emitted(e)[n].op = "RETURN_VALUE"
    BY <1>3, <2>2 DEF Instructions
  <2>4. Emitted(e)[n].op \notin Careful
    BY <2>3 DEF Careful
  <2>5. InstructionFits(e, Level(e), Emitted(e)[n])
    BY <2>4, CarelessFits
  <2>6. ASSUME NEW k \in 1 .. Len(Emitted(e))
        PROVE  \/ \E j \in 1 .. Len(Emitted(c)) : Emitted(e)[k] = Emitted(c)[j]
               \/ InstructionFits(e, Level(e), Emitted(e)[k])
    <3>1. k = n \/ (k \in 1 .. n - 1 /\ k \in 1 .. Len(Emitted(c)))
      BY <1>3, <2>1
    <3> QED
      BY <1>3, <2>5, <3>1
  <2>7. SameBelow(c, e) /\ SameNames(c, e) /\ SameBytecode(c, e) /\ Todo(e) = Todo(c)
    BY BodyKeeps
  <2>8. \A k \in 1 .. Len(Todo(e)) : \E j \in 1 .. Len(Todo(c)) : Todo(e)[k] = Todo(c)[j]
    BY <2>7
  <2> QED
    BY <1>3, <2>6, <2>7, <2>8, NamedHere
<1> QED
  BY <1>1, <1>2, <1>3 DEF Body

(* A function is compiled: what it captured is to be loaded around it. *)
LEMMA NamedCloses ==
  ASSUME NEW e \in Compilers, Named(e), Level(e) > 1, NEW d, Closes(e, d)
  PROVE  Named(d)
<1> DEFINE n == Level(e)
           l == Level(e) - 1
           around == e.scopes[l]
           symbols == Scope(e).free_symbols
           count == Len(symbols)
           function == FunctionOf(e, around.todo[1].parameter_count)
           loads == Loads(symbols)
           closure == CLOSURE(function, count)
           tasks == Append(loads, closure)
           rest == Tail(around.todo)
<1>1. /\ d \in Compilers /\ Level(d) = l
      /\ \A k \in 1 .. l - 1 : d.scopes[k] = e.scopes[k]
      /\ Scope(d).instructions = around.instructions
      /\ Scope(d).entries = around.entries
      /\ Scope(d).free_symbols = around.free_symbols
      /\ Scope(d).definition_count = around.definition_count
      /\ function \in CompiledFunctions
      /\ tasks \in Seq(Tasks)
      /\ Todo(d) = tasks \o rest
      /\ SameBytecode(e, d)
  BY DEF Closes
<1>2. /\ n \in Nat /\ l \in Nat /\ l \in 1 .. Level(d) /\ l \in 1 .. Level(e)
      /\ n \in 1 .. Level(e)
      /\ Scope(d) = d.scopes[l] /\ Scope(e) = e.scopes[n]
  BY <1>1, CurrentScope, SMTT(30) DEF Scope
<1>3. MoreBytecode(e, d) /\ ConstantsFit(d) /\ FunctionsFit(d)
  BY <1>1, BytecodeStays
<1>4. Wider(e, d, l)
  <2>1. around.definition_count \in Nat /\ Len(around.free_symbols) \in Nat
    BY <1>2, ScopeNumbers
  <2> QED
    BY <1>1, <1>2, <2>1, SMTT(30) DEF Wider
<1>5. symbols \in Seq(Symbols) /\ ScopeFits(e, n) /\ ScopeFits(e, l)
  BY <1>2, OpenScope DEF Named
<1>6. /\ around.todo \in Seq(Tasks) /\ Emitted(e) \in Seq(Instructions)
      /\ Scope(e).definition_count \in Nat
  BY <1>2, OpenScope, ScopeNumbers DEF Emitted
<1>7. TaskFits(d, l, closure)
  <2>1. /\ closure.do = "CLOSURE" /\ closure.function = function
        /\ closure.free_count = count
        /\ function.instructions = Emitted(e)
        /\ function.local_count = Scope(e).definition_count
    BY DEF CLOSURE, FunctionOf
  <2>2. \A k \in 1 .. Len(Emitted(e)) : InstructionFits(e, n, Emitted(e)[k])
    BY <1>2, <1>5 DEF ScopeFits, Emitted
  <2>3. LocalsAt(e, n) = Scope(e).definition_count
    BY <1>2 DEF LocalsAt
  <2>4. OperandsValid(e, Emitted(e), Scope(e).definition_count)
    BY <2>2, <2>3, OperandsFit DEF InstructionFits
  <2>5. FreeValuesNeeded(Emitted(e), count)
    BY <1>2, <2>2 DEF FreeValuesNeeded, InstructionFits
  <2>6. OperandsValid(e, function.instructions, function.local_count)
    BY <2>1, <2>4
  <2> HIDE DEF function
  <2>7. OperandsValid(d, function.instructions, function.local_count)
    BY <1>1, <1>3, <2>6, FunctionStays DEF Named
  <2> QED
    BY <2>1, <2>5, <2>7 DEF TaskFits
<1>8. /\ loads \in Seq(Tasks) /\ Len(loads) = count /\ count \in Nat
      /\ \A k \in 1 .. count : loads[k].do = "LOAD" /\ loads[k].symbol = symbols[k]
  <2> HIDE DEF symbols
  <2>1. /\ loads \in Seq(Tasks) /\ Len(loads) = Len(symbols)
        /\ \A k \in 1 .. Len(symbols) : loads[k] = LOAD(symbols[k])
    BY <1>5, LoadTasks
  <2>2. \A s : LOAD(s).do = "LOAD" /\ LOAD(s).symbol = s
    BY DEF LOAD
  <2>3. Len(symbols) \in Nat
    BY <1>5
  <2> QED
    BY <2>1, <2>2, <2>3
<1>9. ASSUME NEW k \in 1 .. count
      PROVE  TaskFits(d, l, loads[k])
  <2>1. SymbolFits(e, n - 1, symbols[k]) /\ symbols[k] \in Symbols
    BY <1>2, <1>5, <1>9 DEF ScopeFits
  <2>2. SymbolFits(d, l, symbols[k])
    BY <1>1, <1>2, <1>4, <2>1, SymbolStays
  <2>3. loads[k].do = "LOAD" /\ loads[k].symbol = symbols[k]
    BY <1>8, <1>9
  <2> QED
    BY <2>2, <2>3 DEF TaskFits
<1> HIDE DEF loads, closure, symbols, count
<1>10. \A k \in 1 .. Len(tasks) : TaskFits(d, l, tasks[k])
  <2>1. \A k \in 1 .. Len(tasks) : \/ k \in 1 .. count /\ tasks[k] = loads[k]
                                   \/ tasks[k] = closure
    BY <1>8
  <2> QED
    BY <1>7, <1>9, <2>1
<1> HIDE DEF tasks
<1>11. rest \in Seq(Tasks)
       /\ \A k \in 1 .. Len(rest) : \E j \in 1 .. Len(around.todo) : rest[k] = around.todo[j]
  <2> DEFINE u == around.todo
  <2>1. u \in Seq(Tasks) /\ rest = Tail(u)
    BY <1>6
  <2> HIDE DEF u, rest
  <2>2. u # << >> \/ rest = << >>
    BY <2>1, TailEmpty
  <2>3. CASE u # << >>
    <3>1. rest \in Seq(Tasks) /\ Len(rest) = Len(u) - 1 /\ Len(u) \in Nat
      BY <2>1, <2>3
    <3>2. \A k \in 1 .. Len(rest) : k + 1 \in 1 .. Len(u) /\ rest[k] = u[k + 1]
      BY <2>1, <2>3, <3>1
    <3> QED
      BY <3>1, <3>2 DEF u
  <2>4. CASE rest = << >>
    BY <2>4
  <2> QED
    BY <2>2, <2>3, <2>4
<1> HIDE DEF rest
<1>12. \A k \in 1 .. Len(Todo(d)) :
         \/ \E j \in 1 .. Len(around.todo) : Todo(d)[k] = around.todo[j]
         \/ TaskFits(d, l, Todo(d)[k])
  <2>1. \A k \in 1 .. Len(tasks \o rest) :
          \/ k \in 1 .. Len(tasks) /\ (tasks \o rest)[k] = tasks[k]
          \/ \E j \in 1 .. Len(rest) : (tasks \o rest)[k] = rest[j]
    BY <1>1, <1>11, JoinedTasks
  <2> QED
    BY <1>1, <1>10, <1>11, <2>1
<1>13. Carries(e, d, l)
  BY <1>1, <1>2, <1>12 DEF Carries, Todo
<1>14. ASSUME NEW k \in 1 .. Level(d)
       PROVE  /\ k \in 1 .. Level(e)
              /\ Wider(e, d, k) /\ Carries(e, d, k)
  <2>1. k \in 1 .. Level(e) /\ (k = l \/ k \in 1 .. l - 1)
    BY <1>1, <1>2
  <2>2. CASE k = l
    BY <1>4, <1>13, <2>1, <2>2
  <2>3. CASE k \in 1 .. l - 1
    <3>1. d.scopes[k] = e.scopes[k]
      BY <1>1, <2>3
    <3> QED
      BY <2>1, <3>1, SameCarries
  <2> QED
    BY <2>1, <2>2, <2>3
<1>15. ASSUME NEW k \in 1 .. Level(d)
       PROVE  ScopeFits(d, k)
  <2>1. k \in 1 .. Level(e) /\ \A j \in 1 .. k : j \in 1 .. Level(d)
    BY <1>1, <1>2, <1>14
  <2>2. \A j \in 1 .. k : Wider(e, d, j)
    BY <1>14, <2>1
  <2>3. ScopeFits(e, k) /\ ConstantsFit(e)
    BY <2>1 DEF Named
  <2> QED
    BY <1>1, <1>3, <1>14, <2>1, <2>2, <2>3, CarriesFits
<1> QED
  BY <1>3, <1>15 DEF Named

(* A line's statements are to be compiled. *)
LEMMA NamedStarts ==
  ASSUME NEW c \in Compilers, Named(c), Compiled(c), NEW stmts \in Lines,
         Compile(c, stmts) \in Compilers
  PROVE  Named(Compile(c, stmts))
<1> DEFINE d == Compile(c, stmts)
           todo == Statements(stmts)
<1>1. stmts \in Seq(Stmts)
  BY SyntaxAssumption
<1>2. /\ todo \in Seq(Tasks)
      /\ \A k \in 1 .. Len(todo) : todo[k].do = "STATEMENT"
  BY <1>1, StatementTasks
<1>3. /\ Level(c) = 1
      /\ c.scopes \in Seq(CompilerScopes)
      /\ c.scopes[1] \in CompilerScopes
      /\ Len(c.scopes) = 1
  BY CurrentScope DEF Compiled, Level
<1> HIDE DEF todo
<1>4. /\ Len(d.scopes) = 1
      /\ d.scopes[1].instructions = << >>
      /\ d.scopes[1].todo = todo
      /\ d.scopes[1].entries = c.scopes[1].entries
      /\ d.scopes[1].free_symbols = c.scopes[1].free_symbols
      /\ d.scopes[1].definition_count = c.scopes[1].definition_count
      /\ d.functions = c.functions
      /\ d.constants = c.constants
  <2>1. /\ Len(d.scopes) = 1
        /\ d.scopes[1].instructions = << >>
        /\ d.scopes[1].todo = todo
        /\ d.functions = c.functions
        /\ d.constants = c.constants
    BY <1>3 DEF Compile, Compilers, CompilerScopes, todo
  <2>2. d.scopes[1].entries = c.scopes[1].entries
    BY <1>3 DEF Compile, Compilers, CompilerScopes
  <2>3. d.scopes[1].free_symbols = c.scopes[1].free_symbols
    BY <1>3 DEF Compile, Compilers, CompilerScopes
  <2>4. d.scopes[1].definition_count = c.scopes[1].definition_count
    BY <1>3 DEF Compile, Compilers, CompilerScopes
  <2> QED
    BY <2>1, <2>2, <2>3, <2>4
<1>5. Level(d) = 1 /\ d \in Compilers
  BY <1>4 DEF Level
<1> HIDE DEF d
<1>6. SameBytecode(c, d)
  BY <1>4 DEF SameBytecode
<1>7. MoreBytecode(c, d) /\ ConstantsFit(d) /\ FunctionsFit(d)
  BY <1>5, <1>6, BytecodeStays
<1>8. Wider(c, d, 1)
  <2>1. c.scopes[1].definition_count \in Nat /\ Len(c.scopes[1].free_symbols) \in Nat
    BY <1>3, ScopeNumbers
  <2> QED
    BY <1>4, <2>1 DEF Wider
<1>9. ASSUME NEW k \in 1 .. Len(todo)
      PROVE  TaskFits(d, 1, todo[k])
  <2>1. todo[k].do \notin {"STORE", "LOAD", "CAPTURE", "CLOSURE", "EMIT"}
    BY <1>2
  <2> QED
    BY <2>1, TaskEasy
<1>10. Carries(c, d, 1)
  BY <1>4, <1>9 DEF Carries
<1>11. \A l \in 1 .. Level(c) : Wider(c, d, l) /\ Carries(c, d, l)
  BY <1>3, <1>8, <1>10
<1>12. Named(d)
  BY <1>3, <1>5, <1>7, <1>11, NamedStays
<1> QED
  BY <1>12 DEF d


(* Where names are kept, a symbol that fits goes on to fit. *)
LEMMA SymbolKept ==
  ASSUME NEW c \in Compilers, NEW d, SameBelow(c, d), SameNames(c, d),
         NEW l \in 1 .. Level(c), NEW s, SymbolFits(c, l, s)
  PROVE  Level(d) = Level(c) /\ SymbolFits(d, l, s)
<1>1. Level(c) \in Nat /\ Scope(c) = c.scopes[Level(c)] /\ Level(d) = Level(c)
  BY CurrentScope DEF SameBelow
<1>2. Scope(d) = d.scopes[Level(c)]
  BY <1>1 DEF Scope
<1>3. CASE l = Level(c)
  <2>1. /\ d.scopes[l].free_symbols = c.scopes[l].free_symbols
        /\ d.scopes[l].definition_count = c.scopes[l].definition_count
    BY <1>1, <1>2, <1>3 DEF SameNames
  <2> QED
    BY <1>1, <2>1 DEF SymbolFits
<1>4. CASE l \in 1 .. Level(c) - 1
  <2>1. d.scopes[l] = c.scopes[l]
    BY <1>4 DEF SameBelow
  <2> QED
    BY <1>1, <2>1 DEF SymbolFits
<1>5. l = Level(c) \/ l \in 1 .. Level(c) - 1
  BY <1>1
<1> QED
  BY <1>3, <1>4, <1>5

(* What a symbol that fits is loaded with is fit to be emitted. *)
LEMMA LoadFits ==
  ASSUME NEW c, NEW l, NEW symbol \in Symbols, SymbolFits(c, l, symbol), NEW zero
  PROVE  InstructionFits(c, l, Instr(LoadOp(symbol), symbol.index, zero))
<1> DEFINE op == LoadOp(symbol)
           i == Instr(op, symbol.index, zero)
<1>1. i.op = op /\ i.operand = symbol.index
  BY DEF Instr
<1>2. /\ op \in {"GET_GLOBAL", "GET_LOCAL", "GET_FREE", "CURRENT_CLOSURE"}
      /\ op = "GET_GLOBAL" <=> symbol.scope = "GLOBAL"
      /\ op = "GET_LOCAL" <=> symbol.scope = "LOCAL"
      /\ op = "GET_FREE" <=> symbol.scope = "FREE"
      /\ op = "CURRENT_CLOSURE" <=> symbol.scope = "FUNCTION"
  BY SymbolOps DEF Symbols
<1> HIDE DEF op, i
<1>3. /\ op = "GET_GLOBAL" => i.operand < MaxVmGlobals
      /\ op = "GET_LOCAL" => i.operand < LocalsAt(c, l)
      /\ op = "GET_FREE" => i.operand < Len(c.scopes[l].free_symbols)
      /\ op = "CURRENT_CLOSURE" => l > 1
  BY <1>1, <1>2 DEF SymbolFits, LocalsAt
<1>4. OperandFits(c, i, LocalsAt(c, l))
  BY <1>1, <1>2, <1>3 DEF OperandFits
<1> QED
  BY <1>1, <1>3, <1>4 DEF InstructionFits, op, i

(* And so is what a global or local one is stored with. *)
LEMMA StoreFits ==
  ASSUME NEW c, NEW l, NEW symbol \in Symbols, SymbolFits(c, l, symbol),
         symbol.scope \in {"GLOBAL", "LOCAL"}, NEW zero
  PROVE  InstructionFits(c, l, Instr(StoreOp(symbol), symbol.index, zero))
<1> DEFINE op == StoreOp(symbol)
           i == Instr(op, symbol.index, zero)
<1>1. i.op = op /\ i.operand = symbol.index
  BY DEF Instr
<1>2. \/ op = "SET_GLOBAL" /\ symbol.scope = "GLOBAL"
      \/ op = "SET_LOCAL" /\ symbol.scope = "LOCAL"
  BY DEF StoreOp
<1> HIDE DEF op, i
<1>3. /\ op = "SET_GLOBAL" => i.operand < MaxVmGlobals
      /\ op = "SET_LOCAL" => i.operand < LocalsAt(c, l)
  BY <1>1, <1>2 DEF SymbolFits, LocalsAt
<1>4. OperandFits(c, i, LocalsAt(c, l))
  BY <1>1, <1>2, <1>3 DEF OperandFits
<1> QED
  BY <1>1, <1>2, <1>4 DEF InstructionFits, op, i

(* An instruction emitted in the current scope, with what fits there. *)
LEMMA NamedLoads ==
  ASSUME NEW c \in Compilers, Named(c), NEW d, NEW symbol \in Symbols, NEW zero,
         SymbolFits(c, Level(c), symbol), Emits(c, d, LoadOp(symbol), symbol.index, zero)
  PROVE  Named(d)
<1>1. SameBelow(c, d) /\ SameNames(c, d) /\ Level(c) \in 1 .. Level(c)
  BY CurrentScope DEF Emits
<1>2. Level(d) = Level(c) /\ SymbolFits(d, Level(d), symbol)
  <2> DEFINE l == Level(c)
  <2>1. l \in 1 .. Level(c) /\ SymbolFits(c, l, symbol)
    BY <1>1
  <2> HIDE DEF l
  <2>2. Level(d) = Level(c) /\ SymbolFits(d, l, symbol)
    BY <1>1, <2>1, SymbolKept
  <2> QED
    BY <2>2 DEF l
<1>3. InstructionFits(d, Level(d), Instr(LoadOp(symbol), symbol.index, zero))
  BY <1>2, LoadFits
<1> QED
  BY <1>3, NamedEmits

(* A symbol that is stored. *)
LEMMA NamedStores ==
  ASSUME NEW c \in Compilers, Named(c), NEW d, NEW symbol \in Symbols, NEW zero,
         SymbolFits(c, Level(c), symbol), symbol.scope \in {"GLOBAL", "LOCAL"},
         Emits(c, d, StoreOp(symbol), symbol.index, zero)
  PROVE  Named(d)
<1>1. SameBelow(c, d) /\ SameNames(c, d) /\ Level(c) \in 1 .. Level(c)
  BY CurrentScope DEF Emits
<1>2. Level(d) = Level(c) /\ SymbolFits(d, Level(d), symbol)
  <2> DEFINE l == Level(c)
  <2>1. l \in 1 .. Level(c) /\ SymbolFits(c, l, symbol)
    BY <1>1
  <2> HIDE DEF l
  <2>2. Level(d) = Level(c) /\ SymbolFits(d, l, symbol)
    BY <1>1, <2>1, SymbolKept
  <2> QED
    BY <2>2 DEF l
<1>3. InstructionFits(d, Level(d), Instr(StoreOp(symbol), symbol.index, zero))
  BY <1>2, StoreFits
<1> QED
  BY <1>3, NamedEmits

(* A name that was found: its symbol is loaded, or captured further in. *)
LEMMA NamedResolves ==
  ASSUME NEW c \in Compilers, Named(c), NEW d, NEW name, NEW l \in 1 .. Level(c),
         NEW symbol \in Symbols, SymbolFits(c, l, symbol),
         Resolves(c, d, name, l, symbol)
  PROVE  Named(d)
<1>1. Level(c) \in Nat /\ l \in Nat
  BY CurrentScope
<1>2. CASE /\ l = Level(c) \/ symbol.scope = "GLOBAL"
           /\ Emits(c, d, LoadOp(symbol), symbol.index, 0)
  <2> DEFINE zero == 0
  <2>1. SymbolFits(c, Level(c), symbol)
    BY <1>2 DEF SymbolFits
  <2>2. Emits(c, d, LoadOp(symbol), symbol.index, zero)
    BY <1>2
  <2> HIDE DEF zero
  <2> QED
    BY <2>1, <2>2, NamedLoads
<1>3. CASE /\ l < Level(c) /\ symbol.scope # "GLOBAL"
           /\ Asks(c, d, <<CAPTURE(name, l + 1, symbol)>>)
  <2> DEFINE t == CAPTURE(name, l + 1, symbol)
             tasks == <<t>>
  <2>1. Asks(c, d, tasks) /\ SameBelow(c, d) /\ SameNames(c, d)
    BY <1>3 DEF Asks
  <2>2. Level(d) = Level(c) /\ SymbolFits(d, l, symbol)
    BY <2>1, SymbolKept
  <2>3. t.do = "CAPTURE" /\ t.level = l + 1 /\ t.symbol = symbol
    BY DEF CAPTURE
  <2>4. l + 1 \in 2 .. Level(d) /\ l + 1 - 1 = l
    BY <1>1, <1>3, <2>2
  <2>5. t.level \in 2 .. Level(d) /\ SymbolFits(d, t.level - 1, t.symbol)
    BY <2>2, <2>3, <2>4
  <2>6. TaskFits(d, Level(d), t)
    BY <2>3, <2>5 DEF TaskFits
  <2>7. \A k \in 1 .. Len(tasks) : tasks[k] = t
    OBVIOUS
  <2> HIDE DEF t, tasks
  <2>8. \A k \in 1 .. Len(tasks) : TaskFits(d, Level(d), tasks[k])
    BY <2>6, <2>7
  <2> QED
    BY <2>1, <2>8, NamedAsks
<1> QED
  BY <1>2, <1>3 DEF Resolves

-----------------------------------------------------------------------------
(* What each kind of task does to names *)

(* A task that needs no name. *)
Nameless(t) ==
  \/ t.do \notin {"STORE", "LOAD", "CAPTURE", "CLOSURE", "EMIT"}
  \/ t.do = "EMIT" /\ t.op \in {"POP", "RETURN_VALUE", "CALL"} \union BinaryOps \union UnaryOps

(* It fits anywhere. *)
LEMMA NamelessFits == \A c, l, t : Nameless(t) => TaskFits(c, l, t)
BY DEF Nameless, TaskFits

(* Tasks that need no name. *)
LEMMA NamedAsksNameless ==
  ASSUME NEW c \in Compilers, Named(c), NEW d, NEW tasks, Asks(c, d, tasks),
         \A k \in 1 .. Len(tasks) : Nameless(tasks[k])
  PROVE  Named(d)
<1>1. \A k \in 1 .. Len(tasks) : TaskFits(d, Level(d), tasks[k])
  BY NamelessFits
<1> QED
  BY <1>1, NamedAsks

(* The tasks of that kind. *)
LEMMA NamelessAre ==
  /\ \A expr, name : Nameless(Evaluation(expr, name))
  /\ \A op \in {"POP", "RETURN_VALUE", "CALL"} \union BinaryOps \union UnaryOps :
       \A operand : Nameless(Emission(op, operand))
  /\ \A name : Nameless([do |-> "LET", name |-> name])
  /\ Nameless(LEAVE)
  /\ \A count : Nameless(FUNCTION(count))
  /\ \A yes, no : Nameless(CONSEQUENCE(yes, no))
  /\ \A exprs : Nameless(ARGUMENTS(exprs))
  /\ \A stmts, p : Nameless(ALTERNATIVE(stmts, p))
  /\ \A p : Nameless(END_IF(p))
BY DEF Nameless, Evaluation, Emission, LEAVE, FUNCTION, CONSEQUENCE, ARGUMENTS,
       ALTERNATIVE, END_IF

(* A list with one more at its end. *)
LEMMA NamelessAppend ==
  ASSUME NEW tasks \in Seq(Tasks), NEW t, Nameless(t),
         \A k \in 1 .. Len(tasks) : Nameless(tasks[k])
  PROVE  \A k \in 1 .. Len(Append(tasks, t)) : Nameless(Append(tasks, t)[k])
<1>1. Len(tasks) \in Nat /\ Len(Append(tasks, t)) = Len(tasks) + 1
  OBVIOUS
<1>2. /\ \A k \in 1 .. Len(tasks) : Append(tasks, t)[k] = tasks[k]
      /\ Append(tasks, t)[Len(tasks) + 1] = t
  OBVIOUS
<1>3. \A k \in 1 .. Len(tasks) + 1 : k \in 1 .. Len(tasks) \/ k = Len(tasks) + 1
  BY <1>1
<1> QED
  BY <1>1, <1>2, <1>3

(* Lists of statements and of expressions. *)
LEMMA NamelessLists ==
  /\ \A stmts \in Seq(Stmts) :
       /\ Statements(stmts) \in Seq(Tasks)
       /\ \A k \in 1 .. Len(Statements(stmts)) : Nameless(Statements(stmts)[k])
  /\ \A exprs \in Seq(Exprs) :
       /\ Expressions(exprs) \in Seq(Tasks)
       /\ \A k \in 1 .. Len(Expressions(exprs)) : Nameless(Expressions(exprs)[k])
<1>1. ASSUME NEW stmts \in Seq(Stmts)
      PROVE  /\ Statements(stmts) \in Seq(Tasks)
             /\ \A k \in 1 .. Len(Statements(stmts)) : Nameless(Statements(stmts)[k])
  <2>1. /\ Statements(stmts) \in Seq(Tasks)
        /\ \A k \in 1 .. Len(Statements(stmts)) : Statements(stmts)[k].do = "STATEMENT"
    BY StatementTasks
  <2> QED
    BY <2>1 DEF Nameless
<1>2. ASSUME NEW exprs \in Seq(Exprs)
      PROVE  /\ Expressions(exprs) \in Seq(Tasks)
             /\ \A k \in 1 .. Len(Expressions(exprs)) : Nameless(Expressions(exprs)[k])
  <2>1. /\ Expressions(exprs) \in Seq(Tasks)
        /\ \A k \in 1 .. Len(Expressions(exprs)) : Expressions(exprs)[k].do = "EXPRESSION"
    BY ExpressionTasks
  <2> QED
    BY <2>1 DEF Nameless
<1> QED
  BY <1>1, <1>2

(* A name that is stored to is not one the function captured. *)
NotFree(c, name) ==
  name \in DOMAIN Scope(c).entries => SymbolOf(c, name).scope # "FREE"

(* A defined name that is not captured has a global's or a local's place. *)
LEMMA NamedPlaces ==
  ASSUME NEW c \in Compilers, Named(c), NEW name \in STRING, NotFree(c, name),
         NEW e \in Compilers, Defines(c, e, name), name \in DOMAIN Scope(e).entries,
         SymbolOf(e, name) \in Symbols
  PROVE  /\ Named(e)
         /\ SymbolFits(e, Level(e), SymbolOf(e, name))
         /\ SymbolOf(e, name).scope \in {"GLOBAL", "LOCAL"}
<1>1. Named(e)
  BY NamedDefines
<1>2. SymbolFits(e, Level(e), SymbolOf(e, name))
  <2>1. Level(e) \in 1 .. Level(e) /\ Scope(e) = e.scopes[Level(e)]
    BY CurrentScope
  <2> QED
    BY <1>1, <2>1, NamedKnows DEF SymbolOf
<1>3. CASE Known(c, name) /\ e = c
  <2>1. SymbolOf(e, name).scope \notin {"FUNCTION", "FREE"}
    BY <1>3 DEF Known, NotFree, SymbolOf
  <2>2. SymbolOf(e, name).scope \in {"GLOBAL", "LOCAL", "FREE", "FUNCTION"}
    BY DEF Symbols
  <2> QED
    BY <1>1, <1>2, <2>1, <2>2
<1>4. CASE Scope(e).entries = Put(Scope(c).entries, name,
                                  [scope |-> ScopeOf(Level(c)),
                                   index |-> Scope(c).definition_count])
  <2>1. SymbolOf(e, name) = [scope |-> ScopeOf(Level(c)),
                             index |-> Scope(c).definition_count]
    BY <1>4 DEF SymbolOf, Put
  <2> QED
    BY <2>1, <1>1, <1>2 DEF ScopeOf
<1> QED
  BY <1>1, <1>2, <1>3, <1>4 DEF Defines

(* A let that binds a function. *)
LEMMA NamedLetFunction ==
  ASSUME NEW c \in Compilers, Named(c), NEW name \in STRING, NotFree(c, name),
         NEW e \in Compilers, Defines(c, e, name), name \in DOMAIN Scope(e).entries,
         SymbolOf(e, name) \in Symbols, NEW value \in Exprs, NEW d,
         Asks(e, d, <<Evaluation(value, name), Store(SymbolOf(e, name))>>)
  PROVE  Named(d)
<1> DEFINE symbol == SymbolOf(e, name)
           a == Evaluation(value, name)
           t == Store(symbol)
           tasks == <<a, t>>
           l == Level(e)
<1>1. /\ Named(e)
      /\ SymbolFits(e, l, symbol)
      /\ symbol.scope \in {"GLOBAL", "LOCAL"}
  BY NamedPlaces
<1>2. Asks(e, d, tasks) /\ SameBelow(e, d) /\ SameNames(e, d) /\ l \in 1 .. Level(e)
  BY CurrentScope DEF Asks
<1>3. t.do = "STORE" /\ t.symbol = symbol
  BY DEF Store
<1>4. Nameless(a)
  BY NamelessAre
<1>5. \A k \in 1 .. Len(tasks) : tasks[k] \in {a, t}
  OBVIOUS
<1> HIDE DEF symbol, a, t, tasks, l
<1>6. Level(d) = Level(e) /\ SymbolFits(d, l, symbol)
  BY <1>1, <1>2, SymbolKept
<1>7. TaskFits(d, Level(d), t)
  BY <1>1, <1>3, <1>6 DEF TaskFits, l
<1>8. TaskFits(d, Level(d), a)
  BY <1>4, NamelessFits
<1>9. \A k \in 1 .. Len(tasks) : TaskFits(d, Level(d), tasks[k])
  BY <1>5, <1>7, <1>8
<1> QED
  BY <1>1, <1>2, <1>9, NamedAsks

(* Two tasks to do. *)
LEMMA NamedAsksTwo ==
  ASSUME NEW c \in Compilers, Named(c), NEW d, NEW a, NEW b, Nameless(a), Nameless(b),
         Asks(c, d, <<a, b>>)
  PROVE  Named(d)
<1> DEFINE tasks == <<a, b>>
<1>1. \A k \in 1 .. Len(tasks) : tasks[k] \in {a, b}
  OBVIOUS
<1>2. Asks(c, d, tasks)
  OBVIOUS
<1> HIDE DEF tasks
<1> QED
  BY <1>1, <1>2, NamedAsksNameless

(* A statement. *)
LEMMA NamedStatement ==
  ASSUME NEW c \in Compilers, ~Failed(c), Named(c), NEW stmt \in Stmts,
         stmt.type = "LET" /\ stmt.value.type = "FUNCTION" => NotFree(c, stmt.name)
  PROVE  LET d == CompileStatement(c, stmt) IN Stops(d) \/ Named(d)
<1> DEFINE d == CompileStatement(c, stmt)
           value == stmt.value
<1>1. value \in Exprs
  BY StatementIs
<1>2. \/ Stops(d)
      \/ /\ stmt.type = "LET"
         /\ stmt.value.type = "FUNCTION"
         /\ stmt.name \in STRING
         /\ \E e \in Compilers :
              /\ Defines(c, e, stmt.name)
              /\ stmt.name \in DOMAIN Scope(e).entries
              /\ SymbolOf(e, stmt.name) \in Symbols
              /\ Asks(e, d, <<Evaluation(value, stmt.name),
                              Store(SymbolOf(e, stmt.name))>>)
      \/ Asks(c, d, <<Evaluation(value, NoName), [do |-> "LET", name |-> stmt.name]>>)
      \/ Asks(c, d, <<Evaluation(value, NoName), Emission("RETURN_VALUE", 0)>>)
      \/ Asks(c, d, <<Evaluation(value, NoName), Emission("POP", 0)>>)
  BY StatementIs, Zenon
<1> HIDE DEF d
<1>3. ASSUME /\ stmt.type = "LET"
             /\ stmt.value.type = "FUNCTION"
             /\ stmt.name \in STRING
             /\ \E e \in Compilers :
                  /\ Defines(c, e, stmt.name)
                  /\ stmt.name \in DOMAIN Scope(e).entries
                  /\ SymbolOf(e, stmt.name) \in Symbols
                  /\ Asks(e, d, <<Evaluation(value, stmt.name),
                                  Store(SymbolOf(e, stmt.name))>>)
      PROVE  Named(d)
  <2> DEFINE name == stmt.name
  <2>1. PICK e \in Compilers :
               /\ Defines(c, e, name)
               /\ name \in DOMAIN Scope(e).entries
               /\ SymbolOf(e, name) \in Symbols
               /\ Asks(e, d, <<Evaluation(value, name), Store(SymbolOf(e, name))>>)
    BY <1>3
  <2>2. name \in STRING /\ NotFree(c, name)
    BY <1>3
  <2> HIDE DEF name, value
  <2>3. Named(d)
    BY <1>1, <2>1, <2>2, NamedLetFunction
  <2> QED
    BY <2>3 DEF value
<1> DEFINE a == Evaluation(value, NoName)
           let == [do |-> "LET", name |-> stmt.name]
           return == Emission("RETURN_VALUE", 0)
           pop == Emission("POP", 0)
<1>4. Nameless(a) /\ Nameless(let) /\ Nameless(return) /\ Nameless(pop)
  BY NamelessAre
<1>5. \/ Stops(d)
      \/ Named(d)
      \/ Asks(c, d, <<a, let>>)
      \/ Asks(c, d, <<a, return>>)
      \/ Asks(c, d, <<a, pop>>)
  BY <1>2, <1>3
<1> HIDE DEF a, let, return, pop
<1>6. Stops(d) \/ Named(d)
  BY <1>4, <1>5, NamedAsksTwo
<1> QED
  BY <1>6 DEF d

(* The name of a let. *)
LEMMA NamedLet ==
  ASSUME NEW c \in Compilers, ~Failed(c), Named(c), NEW name \in STRING, NotFree(c, name)
  PROVE  LET d == CompileLet(c, name) IN Stops(d) \/ Named(d)
<1> DEFINE d == CompileLet(c, name)
           zero == 0
<1>1. \/ Stops(d)
      \/ \E e \in Compilers :
           /\ Defines(c, e, name)
           /\ name \in DOMAIN Scope(e).entries
           /\ SymbolOf(e, name) \in Symbols
           /\ Emits(e, d, StoreOp(SymbolOf(e, name)), SymbolOf(e, name).index, zero)
  BY LetIs, Zenon
<1> HIDE DEF d, zero
<1>2. ASSUME NEW e \in Compilers, Defines(c, e, name), name \in DOMAIN Scope(e).entries,
             SymbolOf(e, name) \in Symbols,
             Emits(e, d, StoreOp(SymbolOf(e, name)), SymbolOf(e, name).index, zero)
      PROVE  Named(d)
  <2> DEFINE symbol == SymbolOf(e, name)
  <2>1. /\ Named(e) /\ SymbolFits(e, Level(e), symbol)
        /\ symbol.scope \in {"GLOBAL", "LOCAL"}
    BY <1>2, NamedPlaces
  <2>2. symbol \in Symbols /\ Emits(e, d, StoreOp(symbol), symbol.index, zero)
    BY <1>2
  <2> HIDE DEF symbol
  <2> QED
    BY <2>1, <2>2, NamedStores
<1>3. Stops(d) \/ Named(d)
  BY <1>1, <1>2
<1> QED
  BY <1>3 DEF d

(* The way out of an expression. *)
LEMMA NamedLeaves ==
  ASSUME NEW c \in Compilers, ~Failed(c), Named(c)
  PROVE  Named(LeaveExpression(c))
<1> DEFINE d == LeaveExpression(c)
           none == << >>
<1>1. Asks(c, d, none) /\ Len(none) = 0
  BY ExpressionLeft
<1> HIDE DEF d, none
<1>2. Named(d)
  BY <1>1, NamedAsksNameless
<1> QED
  BY <1>2 DEF d

(* An instruction that carries no name. *)
LEMMA NamedEmission ==
  ASSUME NEW c \in Compilers, ~Failed(c), Named(c), NEW op \in OpCodes,
         op \notin Careful, NEW operand \in Nat
  PROVE  LET d == Emit(c, op, operand, 0) IN Stops(d) \/ Named(d)
<1> DEFINE zero == 0
           d == Emit(c, op, operand, zero)
<1>1. zero \in Nat
  OBVIOUS
<1>2. Stops(d) \/ Emits(c, d, op, operand, zero)
  BY <1>1, EmitEmits
<1>3. Instr(op, operand, zero).op \notin Careful
  BY DEF Instr
<1> HIDE DEF d, zero
<1>4. InstructionFits(d, Level(d), Instr(op, operand, zero))
  BY <1>3, CarelessFits
<1>5. Stops(d) \/ Named(d)
  BY <1>2, <1>4, NamedEmits
<1> QED
  BY <1>5 DEF d, zero

(* A symbol loaded. *)
LEMMA NamedLoad ==
  ASSUME NEW c \in Compilers, ~Failed(c), Named(c), NEW symbol \in Symbols,
         SymbolFits(c, Level(c), symbol)
  PROVE  LET d == LoadSymbol(c, symbol) IN Stops(d) \/ Named(d)
<1> DEFINE zero == 0
           d == LoadSymbol(c, symbol)
<1>1. Stops(d) \/ Emits(c, d, LoadOp(symbol), symbol.index, zero)
  BY SymbolMoved
<1> HIDE DEF d, zero
<1>2. Stops(d) \/ Named(d)
  BY <1>1, NamedLoads
<1> QED
  BY <1>2 DEF d

(* A symbol stored. *)
LEMMA NamedStore ==
  ASSUME NEW c \in Compilers, ~Failed(c), Named(c), NEW symbol \in Symbols,
         SymbolFits(c, Level(c), symbol), symbol.scope \in {"GLOBAL", "LOCAL"}
  PROVE  LET d == StoreSymbol(c, symbol) IN Stops(d) \/ Named(d)
<1> DEFINE zero == 0
           d == StoreSymbol(c, symbol)
<1>1. Stops(d) \/ Emits(c, d, StoreOp(symbol), symbol.index, zero)
  BY SymbolMoved
<1> HIDE DEF d, zero
<1>2. Stops(d) \/ Named(d)
  BY <1>1, NamedStores
<1> QED
  BY <1>2 DEF d

(* A function captures a symbol of the level around it. *)
LEMMA NamedCapture ==
  ASSUME NEW c \in Compilers, ~Failed(c), Named(c), NEW name \in STRING,
         NEW symbol \in Symbols, NEW l \in 2 .. Level(c), SymbolFits(c, l - 1, symbol)
  PROVE  LET d == Capture(c, name, l, symbol) IN Stops(d) \/ Named(d)
<1> DEFINE d == Capture(c, name, l, symbol)
           free == FreeSymbol(c, l)
<1>1. l \in 1 .. Level(c)
  BY CurrentScope
<1>2. \/ Stops(d)
      \/ \E e \in Compilers : Captures(c, e, l, name, symbol) /\ Resolves(e, d, name, l, free)
  BY <1>1, CaptureIs, Zenon
<1> HIDE DEF d
<1>3. ASSUME NEW e \in Compilers, Captures(c, e, l, name, symbol),
             Resolves(e, d, name, l, free)
      PROVE  Named(d)
  <2>1. Named(e) /\ Level(e) = Level(c) /\ free \in Symbols /\ SymbolFits(e, l, free)
    BY <1>3, NamedCaptures
  <2>2. l \in 1 .. Level(e)
    BY <1>1, <2>1
  <2> HIDE DEF free
  <2> QED
    BY <1>3, <2>1, <2>2, NamedResolves
<1>4. Stops(d) \/ Named(d)
  BY <1>2, <1>3
<1> QED
  BY <1>4 DEF d

(* The condition of an if is compiled. *)
LEMMA NamedConsequence ==
  ASSUME NEW c \in Compilers, ~Failed(c), Named(c), NEW yes \in Seq(Stmts),
         NEW no \in Seq(Stmts)
  PROVE  LET d == CompileConsequence(c, yes, no) IN Stops(d) \/ Named(d)
<1> DEFINE d == CompileConsequence(c, yes, no)
           op == "JUMP_NOT_TRUTHY"
           operand == Unpatched
           zero == 0
           list == Statements(yes)
           t == ALTERNATIVE(no, Len(Emitted(c)))
           tasks == Append(list, t)
<1>1. \/ Stops(d)
      \/ \E e \in Compilers : Emits(c, e, op, operand, zero) /\ Asks(e, d, tasks)
  BY ConsequenceIs, Zenon
<1>2. Instr(op, operand, zero).op \notin Careful
  BY DEF Instr, Careful
<1>3. list \in Seq(Tasks) /\ Nameless(t) /\ \A k \in 1 .. Len(list) : Nameless(list[k])
  BY NamelessLists, NamelessAre
<1> HIDE DEF d, op, operand, zero, list, t
<1>4. \A k \in 1 .. Len(tasks) : Nameless(tasks[k])
  BY <1>3, NamelessAppend
<1> HIDE DEF tasks
<1>5. ASSUME NEW e \in Compilers, Emits(c, e, op, operand, zero), Asks(e, d, tasks)
      PROVE  Named(d)
  <2>1. InstructionFits(e, Level(e), Instr(op, operand, zero))
    BY <1>2, CarelessFits
  <2>2. Named(e)
    BY <1>5, <2>1, NamedEmits
  <2> QED
    BY <1>4, <1>5, <2>2, NamedAsksNameless
<1>6. Stops(d) \/ Named(d)
  BY <1>1, <1>5
<1> QED
  BY <1>6 DEF d

(* The first branch of an if is compiled. *)
LEMMA NamedAlternative ==
  ASSUME NEW c \in Compilers, ~Failed(c), Named(c), NEW stmts \in Seq(Stmts), NEW p,
         JumpAt(c, p, "JUMP_NOT_TRUTHY")
  PROVE  LET d == CompileAlternative(c, stmts, p) IN Stops(d) \/ Named(d)
<1> DEFINE d == CompileAlternative(c, stmts, p)
           op == "JUMP"
           operand == Unpatched
           zero == 0
           list == Statements(stmts)
           tasks(e) == Append(list, END_IF(Len(Emitted(e))))
           jump == "JUMP_NOT_TRUTHY"
<1>1. \/ Stops(d)
      \/ \E e, f, g \in Compilers :
           /\ Branch(c, e)
           /\ Emits(e, f, op, operand, zero)
           /\ Patches(f, g, p)
           /\ Asks(g, d, tasks(e))
  BY AlternativeIs, Zenon
<1>2. Instr(op, operand, zero).op \notin Careful
  BY DEF Instr, Careful
<1>3. list \in Seq(Tasks) /\ \A k \in 1 .. Len(list) : Nameless(list[k])
  BY NamelessLists
<1>4. jump \in JumpOps /\ JumpAt(c, p, jump)
  BY DEF JumpOps
<1> HIDE DEF d, op, operand, zero, list, jump
<1>5. ASSUME NEW e \in Compilers
      PROVE  \A k \in 1 .. Len(tasks(e)) : Nameless(tasks(e)[k])
  <2> DEFINE t == END_IF(Len(Emitted(e)))
  <2>1. Nameless(t)
    BY NamelessAre
  <2> HIDE DEF t
  <2>2. \A k \in 1 .. Len(Append(list, t)) : Nameless(Append(list, t)[k])
    BY <1>3, <2>1, NamelessAppend
  <2> QED
    BY <2>2 DEF t
<1> HIDE DEF tasks
<1>6. ASSUME NEW e \in Compilers, NEW f \in Compilers, NEW g \in Compilers, Branch(c, e),
             Emits(e, f, op, operand, zero), Patches(f, g, p), Asks(g, d, tasks(e))
      PROVE  Named(d)
  <2>1. Named(e)
    BY <1>6, NamedBranch
  <2>2. InstructionFits(f, Level(f), Instr(op, operand, zero))
    BY <1>2, CarelessFits
  <2>3. Named(f)
    BY <1>6, <2>1, <2>2, NamedEmits
  <2>4. JumpAt(e, p, jump)
    BY <1>4, <1>6, JumpStays
  <2>5. p \in Nat /\ Emitted(f)[p + 1].op \in JumpOps
    <3>1. /\ Emitted(f) = Append(Emitted(e), Instr(op, operand, zero))
          /\ Emitted(e) \in Seq(Instructions)
          /\ p \in Nat /\ p < Len(Emitted(e)) /\ Emitted(e)[p + 1].op = jump
      BY <1>6, <2>4, CurrentScope DEF Emits, JumpAt
    <3>2. Emitted(f)[p + 1] = Emitted(e)[p + 1]
      BY <3>1
    <3> QED
      BY <1>4, <3>1, <3>2
  <2>6. Named(g)
    BY <1>6, <2>3, <2>5, NamedPatches
  <2> QED
    BY <1>5, <1>6, <2>6, NamedAsksNameless
<1>7. Stops(d) \/ Named(d)
  BY <1>1, <1>6
<1> QED
  BY <1>7 DEF d

(* The second branch of an if is compiled. *)
LEMMA NamedEndIf ==
  ASSUME NEW c \in Compilers, ~Failed(c), Named(c), NEW p, JumpAt(c, p, "JUMP")
  PROVE  LET d == EndIf(c, p) IN Stops(d) \/ Named(d)
<1> DEFINE d == EndIf(c, p)
           jump == "JUMP"
<1>1. Stops(d) \/ \E e \in Compilers : Branch(c, e) /\ Patches(e, d, p)
  BY EndIfIs, Zenon
<1>2. jump \in JumpOps /\ JumpAt(c, p, jump)
  BY DEF JumpOps
<1> HIDE DEF d, jump
<1>3. ASSUME NEW e \in Compilers, Branch(c, e), Patches(e, d, p)
      PROVE  Named(d)
  <2>1. Named(e)
    BY <1>3, NamedBranch
  <2>2. JumpAt(e, p, jump)
    BY <1>2, <1>3, JumpStays
  <2>3. p \in Nat /\ Emitted(e)[p + 1].op \in JumpOps
    BY <1>2, <2>2 DEF JumpAt
  <2> QED
    BY <1>3, <2>1, <2>3, NamedPatches
<1>4. Stops(d) \/ Named(d)
  BY <1>1, <1>3
<1> QED
  BY <1>4 DEF d

(* The arguments of a call. *)
LEMMA NamedArguments ==
  ASSUME NEW c \in Compilers, ~Failed(c), Named(c), NEW exprs \in Seq(Exprs)
  PROVE  LET d == CompileArguments(c, exprs) IN Stops(d) \/ Named(d)
<1> DEFINE d == CompileArguments(c, exprs)
           list == Expressions(exprs)
           t == Emission("CALL", Len(exprs))
           tasks == Append(list, t)
<1>1. Stops(d) \/ Asks(c, d, tasks)
  BY ArgumentsAre
<1>2. list \in Seq(Tasks) /\ Nameless(t) /\ \A k \in 1 .. Len(list) : Nameless(list[k])
  BY NamelessLists, NamelessAre
<1> HIDE DEF d, list, t
<1>3. \A k \in 1 .. Len(tasks) : Nameless(tasks[k])
  BY <1>2, NamelessAppend
<1> HIDE DEF tasks
<1>4. Stops(d) \/ Named(d)
  BY <1>1, <1>3, NamedAsksNameless
<1> QED
  BY <1>4 DEF d

(* A parameter. *)
LEMMA NamedDefine ==
  ASSUME NEW c \in Compilers, ~Failed(c), Named(c), NEW name \in STRING
  PROVE  LET d == DefineSymbol(c, name) IN Stops(d) \/ Named(d)
<1> DEFINE d == DefineSymbol(c, name)
<1>1. Stops(d) \/ (Defines(c, d, name) /\ d \in Compilers)
  BY DefinedIs, Zenon
<1> HIDE DEF d
<1>2. Stops(d) \/ Named(d)
  BY <1>1, NamedDefines
<1> QED
  BY <1>2 DEF d

(* A closure is made. *)
LEMMA NamedClosure ==
  ASSUME NEW c \in Compilers, ~Failed(c), Named(c), NEW f \in CompiledFunctions,
         NEW count \in Nat, OperandsValid(c, f.instructions, f.local_count),
         FreeValuesNeeded(f.instructions, count)
  PROVE  LET d == MakeClosure(c, f, count) IN Stops(d) \/ Named(d)
<1> DEFINE d == MakeClosure(c, f, count)
           op == "CLOSURE"
           index == Len(c.constants)
<1>1. \/ Stops(d)
      \/ \E e \in Compilers : AddsFunction(c, e, f) /\ Emits(e, d, op, index, count)
  BY ClosureIs, Zenon
<1> HIDE DEF d
<1>2. ASSUME NEW e \in Compilers, AddsFunction(c, e, f), Emits(e, d, op, index, count)
      PROVE  Named(d)
  <2> DEFINE i == Instr(op, index, count)
  <2>1. /\ Named(e)
        /\ IsFunctionConstant(e, index)
        /\ FunctionConstant(e, index) = f
    BY <1>2, NamedAddsFunction
  <2>2. d.constants = e.constants /\ d.functions = e.functions
    BY <1>2 DEF Emits, SameBytecode
  <2>3. IsFunctionConstant(d, index) /\ FunctionConstant(d, index) = f
    BY <2>1, <2>2 DEF IsFunctionConstant, FunctionConstant
  <2>4. i.op = "CLOSURE" /\ i.operand = index /\ i.operand2 = count
    BY DEF Instr
  <2> HIDE DEF i, index
  <2>5. InstructionFits(d, Level(d), i)
    BY <2>3, <2>4 DEF InstructionFits, OperandFits
  <2> QED
    BY <1>2, <2>1, <2>5, NamedEmits DEF i
<1>3. Stops(d) \/ Named(d)
  BY <1>1, <1>2
<1> QED
  BY <1>3 DEF d

(* Whether there is a value or there is none, it is emitted with no name. *)
LEMMA NamedEmitsCareless ==
  ASSUME NEW c \in Compilers, Named(c), NEW d, NEW op, op \notin Careful, NEW operand,
         NEW operand2, Emits(c, d, op, operand, operand2)
  PROVE  Named(d)
<1>1. Instr(op, operand, operand2).op \notin Careful
  BY DEF Instr
<1>2. InstructionFits(d, Level(d), Instr(op, operand, operand2))
  BY <1>1, CarelessFits
<1> QED
  BY <1>2, NamedEmits

(* The way into an expression. *)
LEMMA NamedEnters ==
  ASSUME NEW c \in Compilers, Named(c), NEW e, Asks(c, e, <<LEAVE>>)
  PROVE  Named(e)
<1> DEFINE tasks == <<LEAVE>>
<1>1. \A k \in 1 .. Len(tasks) : tasks[k] = LEAVE
  OBVIOUS
<1>2. Asks(c, e, tasks)
  OBVIOUS
<1> HIDE DEF tasks
<1> QED
  BY <1>1, <1>2, NamelessAre, NamedAsksNameless

(* An expression. *)
LEMMA NamedExpression ==
  ASSUME NEW c \in Compilers, ~Failed(c), Named(c), NEW expr \in Exprs,
         NEW function_name \in STRING \union {NoName}
  PROVE  LET d == CompileExpression(c, expr, function_name) IN Stops(d) \/ Named(d)
<1> DEFINE d == CompileExpression(c, expr, function_name)
<1>1. Stops(d) \/ Evaluates(c, d, expr, function_name)
  BY ExpressionIs
<1> SUFFICES Stops(d) \/ Named(d)
  OBVIOUS
<1> HIDE DEF d
<1>2. CASE /\ expr.type = "IDENT"
           /\ \E e \in Compilers : \E l \in 1 .. Level(e) :
                /\ Asks(c, e, <<LEAVE>>)
                /\ expr.ident \in DOMAIN e.scopes[l].entries
                /\ e.scopes[l].entries[expr.ident] \in Symbols
                /\ Resolves(e, d, expr.ident, l, e.scopes[l].entries[expr.ident])
  <2> DEFINE name == expr.ident
  <2>1. PICK e \in Compilers : \E l \in 1 .. Level(e) :
                /\ Asks(c, e, <<LEAVE>>)
                /\ name \in DOMAIN e.scopes[l].entries
                /\ e.scopes[l].entries[name] \in Symbols
                /\ Resolves(e, d, name, l, e.scopes[l].entries[name])
    BY <1>2
  <2>2. PICK l \in 1 .. Level(e) :
                /\ Asks(c, e, <<LEAVE>>)
                /\ name \in DOMAIN e.scopes[l].entries
                /\ e.scopes[l].entries[name] \in Symbols
                /\ Resolves(e, d, name, l, e.scopes[l].entries[name])
    BY <2>1
  <2> HIDE DEF name
  <2>3. Named(e)
    BY <2>2, NamedEnters
  <2> DEFINE symbol == e.scopes[l].entries[name]
  <2>4. SymbolFits(e, l, symbol)
    BY <2>2, <2>3, NamedKnows
  <2>5. symbol \in Symbols /\ Resolves(e, d, name, l, symbol)
    BY <2>2
  <2> HIDE DEF symbol
  <2> QED
    BY <2>3, <2>4, <2>5, NamedResolves
<1>3. CASE /\ expr.type = "INT"
           /\ \E e, f \in Compilers :
                /\ Asks(c, e, <<LEAVE>>)
                /\ Adds(e, f, IntegerValue(expr.integer))
                /\ Emits(f, d, "CONSTANT", Len(e.constants), 0)
  <2> DEFINE n == expr.integer
             op == "CONSTANT"
             zero == 0
  <2>1. PICK e \in Compilers, f \in Compilers :
                /\ Asks(c, e, <<LEAVE>>)
                /\ Adds(e, f, IntegerValue(n))
                /\ Emits(f, d, op, Len(e.constants), zero)
    BY <1>3
  <2>2. n \in 0 .. MaxInt
    BY <1>3, ExpressionParts
  <2> DEFINE index == Len(e.constants)
             i == Instr(op, index, zero)
  <2>3. i.op = "CONSTANT" /\ i.operand = index
    BY DEF Instr
  <2>4. Emits(f, d, op, index, zero)
    BY <2>1
  <2> HIDE DEF n, op, zero
  <2>5. Named(e)
    BY <2>1, NamedEnters
  <2>6. Named(f) /\ index < Len(f.constants)
    BY <2>1, <2>2, <2>5, NamedAdds
  <2>7. d.constants = f.constants
    BY <2>1 DEF Emits, SameBytecode
  <2> HIDE DEF i, index
  <2>8. InstructionFits(d, Level(d), i)
    BY <2>3, <2>6, <2>7 DEF InstructionFits, OperandFits
  <2>9. InstructionFits(d, Level(d), Instr(op, index, zero))
    BY <2>8 DEF i
  <2> QED
    BY <2>4, <2>6, <2>9, NamedEmits
<1>4. CASE /\ expr.type = "BOOL"
           /\ \E e \in Compilers :
                /\ Asks(c, e, <<LEAVE>>)
                /\ Emits(e, d, "TRUE", 0, 0) \/ Emits(e, d, "FALSE", 0, 0)
  <2> DEFINE yes == "TRUE"
             no == "FALSE"
             zero == 0
  <2>1. PICK e \in Compilers :
                /\ Asks(c, e, <<LEAVE>>)
                /\ Emits(e, d, yes, zero, zero) \/ Emits(e, d, no, zero, zero)
    BY <1>4
  <2>2. yes \notin Careful /\ no \notin Careful
    BY DEF Careful
  <2> HIDE DEF yes, no, zero
  <2>3. Named(e)
    BY <2>1, NamedEnters
  <2> QED
    BY <2>1, <2>2, <2>3, NamedEmitsCareless
<1>5. ASSUME NEW a, NEW b, Nameless(a), Nameless(b), Asks(c, d, <<a, b, LEAVE>>)
      PROVE  Named(d)
  <2> DEFINE tasks == <<a, b, LEAVE>>
  <2>1. \A k \in 1 .. Len(tasks) : tasks[k] \in {a, b, LEAVE}
    OBVIOUS
  <2>2. Asks(c, d, tasks)
    BY <1>5
  <2> HIDE DEF tasks
  <2>3. \A k \in 1 .. Len(tasks) : Nameless(tasks[k])
    BY <1>5, <2>1, NamelessAre
  <2> QED
    BY <2>2, <2>3, NamedAsksNameless
<1>6. CASE /\ expr.type = "PREFIX"
           /\ Asks(c, d, <<Evaluation(expr.right, NoName), Emission(expr.op, 0), LEAVE>>)
  <2> DEFINE a == Evaluation(expr.right, NoName)
             b == Emission(expr.op, 0)
  <2>1. expr.op \in UnaryOps
    BY <1>6, ExpressionParts
  <2>2. Nameless(a) /\ Nameless(b)
    BY <2>1, NamelessAre
  <2>3. Asks(c, d, <<a, b, LEAVE>>)
    BY <1>6
  <2> HIDE DEF a, b
  <2> QED
    BY <1>5, <2>2, <2>3
<1>7. CASE /\ expr.type = "INFIX"
           /\ Asks(c, d, <<Evaluation(expr.left, NoName), Evaluation(expr.right, NoName),
                           Emission(InfixOp[expr.op], 0), LEAVE>>)
  <2> DEFINE a == Evaluation(expr.left, NoName)
             b == Evaluation(expr.right, NoName)
             f == Emission(InfixOp[expr.op], 0)
             tasks == <<a, b, f, LEAVE>>
  <2>1. InfixOp[expr.op] \in BinaryOps
    BY <1>7, ExpressionParts
  <2>2. Nameless(a) /\ Nameless(b) /\ Nameless(f) /\ Nameless(LEAVE)
    BY <2>1, NamelessAre
  <2>3. Asks(c, d, tasks)
    BY <1>7
  <2>4. \A k \in 1 .. Len(tasks) : tasks[k] \in {a, b, f, LEAVE}
    OBVIOUS
  <2> HIDE DEF a, b, f, tasks
  <2>5. \A k \in 1 .. Len(tasks) : Nameless(tasks[k])
    BY <2>2, <2>4
  <2> QED
    BY <2>3, <2>5, NamedAsksNameless
<1>8. CASE /\ expr.type = "IF"
           /\ Asks(c, d, <<Evaluation(expr.condition, NoName),
                           CONSEQUENCE(expr.consequence, expr.alternative), LEAVE>>)
  <2> DEFINE a == Evaluation(expr.condition, NoName)
             b == CONSEQUENCE(expr.consequence, expr.alternative)
  <2>1. Nameless(a) /\ Nameless(b)
    BY NamelessAre
  <2>2. Asks(c, d, <<a, b, LEAVE>>)
    BY <1>8
  <2> HIDE DEF a, b
  <2> QED
    BY <1>5, <2>1, <2>2
<1>9. CASE /\ expr.type = "FUNCTION"
           /\ \E e \in Compilers :
                /\ Asks(c, e, <<FUNCTION(Len(expr.parameters)), LEAVE>>)
                /\ Opens(e, d, expr, function_name)
  <2> DEFINE a == FUNCTION(Len(expr.parameters))
  <2>1. PICK e \in Compilers : Asks(c, e, <<a, LEAVE>>) /\ Opens(e, d, expr, function_name)
    BY <1>9
  <2>2. Nameless(a) /\ Nameless(LEAVE)
    BY NamelessAre
  <2> HIDE DEF a
  <2>3. Named(e)
    BY <2>1, <2>2, NamedAsksTwo
  <2> QED
    BY <1>9, <2>1, <2>3, NamedOpens
<1>10. CASE /\ expr.type = "CALL"
            /\ Asks(c, d, <<Evaluation(expr.function, NoName), ARGUMENTS(expr.arguments),
                            LEAVE>>)
  <2> DEFINE a == Evaluation(expr.function, NoName)
             b == ARGUMENTS(expr.arguments)
  <2>1. Nameless(a) /\ Nameless(b)
    BY NamelessAre
  <2>2. Asks(c, d, <<a, b, LEAVE>>)
    BY <1>10
  <2> HIDE DEF a, b
  <2> QED
    BY <1>5, <2>1, <2>2
<1> QED
  BY <1>1, <1>2, <1>3, <1>4, <1>6, <1>7, <1>8, <1>9, <1>10 DEF Evaluates

(* The names a task stores to: a let's own, once its value is compiled, or at once
   when the value is a function. *)
Binds(t) ==
  IF t.do = "LET" THEN {t.name}
  ELSE IF t.do = "STATEMENT" /\ t.stmt.type = "LET" /\ t.stmt.value.type = "FUNCTION"
    THEN {t.stmt.name}
  ELSE {}

(* No let binds a name that its function has captured from around it. *)
CapturesNotBound ==
  compiling /\ Todo(compiler) # << >> =>
    \A name \in Binds(Task(compiler)) : NotFree(compiler, name)

(* What a task emits by itself carries no name. *)
LEMMA NamelessOps ==
  \A op \in {"POP", "RETURN_VALUE", "CALL"} \union BinaryOps \union UnaryOps :
    op \notin Careful
<1>1. \A op \in {"POP", "RETURN_VALUE", "CALL"} : op \notin Careful
  BY DEF Careful
<1>2. \A op \in BinaryOps : op \notin Careful
  BY DEF Careful, BinaryOps, ArithmeticOps, ComparisonOps
<1>3. \A op \in UnaryOps : op \notin Careful
  BY DEF Careful, UnaryOps
<1> QED
  BY <1>1, <1>2, <1>3

(* Every step of the compiler leaves what is named in order, or stops. *)
LEMMA TaskNamed ==
  ASSUME compiler \in Compilers, ~Failed(compiler), Sane(compiler), Named(compiler),
         CapturesNotBound, CompileStep
  PROVE  \E d : Becomes(d) /\ (Stops(d) \/ Named(d))
<1> DEFINE c == compiler
           b == Begun(c)
           task == Task(c)
<1>1. Todo(c) # << >> /\ compiling
  BY DEF CompileStep, Doing, Todo
<1>2. /\ b \in Compilers /\ ~Failed(b)
      /\ task \in Tasks
      /\ Fits(Emitted(b), Level(b), task)
  BY <1>1, BegunSane, Zenon
<1>3. Named(b) /\ TaskFits(b, Level(b), task)
  BY <1>1, NamedBegun
<1>4. ASSUME NEW name \in Binds(task)
      PROVE  NotFree(b, name)
  <2>1. NotFree(c, name)
    BY <1>1, <1>4 DEF CapturesNotBound
  <2>2. Scope(b).entries = Scope(c).entries
    BY <1>1, BegunIs DEF SameNames
  <2> QED
    BY <2>1, <2>2 DEF NotFree, SymbolOf
<1>5.  \/ task.do = "STATEMENT" /\ Becomes(CompileStatement(b, task.stmt))
       \/ task.do = "LET" /\ Becomes(CompileLet(b, task.name))
       \/ task.do = "STORE" /\ Becomes(StoreSymbol(b, task.symbol))
       \/ task.do = "EXPRESSION" /\ Becomes(CompileExpression(b, task.expr, task.name))
       \/ task.do = "LEAVE" /\ Becomes(LeaveExpression(b))
       \/ task.do = "EMIT" /\ Becomes(Emit(b, task.op, task.operand, 0))
       \/ /\ task.do = "CAPTURE"
          /\ Becomes(Capture(b, task.name, task.level, task.symbol))
       \/ /\ task.do = "CONSEQUENCE"
          /\ Becomes(CompileConsequence(b, task.consequence, task.alternative))
       \/ /\ task.do = "ALTERNATIVE"
          /\ Becomes(CompileAlternative(b, task.stmts, task.jump_if_false))
       \/ task.do = "END_IF" /\ Becomes(EndIf(b, task.jump_end))
       \/ task.do = "ARGUMENTS" /\ Becomes(CompileArguments(b, task.exprs))
       \/ task.do = "DEFINE" /\ Becomes(DefineSymbol(b, task.name))
       \/ task.do = "LOAD" /\ Becomes(LoadSymbol(b, task.symbol))
       \/ /\ task.do = "CLOSURE"
          /\ Becomes(MakeClosure(b, task.function, task.free_count))
  BY DEF CompileStep, Doing
<1> HIDE DEF b, task, c
<1> SUFFICES \E d : Becomes(d) /\ (Stops(d) \/ Named(d))
  OBVIOUS
<1>6. CASE task.do = "STATEMENT" /\ Becomes(CompileStatement(b, task.stmt))
  <2>1. task.stmt \in Stmts
    BY <1>2, <1>6, TaskKinds
  <2>2. task.stmt.type = "LET" /\ task.stmt.value.type = "FUNCTION"
          => NotFree(b, task.stmt.name)
    BY <1>4, <1>6 DEF Binds
  <2> QED
    BY <1>2, <1>3, <1>6, <2>1, <2>2, NamedStatement
<1>7. CASE task.do = "LET" /\ Becomes(CompileLet(b, task.name))
  <2>1. task.name \in STRING /\ NotFree(b, task.name)
    BY <1>2, <1>4, <1>7, TaskKinds DEF Binds
  <2> QED
    BY <1>2, <1>3, <1>7, <2>1, NamedLet
<1>8. CASE task.do = "STORE" /\ Becomes(StoreSymbol(b, task.symbol))
  <2>1. /\ task.symbol \in Symbols
        /\ SymbolFits(b, Level(b), task.symbol)
        /\ task.symbol.scope \in {"GLOBAL", "LOCAL"}
    BY <1>2, <1>3, <1>8, TaskKinds DEF TaskFits
  <2> QED
    BY <1>2, <1>3, <1>8, <2>1, NamedStore
<1>9. CASE task.do = "EXPRESSION" /\ Becomes(CompileExpression(b, task.expr, task.name))
  <2>1. task.expr \in Exprs /\ task.name \in STRING \union {NoName}
    BY <1>2, <1>9, TaskKinds
  <2> QED
    BY <1>2, <1>3, <1>9, <2>1, NamedExpression
<1>10. CASE task.do = "LEAVE" /\ Becomes(LeaveExpression(b))
  BY <1>2, <1>3, <1>10, NamedLeaves
<1>11. CASE task.do = "EMIT" /\ Becomes(Emit(b, task.op, task.operand, 0))
  <2>1. /\ task.op \in OpCodes /\ task.operand \in Nat
        /\ task.op \in {"POP", "RETURN_VALUE", "CALL"} \union BinaryOps \union UnaryOps
    BY <1>2, <1>3, <1>11, TaskKinds DEF TaskFits
  <2>2. task.op \notin Careful
    BY <2>1, NamelessOps
  <2> QED
    BY <1>2, <1>3, <1>11, <2>1, <2>2, NamedEmission
<1>12. CASE /\ task.do = "CAPTURE"
            /\ Becomes(Capture(b, task.name, task.level, task.symbol))
  <2>1. task.name \in STRING /\ task.symbol \in Symbols
    BY <1>2, <1>12, TaskKinds
  <2>2. task.level \in 2 .. Level(b) /\ SymbolFits(b, task.level - 1, task.symbol)
    BY <1>3, <1>12 DEF TaskFits
  <2> QED
    BY <1>2, <1>3, <1>12, <2>1, <2>2, NamedCapture
<1>13. CASE /\ task.do = "CONSEQUENCE"
            /\ Becomes(CompileConsequence(b, task.consequence, task.alternative))
  BY <1>2, <1>3, <1>13, TaskKinds, NamedConsequence
<1>14. CASE /\ task.do = "ALTERNATIVE"
            /\ Becomes(CompileAlternative(b, task.stmts, task.jump_if_false))
  <2>1. task.stmts \in Seq(Stmts) /\ task.jump_if_false \in Nat
    BY <1>2, <1>14, TaskKinds
  <2>2. JumpAt(b, task.jump_if_false, "JUMP_NOT_TRUTHY")
    BY <1>2, <1>14, <2>1 DEF Fits, JumpAt
  <2> QED
    BY <1>2, <1>3, <1>14, <2>1, <2>2, NamedAlternative
<1>15. CASE task.do = "END_IF" /\ Becomes(EndIf(b, task.jump_end))
  <2>1. task.jump_end \in Nat
    BY <1>2, <1>15, TaskKinds
  <2>2. JumpAt(b, task.jump_end, "JUMP")
    BY <1>2, <1>15, <2>1 DEF Fits, JumpAt
  <2> QED
    BY <1>2, <1>3, <1>15, <2>2, NamedEndIf
<1>16. CASE task.do = "ARGUMENTS" /\ Becomes(CompileArguments(b, task.exprs))
  BY <1>2, <1>3, <1>16, TaskKinds, NamedArguments
<1>17. CASE task.do = "DEFINE" /\ Becomes(DefineSymbol(b, task.name))
  BY <1>2, <1>3, <1>17, TaskKinds, NamedDefine
<1>18. CASE task.do = "LOAD" /\ Becomes(LoadSymbol(b, task.symbol))
  <2>1. task.symbol \in Symbols /\ SymbolFits(b, Level(b), task.symbol)
    BY <1>2, <1>3, <1>18, TaskKinds DEF TaskFits
  <2> QED
    BY <1>2, <1>3, <1>18, <2>1, NamedLoad
<1>19. CASE /\ task.do = "CLOSURE"
            /\ Becomes(MakeClosure(b, task.function, task.free_count))
  <2>1. task.function \in CompiledFunctions /\ task.free_count \in Nat
    BY <1>2, <1>19, TaskKinds
  <2>2. /\ OperandsValid(b, task.function.instructions, task.function.local_count)
        /\ FreeValuesNeeded(task.function.instructions, task.free_count)
    BY <1>3, <1>19 DEF TaskFits
  <2> QED
    BY <1>2, <1>3, <1>19, <2>1, <2>2, NamedClosure
<1> QED
  BY <1>5, <1>6, <1>7, <1>8, <1>9, <1>10, <1>11, <1>12, <1>13, <1>14, <1>15, <1>16,
     <1>17, <1>18, <1>19

(* The end of a function leaves it in order, or stops. *)
LEMMA EndNamed ==
  ASSUME compiler \in Compilers, ~Failed(compiler), Sane(compiler), Named(compiler),
         CompileEndFunction
  PROVE  \E d : Becomes(d) /\ (Stops(d) \/ Named(d))
<1> DEFINE c == compiler
           d == EndFunction(c)
<1>1. Todo(c) = << >> /\ ~Compiled(c) /\ Becomes(d)
  BY DEF CompileEndFunction, Todo
<1>2. Level(c) > 1 /\ Level(c) \in Nat
  BY <1>1, CurrentScope DEF Compiled, Todo
<1>3. /\ c \in Compilers /\ ~Failed(c) /\ Named(c)
      /\ \A l \in 1 .. Level(c) - 1 : Waiting(c.scopes[l].todo)
  BY DEF Sane, Placed
<1> HIDE DEF c
<1>4. Waiting(c.scopes[Level(c) - 1].todo)
  <2>1. Level(c) - 1 \in 1 .. Level(c) - 1
    BY <1>2
  <2> QED
    BY <1>3, <2>1
<1>5. Stops(d) \/ \E e \in Compilers : Body(c, e) /\ Closes(e, d)
  <2>1. /\ c.scopes[Level(c) - 1].todo # << >>
        /\ c.scopes[Level(c) - 1].todo[1].do = "FUNCTION"
    BY <1>4 DEF Waiting
  <2> QED
    BY <1>2, <1>3, <2>1, EndFunctionIs, Zenon
<1> HIDE DEF d
<1>6. ASSUME NEW e \in Compilers, Body(c, e), Closes(e, d)
      PROVE  Named(d)
  <2>1. Level(e) = Level(c)
    BY <1>3, <1>6, BodyKeeps DEF SameBelow
  <2>2. Named(e)
    BY <1>3, <1>6, NamedBody
  <2> QED
    BY <1>2, <1>6, <2>1, <2>2, NamedCloses
<1> QED
  BY <1>1, <1>5, <1>6

(* The compiler, as long as it has not failed, has its names in order. *)
NamedInv == ~Failed(compiler) => Named(compiler)

(* It does at the start. *)
LEMMA InitNamed == CompiledInit => NamedInv
<1> SUFFICES ASSUME CompiledInit PROVE Named(compiler)
  BY DEF NamedInv
<1> DEFINE s == compiler.scopes[1]
           none == << >>
<1>1. /\ Len(compiler.scopes) = 1
      /\ s.instructions = none /\ s.todo = none /\ s.entries = none
      /\ s.free_symbols = none
      /\ compiler.functions = none /\ compiler.constants = none
  BY DEF CompiledInit, CompilerInit, EmptyScope
<1>2. Len(none) = 0 /\ DOMAIN none = {}
  OBVIOUS
<1>3. Level(compiler) = 1
  BY <1>1 DEF Level
<1> HIDE DEF none, s
<1>4. /\ \A name \in DOMAIN s.entries : FALSE
      /\ \A k \in 1 .. Len(s.free_symbols) : FALSE
      /\ \A k \in 1 .. Len(s.todo) : FALSE
      /\ \A k \in 1 .. Len(s.instructions) : FALSE
      /\ \A k \in 1 .. Len(compiler.functions) : FALSE
      /\ \A k \in 1 .. Len(compiler.constants) : FALSE
  BY <1>1, <1>2
<1>5. ScopeFits(compiler, 1)
  BY <1>4 DEF ScopeFits, s
<1>6. FunctionsFit(compiler)
  BY <1>4 DEF FunctionsFit
<1>7. ConstantsFit(compiler)
  BY <1>4 DEF ConstantsFit
<1> QED
  BY <1>3, <1>5, <1>6, <1>7 DEF Named

(* It does after every step, if no let binds what is captured. *)
LEMMA NextNamed ==
  CompilerInv /\ NamedInv /\ CapturesNotBound /\ [CompiledNext]_compiledVars => NamedInv'
<1> SUFFICES ASSUME CompilerInv, NamedInv, CapturesNotBound, [CompiledNext]_compiledVars
             PROVE  NamedInv'
  OBVIOUS
<1>1. \A d : Becomes(d) => compiler' = d
  BY DEF Becomes
<1>2. compiling => /\ compiler \in Compilers /\ ~Failed(compiler)
                   /\ Sane(compiler) /\ Named(compiler)
  BY DEF CompilerInv, NamedInv
<1>3. ASSUME NEW d, Becomes(d), Stops(d) \/ Named(d)
      PROVE  NamedInv'
  <2>1. compiler' = d
    BY <1>1, <1>3
  <2> QED
    BY <1>3, <2>1 DEF NamedInv, Stops
<1>4. CASE ReadLine
  <2>1. PICK stmts \in Lines : compiler' = Compile(compiler, stmts)
    BY <1>4 DEF ReadLine, Enters
  <2>2. compiler \in Compilers /\ ~Failed(compiler) /\ Compiled(compiler)
        /\ Sane(compiler) /\ Named(compiler)
    BY <1>4 DEF ReadLine, Ready, CompilerInv, NamedInv
  <2>3. Compile(compiler, stmts) \in Compilers
    BY <2>2, CompileStarts DEF Steps, Stops
  <2>4. Named(Compile(compiler, stmts))
    BY <2>2, <2>3, NamedStarts
  <2> QED
    BY <2>1, <2>4 DEF NamedInv
<1>5. CASE CompileStep
  <2>1. compiling
    BY <1>5 DEF CompileStep, Doing
  <2>2. \E d : Becomes(d) /\ (Stops(d) \/ Named(d))
    BY <1>2, <1>5, <2>1, TaskNamed
  <2> QED
    BY <1>3, <2>2
<1>6. CASE CompileEndFunction
  <2>1. compiling
    BY <1>6 DEF CompileEndFunction
  <2>2. \E d : Becomes(d) /\ (Stops(d) \/ Named(d))
    BY <1>2, <1>6, <2>1, EndNamed
  <2> QED
    BY <1>3, <2>2
<1>7. CASE compiler' = compiler
  BY <1>7 DEF NamedInv
<1>8. CASE UNCHANGED compiledVars
  BY <1>7, <1>8 DEF compiledVars
<1> QED
  BY <1>4, <1>5, <1>6, <1>7, <1>8 DEF CompiledNext, GoOn, RunCompiled, Execute

-----------------------------------------------------------------------------
(* The contract between compiler and machine *)

(* What the machine runs is well-formed and verified as long as it runs. *)
RunsVerified == running => IsBytecode(Running) /\ Verified(Running)

(* Bytecode as a compiler with its names in order hands it over. *)
LEMMA HandedVerified ==
  ASSUME NEW c \in Compilers, Aligned(c), Named(c), Compiled(c), NEW b,
         b.instructions = Emitted(c), b.constants = c.constants, b.functions = c.functions
  PROVE  IsBytecode(b) /\ Verified(b)
<1>1. /\ Level(c) = 1 /\ 1 \in 1 .. Level(c) /\ Emitted(c) = c.scopes[1].instructions
      /\ Emitted(c) \in Seq(Instructions)
  BY CurrentScope DEF Compiled, Emitted
<1>2. /\ HeightsAgree(Emitted(c))
      /\ \A k \in 1 .. Len(c.functions) : Balanced(c.functions[k].instructions)
  BY HandedOver
<1>3. IsBytecode(b)
  <2>1. /\ b.functions \in Seq(CompiledFunctions)
        /\ b.constants \in Seq(Values)
    BY BytecodeNumbers
  <2> QED
    BY <1>1, <2>1 DEF IsBytecode, Named, ConstantsFit
<1>4. \A code, locals : OperandsValid(c, code, locals) => OperandsValid(b, code, locals)
  BY DEF OperandsValid, IsFunctionConstant, FunctionConstant
<1>5. /\ \A k \in 1 .. Len(Emitted(c)) : InstructionFits(c, 1, Emitted(c)[k])
      /\ \A k \in 1 .. Len(c.scopes[1].free_symbols) : FALSE
  BY <1>1 DEF Named, ScopeFits
<1>6. OperandsValid(c, Emitted(c), 0)
  <2> DEFINE zero == 0
             code == Emitted(c)
  <2>1. LocalsAt(c, 1) = zero
    BY DEF LocalsAt
  <2> HIDE DEF zero
  <2>2. \A k \in 1 .. Len(code) : OperandFits(c, code[k], zero)
    BY <1>5, <2>1 DEF InstructionFits
  <2> HIDE DEF code
  <2>3. OperandsValid(c, code, zero)
    BY <2>2, OperandsFit
  <2> QED
    BY <2>3 DEF zero, code
<1>7. /\ FreeValuesNeeded(Emitted(c), 0)
      /\ \A k \in 1 .. Len(Emitted(c)) : Emitted(c)[k].op # "CURRENT_CLOSURE"
  <2>1. Len(c.scopes[1].free_symbols) = 0
    <3>1. Len(c.scopes[1].free_symbols) \in Nat
      BY <1>1, ScopeNumbers
    <3> QED
      BY <1>5, <3>1
  <2> QED
    BY <1>5, <2>1 DEF InstructionFits, FreeValuesNeeded
<1>8. VerifiedMain(b)
  BY <1>2, <1>4, <1>6, <1>7 DEF VerifiedMain
<1>9. \A k \in 1 .. Len(b.functions) : VerifiedFunction(b, b.functions[k])
  BY <1>2, <1>4 DEF VerifiedFunction, Balanced, Named, FunctionsFit
<1> QED
  BY <1>3, <1>8, <1>9 DEF Verified

(* It is so at the start. *)
LEMMA InitVerified == CompiledInit => RunsVerified
BY DEF CompiledInit, VmInit, RunsVerified

(* It stays so in every step. *)
LEMMA NextVerified ==
  CompilerInv /\ AlignedInv /\ NamedInv /\ ClosuresKept /\ RunsVerified
    /\ [CompiledNext]_compiledVars => RunsVerified'
<1> SUFFICES ASSUME CompilerInv, AlignedInv, NamedInv, ClosuresKept, RunsVerified,
                    [CompiledNext]_compiledVars
             PROVE  RunsVerified'
  OBVIOUS
<1>1. CASE UNCHANGED <<running, functions, constants, closures>>
  BY <1>1 DEF RunsVerified, Running
<1>2. CASE ReadLine \/ CompileStep \/ CompileEndFunction
  <2>1. UNCHANGED <<running, functions, constants, closures>>
    BY <1>2 DEF ReadLine, Enters, CompileStep, CompileEndFunction, Becomes, vmVars
  <2> QED
    BY <1>1, <2>1
<1>3. CASE RunCompiled
  <2>1. /\ compiler \in Compilers /\ Aligned(compiler) /\ Named(compiler)
        /\ Compiled(compiler)
    BY <1>3 DEF RunCompiled, CompilerInv, AlignedInv, NamedInv
  <2>2. /\ functions' = compiler.functions /\ constants' = compiler.constants
        /\ \E x : x.function.instructions = compiler.scopes[1].instructions
                    /\ closures' = [closures EXCEPT ![0] = x]
    BY <1>3 DEF RunCompiled, VmRun, BytecodeOf, NoFunction
  <2>3. PICK x : x.function.instructions = compiler.scopes[1].instructions
                   /\ closures' = [closures EXCEPT ![0] = x]
    BY <2>2
  <2>4. 0 \in DOMAIN closures
    BY VmAssumption DEF ClosuresKept
  <2>5. closures'[0].function.instructions = Emitted(compiler)
    BY <2>1, <2>3, <2>4, CurrentScope DEF Compiled, Emitted
  <2> DEFINE b == Running'
  <2>6. /\ b.instructions = Emitted(compiler) /\ b.constants = compiler.constants
        /\ b.functions = compiler.functions
    BY <2>2, <2>5 DEF Running
  <2> HIDE DEF b
  <2>7. IsBytecode(b) /\ Verified(b)
    BY <2>1, <2>6, HandedVerified
  <2> QED
    BY <2>7 DEF RunsVerified, b
<1>4. CASE Execute
  <2>1. /\ running
        /\ UNCHANGED <<constants, functions>>
        /\ closures'[0] = closures[0]
    BY <1>4, VmStepKeepsBytecode, MainStays DEF Execute, ClosuresKept
  <2>2. Running' = Running
    BY <2>1 DEF Running
  <2> QED
    BY <2>1, <2>2 DEF RunsVerified
<1>5. CASE UNCHANGED compiledVars
  BY <1>1, <1>5 DEF compiledVars, vmVars
<1> QED
  BY <1>2, <1>3, <1>4, <1>5 DEF CompiledNext, GoOn

(* The compiler meets the machine's contract (compiler_define_symbol,
   compiler_resolve_symbol, compiler_emit_store_symbol, compiler.c): as long as no
   let binds a name its function has captured, which is where compiler.c stores a
   captured value's index into a local, what is handed to vm_run is well-formed and
   verified, after any session, for any syntax trees and any capacities. *)
THEOREM CompilesVerifiedUnlessBound ==
  CompiledSpec /\ []CapturesNotBound => []CompilesVerified
<1>1. RunsVerified => CompilesVerified
  BY DEF RunsVerified, CompilesVerified
<1> QED
  BY <1>1, InitCompiler, NextCompiler, InitAligned, NextAligned, InitBalanced,
     NextBalanced, InitNamed, NextNamed, InitVerified, NextVerified, PTL DEF CompiledSpec
===============================================================================
