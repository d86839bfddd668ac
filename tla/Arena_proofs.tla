------------------------------ MODULE Arena_proofs ------------------------------
(***************************************************************************)
(* Arena, proved for every capacity, alignment, word size and request:     *)
(* the blocks of the clients are apart, their headers intact, their        *)
(* pointers aligned, and the arena implements Storage.                     *)
(***************************************************************************)
EXTENDS Arena, TLAPS

-----------------------------------------------------------------------------
(* Arithmetic *)

(* A number is its quotient times the divisor and its remainder. *)
LEMMA Division ==
  ASSUME NEW v \in Nat, NEW a \in Nat \ {0}
  PROVE  /\ v \div a \in Nat
         /\ v % a \in 0 .. a - 1
         /\ v = (v \div a) * a + (v % a)
BY SMT

(* Multiples of a number have no remainder. *)
LEMMA Multiple ==
  ASSUME NEW q \in Nat, NEW a \in Nat \ {0}
  PROVE  q * a \in Nat /\ (q * a) % a = 0
BY SMT

(* The sum of two multiples is a multiple. *)
LEMMA SumAligned ==
  ASSUME NEW v \in Nat, NEW w \in Nat, NEW a \in Nat \ {0},
         v % a = 0, w % a = 0
  PROVE  (v + w) % a = 0
<1> DEFINE q == v \div a
           r == w \div a
<1>1. q \in Nat /\ r \in Nat /\ v = q * a /\ w = r * a
  BY Division
<1>2. ASSUME NEW x \in Nat, NEW y \in Nat
      PROVE  x * a + y * a = (x + y) * a /\ x + y \in Nat
  BY SMT
<1>3. v + w = (q + r) * a /\ q + r \in Nat
  BY <1>1, <1>2
<1> QED
  BY <1>3, Multiple

(* What is added to a number that is not a multiple reaches the next one. *)
LEMMA NextMultiple ==
  ASSUME NEW v \in Nat, NEW a \in Nat \ {0}
  PROVE  (v + a - (v % a)) % a = 0
<1> DEFINE q == v \div a
<1>1. q \in Nat /\ v = q * a + (v % a) /\ v % a \in Nat
  BY Division
<1>2. q * a \in Nat /\ q + 1 \in Nat
  BY <1>1, Multiple
<1>3. v + a - (v % a) = q * a + a
  BY <1>1, <1>2
<1>4. ASSUME NEW x \in Nat PROVE x * a + a = (x + 1) * a
  BY SMT
<1>5. v + a - (v % a) = (q + 1) * a
  BY <1>1, <1>3, <1>4
<1> HIDE DEF q
<1> QED
  BY <1>2, <1>5, Multiple

(* align_forward returns a multiple that is not below its argument. *)
LEMMA Aligned ==
  ASSUME NEW v \in Nat
  PROVE  /\ AlignForward(v) \in Nat
         /\ AlignForward(v) >= v
         /\ AlignForward(v) % Alignment = 0
<1>1. Alignment \in Nat \ {0}
  BY ArenaAssumption
<1>2. v % Alignment \in 0 .. Alignment - 1
  BY <1>1, Division
<1>3. AlignForward(v) \in Nat /\ AlignForward(v) >= v
  BY <1>1, <1>2 DEF AlignForward
<1>4. AlignForward(v) % Alignment = 0
  BY <1>1, NextMultiple DEF AlignForward
<1> QED
  BY <1>3, <1>4

(* A header takes some room, and keeps what is behind it aligned. *)
LEMMA HeaderRoom ==
  HeaderSize \in Nat /\ HeaderSize > 0 /\ HeaderSize % Alignment = 0
<1> DEFINE k == (WordSize + Alignment - 1) \div Alignment
<1>1. Alignment \in Nat \ {0}
  BY ArenaAssumption
<1>2. k \in Nat \ {0}
  BY ArenaAssumption, SMT
<1>3. ASSUME NEW x \in Nat \ {0}, NEW a \in Nat \ {0} PROVE x * a > 0
  BY SMT
<1>4. HeaderSize = k * Alignment
  BY DEF HeaderSize
<1> HIDE DEF k
<1> QED
  BY <1>1, <1>2, <1>3, <1>4, Multiple

(* A header takes room. *)
LEMMA HeaderPositive == HeaderSize \in Nat /\ HeaderSize > 0
BY HeaderRoom

-----------------------------------------------------------------------------
(* The inductive invariant, one lemma for each kind of step *)

(* Where a new block would start. *)
LEMMA Offsets ==
  ASSUME ArenaTypeOK
  PROVE  /\ HeaderOffset \in Nat /\ HeaderOffset >= used
         /\ DataOffset \in Nat /\ DataOffset = HeaderOffset + HeaderSize
         /\ DataOffset % Alignment = 0
<1>1. used \in Nat /\ Alignment \in Nat \ {0}
  BY ArenaAssumption DEF ArenaTypeOK
<1>2. HeaderOffset \in Nat /\ HeaderOffset >= used /\ HeaderOffset % Alignment = 0
  BY <1>1, Aligned DEF HeaderOffset
<1>3. (HeaderOffset + HeaderSize) % Alignment = 0
  BY <1>1, <1>2, HeaderRoom, SumAligned
<1> QED
  BY <1>1, <1>2, <1>3, HeaderRoom DEF DataOffset

(* A client is given a block, a new one or its own changed, that is apart from
   those of the others, with a header that says its size, while the headers of
   the others are not touched. *)
LEMMA PlacedKeepsInv ==
  ASSUME ArenaInv, NEW c \in Clients, NEW p \in Nat \ {0}, NEW n \in Nat,
         Point(c, p, n),
         UNCHANGED exhausted,
         memory' \in [0 .. Capacity - 1 -> Nat],
         memory'[p - HeaderSize] = n,
         used' \in 0 .. Capacity,
         p >= HeaderSize,
         p + n <= used',
         \A d \in Clients \ {c} : Holds(d) =>
           /\ memory'[ptr[d] - HeaderSize] = memory[ptr[d] - HeaderSize]
           /\ ptr[d] + size[d] <= used'
           /\ \/ ptr[d] + size[d] <= p - HeaderSize
              \/ p + n <= ptr[d] - HeaderSize
  PROVE  ArenaInv'
<1>1. /\ ptr' \in [Clients -> Nat] /\ size' \in [Clients -> Nat]
      /\ ptr'[c] = p /\ size'[c] = n
      /\ \A d \in Clients \ {c} : ptr'[d] = ptr[d] /\ size'[d] = size[d]
  BY DEF ArenaInv, ArenaTypeOK, Point
<1>2. ArenaTypeOK'
  BY <1>1 DEF ArenaInv, ArenaTypeOK, NULL
<1>3. BlocksApart'
  <2> SUFFICES ASSUME NEW d \in Clients, Holds(d)'
               PROVE  /\ ptr'[d] >= HeaderSize
                      /\ ptr'[d] + size'[d] <= used'
                      /\ \A e \in Clients \ {d} : Holds(e)' =>
                           \/ ptr'[d] + size'[d] <= ptr'[e] - HeaderSize
                           \/ ptr'[e] + size'[e] <= ptr'[d] - HeaderSize
    BY DEF BlocksApart
  <2>1. \A e \in Clients \ {c} : Holds(e)' => Holds(e)
    BY <1>1 DEF Holds
  <2>2. CASE d = c
    BY <1>1, <2>1, <2>2
  <2>3. CASE d # c
    BY <1>1, <2>1, <2>3 DEF ArenaInv, BlocksApart
  <2> QED
    BY <2>2, <2>3
<1>4. HeadersIntact'
  <2> SUFFICES ASSUME NEW d \in Clients, Holds(d)'
               PROVE  memory'[ptr'[d] - HeaderSize] = size'[d]
    BY DEF HeadersIntact, OldSize
  <2>1. CASE d = c
    BY <1>1, <2>1
  <2>2. CASE d # c
    BY <1>1, <2>2 DEF ArenaInv, HeadersIntact, OldSize, Holds
  <2> QED
    BY <2>1, <2>2
<1> QED
  BY <1>2, <1>3, <1>4 DEF ArenaInv

(* The types of what the invariant says of a block. *)
LEMMA BlockFacts ==
  ASSUME ArenaInv, NEW c \in Clients, Holds(c)
  PROVE  /\ ptr[c] \in Nat \ {0} /\ size[c] \in Nat
         /\ OldSize(c) = size[c]
         /\ used \in Nat /\ Capacity \in Nat /\ used <= Capacity
         /\ ptr[c] >= HeaderSize
         /\ ptr[c] + size[c] <= used
         /\ \A d \in Clients \ {c} : Holds(d) =>
              \/ ptr[c] + size[c] <= ptr[d] - HeaderSize
              \/ ptr[d] + size[d] <= ptr[c] - HeaderSize
BY ArenaAssumption
DEF ArenaInv, ArenaTypeOK, BlocksApart, HeadersIntact, Holds, NULL

(* A new block lies above all others. *)
LEMMA AllocKeepsInv ==
  ASSUME ArenaInv, NEW c \in Clients, NEW n \in Sizes, Alloc(c, n),
         UNCHANGED exhausted
  PROVE  ArenaInv'
<1>1. /\ n \in Nat /\ Capacity \in Nat /\ HeaderSize \in Nat /\ HeaderSize > 0
      /\ HeaderOffset \in Nat /\ HeaderOffset >= used
      /\ DataOffset \in Nat /\ DataOffset = HeaderOffset + HeaderSize
  BY ArenaAssumption, HeaderPositive, Offsets DEF ArenaInv
<1>2. HeaderOffset \in 0 .. Capacity - 1 /\ DataOffset + n <= Capacity
  BY <1>1 DEF Alloc, Fits
<1>3. /\ memory' \in [0 .. Capacity - 1 -> Nat]
      /\ memory'[HeaderOffset] = n
      /\ \A k \in 0 .. Capacity - 1 : k # HeaderOffset => memory'[k] = memory[k]
  BY <1>1, <1>2 DEF Alloc, ArenaInv, ArenaTypeOK
<1>4. used \in Nat
  BY DEF ArenaInv, ArenaTypeOK
<1>5. ASSUME NEW d \in Clients \ {c}, Holds(d)
      PROVE  /\ memory'[ptr[d] - HeaderSize] = memory[ptr[d] - HeaderSize]
             /\ ptr[d] + size[d] <= DataOffset + n
             /\ ptr[d] + size[d] <= DataOffset - HeaderSize
  <2>1. /\ ptr[d] \in Nat /\ size[d] \in Nat /\ ptr[d] >= HeaderSize
        /\ ptr[d] + size[d] <= used
    BY <1>5, BlockFacts
  <2>2. /\ ptr[d] - HeaderSize \in 0 .. Capacity - 1
        /\ ptr[d] - HeaderSize # HeaderOffset
        /\ ptr[d] + size[d] <= DataOffset - HeaderSize
        /\ ptr[d] + size[d] <= DataOffset + n
    BY <1>1, <1>2, <1>4, <2>1
  <2> QED
    BY <1>3, <2>2
<1>6. Point(c, DataOffset, n) /\ used' = DataOffset + n
  BY DEF Alloc
<1>7. /\ DataOffset \in Nat \ {0} /\ DataOffset >= HeaderSize
      /\ DataOffset - HeaderSize = HeaderOffset
  BY <1>1
<1>8. memory'[DataOffset - HeaderSize] = n
  BY <1>3, <1>7
<1>9. used' \in 0 .. Capacity /\ DataOffset + n <= used'
  BY <1>1, <1>2, <1>6
<1>10. \A d \in Clients \ {c} : Holds(d) =>
        /\ memory'[ptr[d] - HeaderSize] = memory[ptr[d] - HeaderSize]
        /\ ptr[d] + size[d] <= used'
        /\ \/ ptr[d] + size[d] <= DataOffset - HeaderSize
           \/ DataOffset + n <= ptr[d] - HeaderSize
  BY <1>5, <1>6
<1> QED
  BY <1>1, <1>3, <1>6, <1>7, <1>8, <1>9, <1>10, PlacedKeepsInv

(* A client that has no block any more leaves the others as they are. *)
LEMMA LeaveKeepsInv ==
  ASSUME ArenaInv, NEW c \in Clients, Point(c, NULL, 0),
         UNCHANGED <<memory, used, exhausted>>
  PROVE  ArenaInv'
BY DEF ArenaInv, ArenaTypeOK, BlocksApart, HeadersIntact, OldSize, Point, Holds, NULL

(* The block that ends where the arena is used up to has the others below. *)
LEMMA LastIsAbove ==
  ASSUME ArenaInv, NEW c \in Clients, Holds(c), OldEnd(c) = used,
         NEW d \in Clients \ {c}, Holds(d)
  PROVE  ptr[d] + size[d] <= ptr[c] - HeaderSize
<1>1. ptr[c] + size[c] = used
  BY BlockFacts DEF OldEnd
<1> QED
  BY <1>1, BlockFacts, HeaderPositive

(* What is written into its own header changes no other client's. *)
LEMMA HeaderWritten ==
  ASSUME ArenaInv, NEW c \in Clients, Holds(c), NEW n \in Nat, SetHeader(c, n)
  PROVE  /\ memory' \in [0 .. Capacity - 1 -> Nat]
         /\ memory'[ptr[c] - HeaderSize] = n
         /\ \A d \in Clients \ {c} : Holds(d) =>
              memory'[ptr[d] - HeaderSize] = memory[ptr[d] - HeaderSize]
<1>1. /\ memory \in [0 .. Capacity - 1 -> Nat]
      /\ ptr[c] - HeaderSize \in 0 .. Capacity - 1
  BY BlockFacts, HeaderPositive DEF ArenaInv, ArenaTypeOK
<1>2. ASSUME NEW d \in Clients \ {c}, Holds(d)
      PROVE  ptr[d] - HeaderSize # ptr[c] - HeaderSize
  BY <1>2, BlockFacts, HeaderPositive
<1>3. ASSUME NEW d \in Clients \ {c}, Holds(d)
      PROVE  ptr[d] - HeaderSize \in 0 .. Capacity - 1
  BY <1>3, BlockFacts, HeaderPositive
<1> QED
  BY <1>1, <1>2, <1>3 DEF SetHeader

(* So it may grow or shrink where it is. *)
LEMMA ReallocLastKeepsInv ==
  ASSUME ArenaInv, NEW c \in Clients, NEW n \in Sizes, ReallocLast(c, n),
         UNCHANGED exhausted
  PROVE  ArenaInv'
<1>1. /\ n \in Nat /\ Holds(c) /\ OldEnd(c) = used /\ SetHeader(c, n)
      /\ Point(c, ptr[c], n) /\ used' = ptr[c] + n /\ n <= Capacity - ptr[c]
  BY ArenaAssumption DEF ReallocLast
<1>2. /\ memory' \in [0 .. Capacity - 1 -> Nat]
      /\ memory'[ptr[c] - HeaderSize] = n
  BY <1>1, HeaderWritten
<1>3. ptr[c] \in Nat \ {0} /\ ptr[c] >= HeaderSize /\ used' \in 0 .. Capacity
  BY <1>1, BlockFacts
<1>4. ASSUME NEW d \in Clients \ {c}, Holds(d)
      PROVE  /\ memory'[ptr[d] - HeaderSize] = memory[ptr[d] - HeaderSize]
             /\ ptr[d] + size[d] <= ptr[c] + n
             /\ ptr[d] + size[d] <= ptr[c] - HeaderSize
  <2>1. memory'[ptr[d] - HeaderSize] = memory[ptr[d] - HeaderSize]
    BY <1>1, <1>4, HeaderWritten
  <2>2. ptr[d] + size[d] <= ptr[c] - HeaderSize
    BY <1>1, <1>4, LastIsAbove
  <2>3. ptr[d] \in Nat /\ size[d] \in Nat
    BY <1>4, BlockFacts
  <2> QED
    BY <1>1, <1>3, <2>1, <2>2, <2>3, HeaderPositive
<1> QED
  BY <1>1, <1>2, <1>3, <1>4, PlacedKeepsInv

(* A block between others only ever shrinks. *)
LEMMA ReallocShrinkKeepsInv ==
  ASSUME ArenaInv, NEW c \in Clients, NEW n \in Sizes, ReallocShrink(c, n),
         UNCHANGED exhausted
  PROVE  ArenaInv'
<1>1. /\ n \in Nat /\ Holds(c) /\ n <= OldSize(c) /\ SetHeader(c, n)
      /\ Point(c, ptr[c], n) /\ used' = used
  BY ArenaAssumption DEF ReallocShrink
<1>2. /\ memory' \in [0 .. Capacity - 1 -> Nat]
      /\ memory'[ptr[c] - HeaderSize] = n
  BY <1>1, HeaderWritten
<1>3. /\ ptr[c] \in Nat \ {0} /\ ptr[c] >= HeaderSize /\ used' \in 0 .. Capacity
      /\ ptr[c] + n <= used'
  BY <1>1, BlockFacts
<1>4. ASSUME NEW d \in Clients \ {c}, Holds(d)
      PROVE  /\ memory'[ptr[d] - HeaderSize] = memory[ptr[d] - HeaderSize]
             /\ ptr[d] + size[d] <= used
             /\ \/ ptr[d] + size[d] <= ptr[c] - HeaderSize
                \/ ptr[c] + n <= ptr[d] - HeaderSize
  <2>1. memory'[ptr[d] - HeaderSize] = memory[ptr[d] - HeaderSize]
    BY <1>1, <1>4, HeaderWritten
  <2>2. /\ ptr[d] \in Nat /\ size[d] \in Nat /\ ptr[d] + size[d] <= used
        /\ ptr[c] \in Nat /\ size[c] \in Nat /\ n <= size[c]
        /\ \/ ptr[c] + size[c] <= ptr[d] - HeaderSize
           \/ ptr[d] + size[d] <= ptr[c] - HeaderSize
    BY <1>1, <1>4, BlockFacts
  <2> QED
    BY <1>1, <2>1, <2>2, HeaderPositive
<1> QED
  BY <1>1, <1>2, <1>3, <1>4, PlacedKeepsInv

(* What arena_alloc and the memcpy write is the new block alone. *)
LEMMA MovedFacts ==
  ASSUME ArenaInv, NEW c \in Clients, Holds(c), NEW n \in Nat, Fits(n),
         n > OldSize(c)
  PROVE  /\ HeaderOffset \in 0 .. Capacity - 1 /\ DataOffset + n <= Capacity
         /\ Moved(c, n) \in [0 .. Capacity - 1 -> Nat]
         /\ Moved(c, n)[HeaderOffset] = n
         /\ \A k \in 0 .. used - 1 : Moved(c, n)[k] = memory[k]
         /\ \A k \in 0 .. size[c] - 1 :
              Moved(c, n)[DataOffset + k] = memory[ptr[c] + k]
<1>1. /\ Capacity \in Nat /\ HeaderSize \in Nat /\ HeaderSize > 0
      /\ HeaderOffset \in Nat /\ HeaderOffset >= used
      /\ DataOffset \in Nat /\ DataOffset = HeaderOffset + HeaderSize
  BY ArenaAssumption, HeaderPositive, Offsets DEF ArenaInv
<1>2. HeaderOffset \in 0 .. Capacity - 1 /\ DataOffset + n <= Capacity
  BY <1>1 DEF Fits
<1>3. /\ ptr[c] \in Nat /\ size[c] \in Nat /\ OldSize(c) = size[c]
      /\ used \in Nat /\ used <= Capacity /\ ptr[c] + size[c] <= used
  BY BlockFacts
<1>4. memory \in [0 .. Capacity - 1 -> Nat]
  BY DEF ArenaInv, ArenaTypeOK
<1>5. ASSUME NEW k \in DataOffset .. DataOffset + size[c] - 1
      PROVE  memory[ptr[c] + (k - DataOffset)] \in Nat
  <2>1. ptr[c] + (k - DataOffset) \in 0 .. Capacity - 1
    BY <1>1, <1>3, <1>5
  <2> QED
    BY <1>4, <2>1
<1>6. Moved(c, n) \in [0 .. Capacity - 1 -> Nat]
  BY <1>3, <1>4, <1>5 DEF Moved
<1>7. Moved(c, n)[HeaderOffset] = n
  BY <1>2 DEF Moved
<1>8. \A k \in 0 .. used - 1 : Moved(c, n)[k] = memory[k]
  BY <1>1, <1>3 DEF Moved
<1>9. ASSUME NEW k \in 0 .. size[c] - 1
      PROVE  Moved(c, n)[DataOffset + k] = memory[ptr[c] + k]
  <2>1. /\ DataOffset + k \in 0 .. Capacity - 1
        /\ DataOffset + k # HeaderOffset
        /\ DataOffset + k \in DataOffset .. DataOffset + size[c] - 1
        /\ ptr[c] + ((DataOffset + k) - DataOffset) = ptr[c] + k
    BY <1>1, <1>2, <1>3
  <2> QED
    BY <1>3, <2>1 DEF Moved
<1> QED
  BY <1>2, <1>6, <1>7, <1>8, <1>9

(* A block that moves is a new block, and the old one nobody's. *)
LEMMA ReallocMoveKeepsInv ==
  ASSUME ArenaInv, NEW c \in Clients, NEW n \in Sizes, ReallocMove(c, n),
         UNCHANGED exhausted
  PROVE  ArenaInv'
<1>1. /\ n \in Nat /\ Holds(c) /\ n > OldSize(c) /\ Fits(n)
      /\ memory' = Moved(c, n) /\ used' = DataOffset + n
      /\ Point(c, DataOffset, n)
  BY ArenaAssumption DEF ReallocMove
<1>2. /\ Capacity \in Nat /\ HeaderSize \in Nat /\ HeaderSize > 0
      /\ HeaderOffset \in Nat /\ HeaderOffset >= used
      /\ DataOffset \in Nat /\ DataOffset = HeaderOffset + HeaderSize
  BY ArenaAssumption, HeaderPositive, Offsets DEF ArenaInv
<1>3. /\ HeaderOffset \in 0 .. Capacity - 1 /\ DataOffset + n <= Capacity
      /\ memory' \in [0 .. Capacity - 1 -> Nat]
      /\ memory'[HeaderOffset] = n
      /\ \A k \in 0 .. used - 1 : memory'[k] = memory[k]
  BY <1>1, MovedFacts
<1>4. ASSUME NEW d \in Clients \ {c}, Holds(d)
      PROVE  /\ memory'[ptr[d] - HeaderSize] = memory[ptr[d] - HeaderSize]
             /\ ptr[d] + size[d] <= DataOffset + n
             /\ ptr[d] + size[d] <= DataOffset - HeaderSize
  <2>1. /\ ptr[d] \in Nat /\ size[d] \in Nat /\ ptr[d] >= HeaderSize
        /\ used \in Nat /\ ptr[d] + size[d] <= used
    BY <1>4, BlockFacts
  <2>2. /\ ptr[d] - HeaderSize \in 0 .. used - 1
        /\ ptr[d] + size[d] <= DataOffset - HeaderSize
        /\ ptr[d] + size[d] <= DataOffset + n
    BY <1>1, <1>2, <2>1
  <2> QED
    BY <1>3, <2>2
<1>5. /\ DataOffset \in Nat \ {0} /\ DataOffset >= HeaderSize
      /\ DataOffset - HeaderSize = HeaderOffset
  BY <1>2
<1>6. memory'[DataOffset - HeaderSize] = n
  BY <1>3, <1>5
<1>7. used' \in 0 .. Capacity /\ DataOffset + n <= used'
  BY <1>1, <1>2, <1>3
<1>8. \A d \in Clients \ {c} : Holds(d) =>
        /\ memory'[ptr[d] - HeaderSize] = memory[ptr[d] - HeaderSize]
        /\ ptr[d] + size[d] <= used'
        /\ \/ ptr[d] + size[d] <= DataOffset - HeaderSize
           \/ DataOffset + n <= ptr[d] - HeaderSize
  BY <1>1, <1>4
<1> QED
  BY <1>1, <1>3, <1>5, <1>6, <1>7, <1>8, PlacedKeepsInv

(* A client that writes into its block meets no header and no other block. *)
LEMMA WriteFacts ==
  ASSUME ArenaInv, NEW c \in Clients, NEW i \in 0 .. size[c] - 1,
         NEW byte \in Bytes, Write(c, i, byte)
  PROVE  /\ memory' \in [0 .. Capacity - 1 -> Nat]
         /\ \A k \in 0 .. Capacity - 1 : k # ptr[c] + i => memory'[k] = memory[k]
         /\ \A d \in Clients : Holds(d) => ptr[d] - HeaderSize # ptr[c] + i
         /\ \A d \in Clients \ {c} : Holds(d) =>
              \A k \in 0 .. size[d] - 1 : ptr[d] + k # ptr[c] + i
<1>1. Holds(c) /\ memory' = [memory EXCEPT ![ptr[c] + i] = byte] /\ byte \in Nat
  BY ArenaAssumption DEF Write
<1>2. /\ memory \in [0 .. Capacity - 1 -> Nat]
      /\ ptr[c] \in Nat /\ size[c] \in Nat /\ ptr[c] >= HeaderSize
  BY <1>1, BlockFacts DEF ArenaInv, ArenaTypeOK
<1>3. ASSUME NEW d \in Clients, Holds(d) PROVE ptr[d] - HeaderSize # ptr[c] + i
  <2>1. /\ ptr[d] \in Nat /\ size[d] \in Nat
        /\ \/ d = c
           \/ ptr[c] + size[c] <= ptr[d] - HeaderSize
           \/ ptr[d] + size[d] <= ptr[c] - HeaderSize
    BY <1>1, <1>3, BlockFacts
  <2> QED
    BY <1>2, <2>1, HeaderPositive
<1>4. ASSUME NEW d \in Clients \ {c}, Holds(d), NEW k \in 0 .. size[d] - 1
      PROVE  ptr[d] + k # ptr[c] + i
  <2>1. /\ ptr[d] \in Nat /\ size[d] \in Nat
        /\ \/ ptr[c] + size[c] <= ptr[d] - HeaderSize
           \/ ptr[d] + size[d] <= ptr[c] - HeaderSize
    BY <1>1, <1>4, BlockFacts
  <2>2. HeaderSize \in Nat /\ k \in 0 .. size[d] - 1 /\ i \in 0 .. size[c] - 1
    BY HeaderPositive
  <2>3. CASE ptr[c] + size[c] <= ptr[d] - HeaderSize
    BY <1>2, <2>1, <2>2, <2>3
  <2>4. CASE ptr[d] + size[d] <= ptr[c] - HeaderSize
    BY <1>2, <2>1, <2>2, <2>4
  <2> QED
    BY <2>1, <2>3, <2>4
<1> QED
  BY <1>1, <1>2, <1>3, <1>4

(* So it keeps the invariant. *)
LEMMA WriteKeepsInv ==
  ASSUME ArenaInv, NEW c \in Clients, NEW i \in 0 .. size[c] - 1,
         NEW byte \in Bytes, Write(c, i, byte), UNCHANGED exhausted
  PROVE  ArenaInv'
<1>1. UNCHANGED <<used, ptr, size>>
  BY DEF Write
<1>2. ArenaTypeOK'
  BY <1>1, WriteFacts DEF ArenaInv, ArenaTypeOK
<1>3. BlocksApart'
  BY <1>1 DEF ArenaInv, BlocksApart, Holds
<1>4. ASSUME NEW d \in Clients, Holds(d)
      PROVE  memory'[ptr[d] - HeaderSize] = memory[ptr[d] - HeaderSize]
  <2>1. ptr[d] - HeaderSize \in 0 .. Capacity - 1
    BY <1>4, BlockFacts, HeaderPositive
  <2> QED
    BY <1>4, <2>1, WriteFacts
<1>5. HeadersIntact'
  BY <1>1, <1>4 DEF ArenaInv, HeadersIntact, OldSize, Holds
<1> QED
  BY <1>2, <1>3, <1>5 DEF ArenaInv

(* The invariant holds of the empty arena. *)
LEMMA InitInv == ArenaInit => ArenaInv
<1> SUFFICES ASSUME ArenaInit PROVE ArenaInv
  OBVIOUS
<1>1. ArenaTypeOK
  <2>1. memory \in [0 .. Capacity - 1 -> Nat]
    BY DEF ArenaInit
  <2>2. used \in 0 .. Capacity
    BY ArenaAssumption DEF ArenaInit
  <2>3. /\ ptr \in [Clients -> Nat]
        /\ size \in [Clients -> Nat]
        /\ \A c \in Clients : size[c] = 0
        /\ exhausted \in BOOLEAN
    BY DEF ArenaInit, NULL
  <2> QED
    BY <2>1, <2>2, <2>3 DEF ArenaTypeOK
<1>2. \A c \in Clients : ~Holds(c)
  BY DEF ArenaInit, Holds
<1> QED
  BY <1>1, <1>2 DEF ArenaInv, BlocksApart, HeadersIntact

(* Every step keeps it. *)
LEMMA NextInv == ArenaInv /\ [ArenaNext]_arenaVars => ArenaInv'
<1> SUFFICES ASSUME ArenaInv, [ArenaNext]_arenaVars PROVE ArenaInv'
  OBVIOUS
<1>1. ASSUME NEW c \in Clients, ClientStep(c), UNCHANGED exhausted
      PROVE  ArenaInv'
  <2>1. ASSUME NEW n \in Sizes, Alloc(c, n) PROVE ArenaInv'
    BY <1>1, <2>1, AllocKeepsInv
  <2>2. ASSUME NEW n \in Sizes, ReallocLast(c, n) PROVE ArenaInv'
    BY <1>1, <2>2, ReallocLastKeepsInv
  <2>3. ASSUME NEW n \in Sizes, ReallocShrink(c, n) PROVE ArenaInv'
    BY <1>1, <2>3, ReallocShrinkKeepsInv
  <2>4. ASSUME NEW n \in Sizes, ReallocMove(c, n) PROVE ArenaInv'
    BY <1>1, <2>4, ReallocMoveKeepsInv
  <2>5. ASSUME NEW i \in 0 .. size[c] - 1, NEW byte \in Bytes, Write(c, i, byte)
        PROVE  ArenaInv'
    BY <1>1, <2>5, WriteKeepsInv
  <2>6. CASE ReallocNone(c)
    BY <1>1, <2>6, LeaveKeepsInv DEF ReallocNone
  <2>7. CASE Forget(c)
    BY <1>1, <2>7, LeaveKeepsInv DEF Forget
  <2> QED
    BY <1>1, <2>1, <2>2, <2>3, <2>4, <2>5, <2>6, <2>7 DEF ClientStep
<1>2. ASSUME NEW c \in Clients, NEW n \in Sizes, Exhaust(c, n)
      PROVE  ArenaInv'
  BY <1>2
  DEF Exhaust, ArenaInv, ArenaTypeOK, BlocksApart, HeadersIntact, OldSize, Holds
<1>3. CASE UNCHANGED arenaVars
  BY <1>3
  DEF arenaVars, ArenaInv, ArenaTypeOK, BlocksApart, HeadersIntact, OldSize, Holds
<1> QED
  BY <1>1, <1>2, <1>3 DEF ArenaNext

(* The inductive invariant holds throughout. *)
LEMMA Invariance == ArenaSpec => []ArenaInv
<1>1. ArenaInit => ArenaInv
  BY InitInv
<1>2. ArenaInv /\ [ArenaNext]_arenaVars => ArenaInv'
  BY NextInv
<1> QED
  BY <1>1, <1>2, PTL DEF ArenaSpec

-----------------------------------------------------------------------------
(* What arena_alloc and arena_realloc leave in the arena's variables stays in
   their types: nothing is written past its end. *)
THEOREM ArenaTypeCorrect == ArenaSpec => []ArenaTypeOK
<1>1. ArenaInv => ArenaTypeOK
  BY DEF ArenaInv
<1> QED
  BY <1>1, Invariance, PTL

(* No two blocks ever overlap, whatever was asked for in whatever order. *)
THEOREM BlocksAlwaysApart == ArenaSpec => []BlocksApart
<1>1. ArenaInv => BlocksApart
  BY DEF ArenaInv
<1> QED
  BY <1>1, Invariance, PTL

(* arena_realloc always finds the right size in a header. *)
THEOREM HeadersAlwaysIntact == ArenaSpec => []HeadersIntact
<1>1. ArenaInv => HeadersIntact
  BY DEF ArenaInv
<1> QED
  BY <1>1, Invariance, PTL

-----------------------------------------------------------------------------
(* Pointers *)

(* NULL and what arena_alloc returns are aligned, and nothing else becomes a
   pointer. *)
LEMMA NextAligned ==
  ArenaInv /\ PointersAligned /\ [ArenaNext]_arenaVars => PointersAligned'
<1> SUFFICES ASSUME ArenaInv, PointersAligned, [ArenaNext]_arenaVars
             PROVE  PointersAligned'
  OBVIOUS
<1>1. ptr \in [Clients -> Nat]
  BY DEF ArenaInv, ArenaTypeOK
<1>2. NULL % Alignment = 0 /\ DataOffset % Alignment = 0
  <2>1. (0 * Alignment) % Alignment = 0 /\ 0 * Alignment = 0
    BY ArenaAssumption, Multiple
  <2> QED
    BY <2>1, Offsets DEF ArenaInv, NULL
<1>3. ASSUME NEW c \in Clients, NEW p, NEW n, Point(c, p, n), p % Alignment = 0
      PROVE  PointersAligned'
  BY <1>1, <1>3 DEF PointersAligned, Point
<1>4. ASSUME NEW c \in Clients, ClientStep(c)
      PROVE  PointersAligned'
  <2>1. ASSUME NEW n \in Sizes, Alloc(c, n) \/ ReallocMove(c, n)
        PROVE  PointersAligned'
    BY <1>2, <1>3, <2>1 DEF Alloc, ReallocMove
  <2>2. ASSUME NEW n \in Sizes, ReallocLast(c, n) \/ ReallocShrink(c, n)
        PROVE  PointersAligned'
    BY <1>3, <2>2 DEF ReallocLast, ReallocShrink, PointersAligned
  <2>3. ASSUME NEW i, NEW byte, Write(c, i, byte) PROVE PointersAligned'
    BY <2>3 DEF Write, PointersAligned
  <2>4. CASE ReallocNone(c) \/ Forget(c)
    BY <1>2, <1>3, <2>4 DEF ReallocNone, Forget
  <2> QED
    BY <1>4, <2>1, <2>2, <2>3, <2>4 DEF ClientStep
<1>5. CASE UNCHANGED ptr
  BY <1>5 DEF PointersAligned
<1> QED
  BY <1>4, <1>5 DEF ArenaNext, Exhaust, arenaVars

(* Every pointer the arena hands out is aligned, at every capacity, word size
   and alignment and after requests of every size. *)
THEOREM PointersAlwaysAligned == ArenaSpec => []PointersAligned
<1>1. ArenaInit => PointersAligned
  <2>1. (0 * Alignment) % Alignment = 0 /\ 0 * Alignment = 0
    BY ArenaAssumption, Multiple
  <2> QED
    BY <2>1 DEF ArenaInit, PointersAligned, NULL
<1>2. ArenaInv /\ PointersAligned /\ [ArenaNext]_arenaVars => PointersAligned'
  BY NextAligned
<1> QED
  BY <1>1, <1>2, Invariance, PTL DEF ArenaSpec

-----------------------------------------------------------------------------
(* The arena implements Storage *)

(* The cells of a memory from a position on are a sequence. *)
LEMMA CellsAreSequence ==
  ASSUME NEW m, NEW p, NEW n \in Nat,
         \A k \in 0 .. n - 1 : m[p + k] \in Nat
  PROVE  /\ [i \in 1 .. n |-> m[p + (i - 1)]] \in Seq(Nat)
         /\ Len([i \in 1 .. n |-> m[p + (i - 1)]]) = n
<1>1. \A i \in 1 .. n : m[p + (i - 1)] \in Nat
  OBVIOUS
<1> QED
  BY <1>1

(* A block's cells are in the memory, before and after a step. *)
LEMMA CellsTyped ==
  ASSUME ArenaTypeOK, BlocksApart, NEW c \in Clients, Holds(c)
  PROVE  size[c] \in Nat /\ \A k \in 0 .. size[c] - 1 : memory[ptr[c] + k] \in Nat
<1>1. /\ memory \in [0 .. Capacity - 1 -> Nat]
      /\ ptr[c] \in Nat /\ size[c] \in Nat
      /\ used \in Nat /\ Capacity \in Nat /\ used <= Capacity
      /\ ptr[c] + size[c] <= used
  BY ArenaAssumption DEF ArenaTypeOK, BlocksApart
<1>2. \A k \in 0 .. size[c] - 1 : ptr[c] + k \in 0 .. Capacity - 1
  BY <1>1
<1> QED
  BY <1>1, <1>2

(* The same after the step. *)
LEMMA CellsTypedNext ==
  ASSUME ArenaTypeOK', BlocksApart', NEW c \in Clients, Holds(c)'
  PROVE  /\ size'[c] \in Nat
         /\ \A k \in 0 .. size'[c] - 1 : memory'[ptr'[c] + k] \in Nat
<1>1. /\ memory' \in [0 .. Capacity - 1 -> Nat]
      /\ ptr'[c] \in Nat /\ size'[c] \in Nat
      /\ used' \in Nat /\ Capacity \in Nat /\ used' <= Capacity
      /\ ptr'[c] + size'[c] <= used'
  BY ArenaAssumption DEF ArenaTypeOK, BlocksApart
<1>2. \A k \in 0 .. size'[c] - 1 : ptr'[c] + k \in 0 .. Capacity - 1
  BY <1>1
<1> QED
  BY <1>1, <1>2

(* What a client's block holds, as Storage has it. *)
LEMMA ContentsFacts ==
  ASSUME ArenaInv, NEW c \in Clients, Holds(c)
  PROVE  /\ size[c] \in Nat
         /\ Len(ContentsOf(c)) = size[c]
         /\ \A i \in 1 .. size[c] : ContentsOf(c)[i] = memory[ptr[c] + (i - 1)]
<1>1. size[c] \in Nat /\ \A k \in 0 .. size[c] - 1 : memory[ptr[c] + k] \in Nat
  BY CellsTyped DEF ArenaInv
<1> QED
  BY <1>1, CellsAreSequence DEF ContentsOf

(* The same after the step. *)
LEMMA ContentsFactsNext ==
  ASSUME ArenaInv', NEW c \in Clients, Holds(c)'
  PROVE  /\ size'[c] \in Nat
         /\ ContentsOf(c)' \in Seq(Nat)
         /\ Len(ContentsOf(c)') = size'[c]
         /\ \A i \in 1 .. size'[c] :
              ContentsOf(c)'[i] = memory'[ptr'[c] + (i - 1)]
<1>1. /\ size'[c] \in Nat
      /\ \A k \in 0 .. size'[c] - 1 : memory'[ptr'[c] + k] \in Nat
  BY CellsTypedNext DEF ArenaInv
<1> QED
  BY <1>1, CellsAreSequence DEF ContentsOf

(* If a step leaves the pointers and the blocks of the others alone, they see
   nothing of it. *)
LEMMA OnlyMine ==
  ASSUME NEW c \in Clients, ArenaInv,
         \A d \in Clients \ {c} :
           /\ ptr'[d] = ptr[d] /\ size'[d] = size[d]
           /\ Holds(d) => \A k \in 0 .. size[d] - 1 :
                memory'[ptr[d] + k] = memory[ptr[d] + k]
  PROVE  StorageOf!Only(c)
<1>1. Holders' \ {c} = Holders \ {c}
  BY DEF Holders, Holds
<1>2. ASSUME NEW d \in Holders \ {c}
      PROVE  ContentsOf(d)' = ContentsOf(d)
  <2>1. /\ d \in Clients \ {c} /\ Holds(d) /\ size[d] \in Nat
        /\ ptr'[d] = ptr[d] /\ size'[d] = size[d]
    BY <1>2 DEF Holders, ArenaInv, ArenaTypeOK
  <2>2. \A i \in 1 .. size[d] :
          memory'[ptr[d] + (i - 1)] = memory[ptr[d] + (i - 1)]
    BY <2>1
  <2> QED
    BY <2>1, <2>2 DEF ContentsOf
<1>3. \A d \in Holders \ {c} : d \in Holders'
  BY <1>1
<1> QED
  BY <1>1, <1>2, <1>3 DEF StorageOf!Only

(* The cells of the other blocks, when the memory changes only from the end of
   what is used on, or only in one place that is not in them. *)
LEMMA OthersBelow ==
  ASSUME ArenaInv, NEW d \in Clients, Holds(d), NEW m,
         \A k \in 0 .. used - 1 : m[k] = memory[k]
  PROVE  \A k \in 0 .. size[d] - 1 : m[ptr[d] + k] = memory[ptr[d] + k]
<1>1. /\ ptr[d] \in Nat /\ size[d] \in Nat /\ used \in Nat
      /\ ptr[d] + size[d] <= used
  BY BlockFacts
<1> QED
  BY <1>1

(* Writing a header in front of a block changes no contents. *)
LEMMA HeaderNotSeen ==
  ASSUME ArenaInv, NEW c \in Clients, Holds(c), NEW n \in Nat, SetHeader(c, n),
         NEW d \in Clients, Holds(d)
  PROVE  \A k \in 0 .. size[d] - 1 : memory'[ptr[d] + k] = memory[ptr[d] + k]
<1> SUFFICES ASSUME NEW k \in 0 .. size[d] - 1
             PROVE  memory'[ptr[d] + k] = memory[ptr[d] + k]
  OBVIOUS
<1>1. /\ ptr[d] \in Nat /\ size[d] \in Nat /\ ptr[d] >= HeaderSize
      /\ used \in Nat /\ Capacity \in Nat /\ used <= Capacity
      /\ ptr[d] + size[d] <= used
  BY BlockFacts
<1>2. /\ ptr[c] \in Nat /\ size[c] \in Nat
      /\ \/ c = d
         \/ ptr[c] + size[c] <= ptr[d] - HeaderSize
         \/ ptr[d] + size[d] <= ptr[c] - HeaderSize
  BY BlockFacts
<1>3. HeaderSize \in Nat /\ HeaderSize > 0
  BY HeaderPositive
<1>4. /\ ptr[d] + k \in 0 .. Capacity - 1
      /\ ptr[d] + k # ptr[c] - HeaderSize
  <2>1. CASE c = d
    BY <1>1, <1>3, <2>1
  <2>2. CASE ptr[c] + size[c] <= ptr[d] - HeaderSize
    BY <1>1, <1>2, <1>3, <2>2
  <2>3. CASE ptr[d] + size[d] <= ptr[c] - HeaderSize
    BY <1>1, <1>2, <1>3, <2>3
  <2> QED
    BY <1>2, <2>1, <2>2, <2>3
<1>5. memory \in [0 .. Capacity - 1 -> Nat]
  BY DEF ArenaInv, ArenaTypeOK
<1> QED
  BY <1>4, <1>5 DEF SetHeader

(* Who has a block after Point. *)
LEMMA Pointed ==
  ASSUME ArenaInv, NEW c \in Clients, NEW p, NEW n, Point(c, p, n)
  PROVE  /\ ptr'[c] = p /\ size'[c] = n
         /\ c \in Holders' <=> p # NULL
         /\ \A d \in Clients \ {c} : ptr'[d] = ptr[d] /\ size'[d] = size[d]
BY DEF ArenaInv, ArenaTypeOK, Point, Holders, Holds

(* arena_alloc: a block that was not there. *)
LEMMA AllocObtains ==
  ASSUME ArenaInv, ArenaInv', NEW c \in Clients, NEW n \in Sizes, Alloc(c, n)
  PROVE  StorageOf!Obtain(c)
<1>1. /\ n \in Nat /\ DataOffset \in Nat /\ DataOffset = HeaderOffset + HeaderSize
      /\ HeaderOffset \in Nat /\ HeaderOffset >= used
      /\ HeaderSize \in Nat /\ HeaderSize > 0
  BY ArenaAssumption, Offsets, HeaderPositive DEF ArenaInv
<1>2. /\ c \notin Holders
      /\ Point(c, DataOffset, n)
      /\ memory' = [memory EXCEPT ![HeaderOffset] = n]
  BY DEF Alloc, Holders
<1>3. c \in Holders' /\ Holds(c)'
  BY <1>1, <1>2, Pointed DEF NULL, Holders
<1>4. ContentsOf(c)' \in Seq(Nat)
  BY <1>3, ContentsFactsNext
<1>5. \A k \in 0 .. used - 1 : memory'[k] = memory[k]
  <2>1. used \in 0 .. Capacity /\ memory \in [0 .. Capacity - 1 -> Nat]
    BY DEF ArenaInv, ArenaTypeOK
  <2> QED
    BY <1>1, <1>2, <2>1, ArenaAssumption
<1>6. ASSUME NEW d \in Clients \ {c}, Holds(d)
      PROVE  \A k \in 0 .. size[d] - 1 : memory'[ptr[d] + k] = memory[ptr[d] + k]
  BY <1>5, <1>6, OthersBelow
<1>7. \A d \in Clients \ {c} : ptr'[d] = ptr[d] /\ size'[d] = size[d]
  BY <1>2, Pointed
<1>8. StorageOf!Only(c)
  BY <1>6, <1>7, OnlyMine
<1> QED
  BY <1>2, <1>3, <1>4, <1>8 DEF StorageOf!Obtain

(* A block that keeps or moves its cells is the same block of another size. *)
LEMMA KeptIsResized ==
  ASSUME ArenaInv, ArenaInv', NEW c \in Clients, Holds(c), Holds(c)',
         \A k \in 0 .. size[c] - 1 :
           k < size'[c] => memory'[ptr'[c] + k] = memory[ptr[c] + k],
         StorageOf!Only(c)
  PROVE  StorageOf!Resize(c)
<1>1. c \in Holders /\ c \in Holders'
  BY DEF Holders
<1>2. /\ size[c] \in Nat
      /\ Len(ContentsOf(c)) = size[c]
      /\ \A i \in 1 .. size[c] : ContentsOf(c)[i] = memory[ptr[c] + (i - 1)]
  BY ContentsFacts
<1>3. /\ size'[c] \in Nat
      /\ ContentsOf(c)' \in Seq(Nat)
      /\ Len(ContentsOf(c)') = size'[c]
      /\ \A i \in 1 .. size'[c] :
           ContentsOf(c)'[i] = memory'[ptr'[c] + (i - 1)]
  BY ContentsFactsNext
<1>4. ASSUME NEW i \in 1 .. size[c], i <= size'[c]
      PROVE  ContentsOf(c)'[i] = ContentsOf(c)[i]
  <2>1. i - 1 \in 0 .. size[c] - 1 /\ i - 1 < size'[c] /\ i \in 1 .. size'[c]
    BY <1>2, <1>3, <1>4
  <2> QED
    BY <1>2, <1>3, <2>1
<1> QED
  BY <1>1, <1>2, <1>3, <1>4 DEF StorageOf!Resize

(* arena_realloc in place *)
LEMMA ReallocInPlaceResizes ==
  ASSUME ArenaInv, ArenaInv', NEW c \in Clients, NEW n \in Sizes,
         ReallocLast(c, n) \/ ReallocShrink(c, n)
  PROVE  StorageOf!Resize(c)
<1>1. /\ n \in Nat /\ Holds(c) /\ SetHeader(c, n) /\ Point(c, ptr[c], n)
  BY ArenaAssumption DEF ReallocLast, ReallocShrink
<1>2. ptr'[c] = ptr[c] /\ Holds(c)'
  BY <1>1, Pointed DEF Holds
<1>3. \A k \in 0 .. size[c] - 1 : memory'[ptr'[c] + k] = memory[ptr[c] + k]
  BY <1>1, <1>2, HeaderNotSeen
<1>4. StorageOf!Only(c)
  BY <1>1, HeaderNotSeen, OnlyMine, Pointed
<1> QED
  BY <1>1, <1>2, <1>3, <1>4, KeptIsResized

(* arena_realloc into a new block *)
LEMMA ReallocMoveResizes ==
  ASSUME ArenaInv, ArenaInv', NEW c \in Clients, NEW n \in Sizes,
         ReallocMove(c, n)
  PROVE  StorageOf!Resize(c)
<1>1. /\ n \in Nat /\ Holds(c) /\ n > OldSize(c) /\ Fits(n)
      /\ memory' = Moved(c, n) /\ Point(c, DataOffset, n)
  BY ArenaAssumption DEF ReallocMove
<1>2. /\ \A k \in 0 .. used - 1 : memory'[k] = memory[k]
      /\ \A k \in 0 .. size[c] - 1 : memory'[DataOffset + k] = memory[ptr[c] + k]
  BY <1>1, MovedFacts
<1>3. DataOffset \in Nat /\ DataOffset # NULL
  BY Offsets, HeaderPositive DEF ArenaInv, NULL
<1>4. ptr'[c] = DataOffset /\ Holds(c)'
  BY <1>1, <1>3, Pointed DEF Holds
<1>5. StorageOf!Only(c)
  BY <1>1, <1>2, OnlyMine, OthersBelow, Pointed
<1> QED
  BY <1>1, <1>2, <1>4, <1>5, KeptIsResized

(* A client writes into its own block. *)
LEMMA WriteStores ==
  ASSUME ArenaInv, ArenaInv', NEW c \in Clients, NEW i \in 0 .. size[c] - 1,
         NEW byte \in Bytes, Write(c, i, byte)
  PROVE  StorageOf!Store(c)
<1>1. Holds(c) /\ UNCHANGED <<ptr, size>>
  BY DEF Write
<1>2. Holds(c)' /\ c \in Holders /\ c \in Holders'
  BY <1>1 DEF Holds, Holders
<1>3. /\ size[c] \in Nat
      /\ Len(ContentsOf(c)) = size[c]
      /\ \A j \in 1 .. size[c] : ContentsOf(c)[j] = memory[ptr[c] + (j - 1)]
  BY <1>1, ContentsFacts
<1>4. /\ ContentsOf(c)' \in Seq(Nat)
      /\ Len(ContentsOf(c)') = size[c]
      /\ \A j \in 1 .. size[c] : ContentsOf(c)'[j] = memory'[ptr[c] + (j - 1)]
  BY <1>1, <1>2, ContentsFactsNext
<1>5. ASSUME NEW d \in Clients, Holds(d), NEW k \in 0 .. size[d] - 1,
             ptr[d] + k # ptr[c] + i
      PROVE  memory'[ptr[d] + k] = memory[ptr[d] + k]
  <2>1. ptr[d] + k \in 0 .. Capacity - 1
    BY <1>5, BlockFacts
  <2> QED
    BY <1>5, <2>1, WriteFacts
<1>6. ASSUME NEW j \in 1 .. size[c] \ {i + 1}
      PROVE  ContentsOf(c)'[j] = ContentsOf(c)[j]
  <2>1. /\ j - 1 \in 0 .. size[c] - 1
        /\ ptr[c] + (j - 1) # ptr[c] + i
    BY <1>1, <1>3, BlockFacts
  <2> QED
    BY <1>1, <1>3, <1>4, <1>5, <2>1
<1>7. StorageOf!Only(c)
  <2>1. ASSUME NEW d \in Clients \ {c}, Holds(d), NEW k \in 0 .. size[d] - 1
        PROVE  memory'[ptr[d] + k] = memory[ptr[d] + k]
    BY <1>5, <2>1, WriteFacts
  <2> QED
    BY <1>1, <2>1, OnlyMine
<1>8. i + 1 \in 1 .. size[c]
  BY <1>3
<1> QED
  BY <1>2, <1>3, <1>4, <1>6, <1>7, <1>8 DEF StorageOf!Store

(* A client without a block. *)
LEMMA LeaveGivesUp ==
  ASSUME ArenaInv, NEW c \in Clients, Holds(c), Point(c, NULL, 0),
         UNCHANGED memory
  PROVE  StorageOf!GiveUp(c)
<1>1. c \in Holders /\ c \notin Holders'
  BY Pointed DEF Holders
<1>2. StorageOf!Only(c)
  BY OnlyMine, Pointed
<1> QED
  BY <1>1, <1>2 DEF StorageOf!GiveUp

(* The arena with its headers, its one end and its blocks that move is storage
   of one block for each client that nobody else changes and that keeps what it
   holds: every step is a step of Storage or invisible there. *)
THEOREM ArenaImplementsStorage == ArenaSpec => ImplementsStorage
<1>1. ArenaInit => StorageOf!StorageInit
  <2> SUFFICES ASSUME ArenaInit PROVE StorageOf!StorageInit
    OBVIOUS
  <2>1. Holders = {}
    BY DEF ArenaInit, Holders, Holds
  <2> QED
    BY <2>1 DEF ArenaInit, StorageOf!StorageInit
<1>2. ArenaInv /\ ArenaInv' /\ [ArenaNext]_arenaVars
        => [StorageOf!StorageNext]_StorageOf!storageVars
  <2> SUFFICES ASSUME ArenaInv, ArenaInv', [ArenaNext]_arenaVars
               PROVE  [StorageOf!StorageNext]_StorageOf!storageVars
    OBVIOUS
  <2>1. ASSUME ~exhausted, NEW c \in Clients, ClientStep(c), UNCHANGED exhausted
        PROVE  StorageOf!StorageNext
    <3>1. ASSUME NEW n \in Sizes, Alloc(c, n) PROVE StorageOf!Obtain(c)
      BY <3>1, AllocObtains
    <3>2. ASSUME NEW n \in Sizes, ReallocLast(c, n) \/ ReallocShrink(c, n)
          PROVE  StorageOf!Resize(c)
      BY <3>2, ReallocInPlaceResizes
    <3>3. ASSUME NEW n \in Sizes, ReallocMove(c, n) PROVE StorageOf!Resize(c)
      BY <3>3, ReallocMoveResizes
    <3>4. ASSUME NEW i \in 0 .. size[c] - 1, NEW byte \in Bytes, Write(c, i, byte)
          PROVE  StorageOf!Store(c)
      BY <3>4, WriteStores
    <3>5. ASSUME ReallocNone(c) \/ Forget(c) PROVE StorageOf!GiveUp(c)
      BY <3>5, LeaveGivesUp DEF ReallocNone, Forget
    <3> QED
      BY <2>1, <3>1, <3>2, <3>3, <3>4, <3>5
      DEF ClientStep, StorageOf!StorageNext
  <2>2. ASSUME UNCHANGED <<memory, ptr, size>>
        PROVE  [c \in Holders |-> ContentsOf(c)]' = [c \in Holders |-> ContentsOf(c)]
    BY <2>2 DEF Holders, Holds, ContentsOf
  <2>3. ASSUME ~exhausted, NEW c \in Clients, NEW n \in Sizes, Exhaust(c, n)
        PROVE  StorageOf!StorageNext
    BY <2>2, <2>3 DEF Exhaust, StorageOf!StorageNext
  <2>4. CASE UNCHANGED arenaVars
    BY <2>2, <2>4 DEF arenaVars, StorageOf!storageVars
  <2> QED
    BY <2>1, <2>3, <2>4 DEF ArenaNext
<1> QED
  BY <1>1, <1>2, Invariance, PTL
  DEF ArenaSpec, ImplementsStorage, StorageOf!StorageSpec
===============================================================================
