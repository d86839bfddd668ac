--------------------------------- MODULE Arena ---------------------------------
(***************************************************************************)
(* The one region of memory behind everything Foo allocates (lib/arena.c), *)
(* and those who use it.  A client is one owner of a block at a time: an   *)
(* array or map of stb_ds, which grows through arena_realloc and replaces  *)
(* its pointer, or an object that arena_alloc made.  STBDS_FREE does       *)
(* nothing (main.c): a client that is done forgets its pointer.            *)
(*                                                                         *)
(* A pointer is an offset into the memory; 0 is NULL, no block starts      *)
(* there.  A block's header is HeaderSize cells, the first of which holds  *)
(* the size.                                                               *)
(***************************************************************************)
EXTENDS Integers, Sequences

CONSTANTS
  Clients,
  Capacity,    \* ARENA_MEMORY_CAPACITY
  Alignment,   \* ARENA_ALIGNMENT
  WordSize,    \* sizeof(size_t)
  Sizes,       \* what is asked for
  Bytes        \* what is written into a block

ASSUME ArenaAssumption ==
  /\ Capacity \in Nat
  /\ Alignment \in Nat \ {0}
  /\ WordSize \in Nat \ {0}
  /\ Sizes \subseteq Nat
  /\ Bytes \subseteq Nat

VARIABLES
  memory,      \* arena_memory
  used,        \* arena_memory_used
  ptr,         \* the pointer each client has
  size,        \* how large each client believes its block to be
  exhausted    \* "static arena exhausted": the process has aborted

arenaVars == <<memory, used, ptr, size, exhausted>>

NULL == 0
HeaderSize == ((WordSize + Alignment - 1) \div Alignment) * Alignment

(* Mutant: nothing is aligned. *)
AlignNothing(value) == value

AlignForward(value) ==
  LET remainder == value % Alignment IN
  IF remainder = 0 THEN value ELSE value + Alignment - remainder

ArenaInit ==
  /\ memory = [k \in 0 .. Capacity - 1 |-> 0]
  /\ used = 0
  /\ ptr = [c \in Clients |-> NULL]
  /\ size = [c \in Clients |-> 0]
  /\ exhausted = FALSE

Holds(c) == ptr[c] # NULL

HeaderOffset == AlignForward(used)
DataOffset == HeaderOffset + HeaderSize

(* Mutant: the header is not counted. *)
FitsWithoutHeader(n) ==
  /\ HeaderOffset <= Capacity
  /\ n <= Capacity - HeaderOffset

(* The PANIC condition of arena_alloc. *)
Fits(n) ==
  /\ HeaderOffset <= Capacity
  /\ HeaderSize <= Capacity - HeaderOffset
  /\ n <= Capacity - DataOffset

Point(c, data, n) ==
  /\ ptr' = [ptr EXCEPT ![c] = data]
  /\ size' = [size EXCEPT ![c] = n]

(* arena_alloc, or arena_realloc of NULL *)
Alloc(c, n) ==
  /\ ~Holds(c)
  /\ Fits(n)
  /\ memory' = [memory EXCEPT ![HeaderOffset] = n]
  /\ used' = DataOffset + n
  /\ Point(c, DataOffset, n)

(* What arena_realloc reads in the header of c's block. *)
OldSize(c) == memory[ptr[c] - HeaderSize]
OldEnd(c) == ptr[c] + OldSize(c)

SetHeader(c, n) == memory' = [memory EXCEPT ![ptr[c] - HeaderSize] = n]

(* arena_realloc to nothing returns NULL *)
ReallocNone(c) ==
  /\ Holds(c)
  /\ Point(c, NULL, 0)
  /\ UNCHANGED <<memory, used>>

(* Mutant: a block that grows in place does not move the end of the arena. *)
ReallocLastOnly(c, n) ==
  /\ Holds(c)
  /\ n # 0
  /\ OldEnd(c) = used
  /\ n <= Capacity - ptr[c]
  /\ SetHeader(c, n)
  /\ Point(c, ptr[c], n)
  /\ UNCHANGED used

(* The last block grows or shrinks where it is. *)
ReallocLast(c, n) ==
  /\ Holds(c)
  /\ n # 0
  /\ OldEnd(c) = used
  /\ n <= Capacity - ptr[c]
  /\ SetHeader(c, n)
  /\ used' = ptr[c] + n
  /\ Point(c, ptr[c], n)

(* Mutant: the header of a block that shrinks keeps the old size. *)
ReallocShrinkSilently(c, n) ==
  /\ Holds(c)
  /\ n # 0
  /\ OldEnd(c) # used
  /\ n <= OldSize(c)
  /\ Point(c, ptr[c], n)
  /\ UNCHANGED <<memory, used>>

ReallocShrink(c, n) ==
  /\ Holds(c)
  /\ n # 0
  /\ OldEnd(c) # used
  /\ n <= OldSize(c)
  /\ SetHeader(c, n)
  /\ Point(c, ptr[c], n)
  /\ UNCHANGED used

(* Mutant: the last byte is not copied. *)
MovedShort(c, n) ==
  [k \in 0 .. Capacity - 1 |->
     IF k = HeaderOffset THEN n
     ELSE IF k \in DataOffset .. DataOffset + OldSize(c) - 2
       THEN memory[ptr[c] + (k - DataOffset)] ELSE memory[k]]

(* The memory after arena_alloc and the memcpy that follows. *)
Moved(c, n) ==
  [k \in 0 .. Capacity - 1 |->
     IF k = HeaderOffset THEN n
     ELSE IF k \in DataOffset .. DataOffset + OldSize(c) - 1
       THEN memory[ptr[c] + (k - DataOffset)] ELSE memory[k]]

ReallocMove(c, n) ==
  /\ Holds(c)
  /\ n # 0
  /\ OldEnd(c) # used
  /\ n > OldSize(c)
  /\ Fits(n)
  /\ memory' = Moved(c, n)
  /\ used' = DataOffset + n
  /\ Point(c, DataOffset, n)

(* The client writes into its block. *)
Write(c, i, byte) ==
  /\ Holds(c)
  /\ i < size[c]
  /\ memory' = [memory EXCEPT ![ptr[c] + i] = byte]
  /\ UNCHANGED <<used, ptr, size>>

(* STBDS_FREE, or a pointer that goes out of scope *)
Forget(c) ==
  /\ Holds(c)
  /\ Point(c, NULL, 0)
  /\ UNCHANGED <<memory, used>>

Lacks(c, n) ==
  IF Holds(c) /\ OldEnd(c) = used THEN n # 0 /\ n > Capacity - ptr[c]
  ELSE (Holds(c) => n > OldSize(c)) /\ ~Fits(n)

Exhaust(c, n) ==
  /\ Lacks(c, n)
  /\ exhausted' = TRUE
  /\ UNCHANGED <<memory, used, ptr, size>>

ClientStep(c) ==
  \/ \E n \in Sizes :
       \/ Alloc(c, n) \/ ReallocLast(c, n) \/ ReallocShrink(c, n)
       \/ ReallocMove(c, n)
  \/ \E i \in 0 .. size[c] - 1, byte \in Bytes : Write(c, i, byte)
  \/ ReallocNone(c)
  \/ Forget(c)

ArenaNext ==
  /\ ~exhausted
  /\ \/ \E c \in Clients : ClientStep(c) /\ UNCHANGED exhausted
     \/ \E c \in Clients, n \in Sizes : Exhaust(c, n)

ArenaSpec == ArenaInit /\ [][ArenaNext]_arenaVars

-----------------------------------------------------------------------------
(* The types of the arena's variables; a NULL has no size. *)
ArenaTypeOK ==
  /\ memory \in [0 .. Capacity - 1 -> Nat]
  /\ used \in 0 .. Capacity
  /\ ptr \in [Clients -> Nat]
  /\ size \in [Clients -> Nat]
  /\ \A c \in Clients : ptr[c] = NULL => size[c] = 0
  /\ exhausted \in BOOLEAN

(* The blocks of two clients never overlap, headers included, and all end
   within the part of the arena that is counted as used: whatever was allocated,
   grown in place, shrunk, moved or forgotten before. *)
BlocksApart ==
  \A c \in Clients : Holds(c) =>
    /\ ptr[c] >= HeaderSize
    /\ ptr[c] + size[c] <= used
    /\ \A d \in Clients \ {c} : Holds(d) =>
         \/ ptr[c] + size[c] <= ptr[d] - HeaderSize
         \/ ptr[d] + size[d] <= ptr[c] - HeaderSize

(* The size arena_realloc finds in a header is the size the client was given
   last: no write into another block, and no memcpy, has reached it. *)
HeadersIntact ==
  \A c \in Clients : Holds(c) => OldSize(c) = size[c]

(* Every block is aligned for any type of C (max_align_t), after requests of
   whatever size. *)
PointersAligned == \A c \in Clients : ptr[c] % Alignment = 0

ArenaInv == ArenaTypeOK /\ BlocksApart /\ HeadersIntact

-----------------------------------------------------------------------------
(* What the clients see of the arena. *)
Holders == {c \in Clients : Holds(c)}
ContentsOf(c) == [i \in 1 .. size[c] |-> memory[ptr[c] + (i - 1)]]

StorageOf == INSTANCE Storage
               WITH contents <- [c \in Holders |-> ContentsOf(c)]

(* The arena is storage of one block for each client: a block keeps its
   contents, also when it moves or others grow, shrink or are written to. *)
ImplementsStorage == StorageOf!StorageSpec
===============================================================================
