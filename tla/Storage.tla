-------------------------------- MODULE Storage --------------------------------
(***************************************************************************)
(* What the rest of the program takes the arena for: every client has a    *)
(* block of its own, which nobody else changes, and which keeps what it    *)
(* holds when its size changes.  Where the blocks are is not visible.      *)
(* This is the specification Arena implements; it is not code.             *)
(***************************************************************************)
EXTENDS Integers, Sequences

CONSTANT Clients

VARIABLES
  contents,   \* contents[c]: the bytes of c's block, for the clients that have one
  exhausted   \* the process has aborted for lack of memory

storageVars == <<contents, exhausted>>

StorageInit ==
  /\ contents = [c \in {} |-> << >>]
  /\ exhausted = FALSE

(* The client c alone is affected. *)
Only(c) ==
  /\ DOMAIN contents' \ {c} = DOMAIN contents \ {c}
  /\ \A d \in DOMAIN contents \ {c} : contents'[d] = contents[d]

(* A new block holds whatever the memory held. *)
Obtain(c) ==
  /\ c \notin DOMAIN contents
  /\ c \in DOMAIN contents'
  /\ contents'[c] \in Seq(Nat)
  /\ Only(c)

(* A block of another size starts with what the old one started with. *)
Resize(c) ==
  /\ c \in DOMAIN contents
  /\ c \in DOMAIN contents'
  /\ contents'[c] \in Seq(Nat)
  /\ \A i \in 1 .. Len(contents[c]) :
       i <= Len(contents'[c]) => contents'[c][i] = contents[c][i]
  /\ Only(c)

Store(c) ==
  /\ c \in DOMAIN contents
  /\ c \in DOMAIN contents'
  /\ contents'[c] \in Seq(Nat)
  /\ Len(contents'[c]) = Len(contents[c])
  /\ \E i \in 1 .. Len(contents[c]) :
       \A j \in 1 .. Len(contents[c]) \ {i} : contents'[c][j] = contents[c][j]
  /\ Only(c)

GiveUp(c) ==
  /\ c \in DOMAIN contents
  /\ c \notin DOMAIN contents'
  /\ Only(c)

StorageNext ==
  /\ ~exhausted
  /\ \/ /\ \E c \in Clients : Obtain(c) \/ Resize(c) \/ Store(c) \/ GiveUp(c)
        /\ UNCHANGED exhausted
     \/ /\ exhausted' = TRUE
        /\ UNCHANGED contents

StorageSpec == StorageInit /\ [][StorageNext]_storageVars
===============================================================================
