------------------------------ MODULE BootHeap ------------------------------
(***************************************************************************)
(* The allocator of the bare machine (baremetal/runtime/freestanding.c): a *)
(* position in an arena that only moves forward, until the arena is reset. *)
(* Sizes are unsigned numbers and wrap around at Modulus, 2^64 in the      *)
(* code.  Blocks are never given back one by one.                          *)
(***************************************************************************)
EXTENDS Integers

CONSTANTS
    HeapBytes,  \* ERN_BOOT_HEAP_BYTES
    Modulus,    \* a size_t is below
    Sizes       \* the sizes programs ask for

ASSUME SizesAssumption ==
    /\ HeapBytes \in Nat /\ HeapBytes % 16 = 0
    /\ Modulus \in Nat /\ Modulus % 16 = 0 /\ HeapBytes + 16 <= Modulus
    /\ Sizes \subseteq 0 .. Modulus - 1

VARIABLES
    next,       \* ern_boot_heap_next
    blocks      \* history: what was handed out since the last reset

bootVars == <<next, blocks>>

\* Sums and differences of two sizes, as a size_t holds them.
Wrap(x) == IF x < 0 THEN x + Modulus ELSE IF x >= Modulus THEN x - Modulus ELSE x

\* Mutant: sizes are not rounded.
AlignedNot(x) == x

\* (x + 15) & ~15
Aligned(x) == Wrap(x + 15) - (Wrap(x + 15) % 16)

\* There is room for a block of so many bytes, as ern_allocate sees it.
Fits(bytes) ==
    /\ bytes # 0
    /\ Aligned(bytes) >= bytes
    /\ next <= Wrap(HeapBytes - Aligned(bytes))

BootTypeOK ==
    /\ next \in 0 .. Modulus - 1
    /\ blocks \subseteq [from : 0 .. Modulus - 1, bytes : Sizes]

BootInit == next = 0 /\ blocks = {}

\* A size that fits is taken from the front; ern_allocate answers others with
\* NULL, which changes nothing.
Allocate(bytes) ==
    /\ Fits(bytes)
    /\ blocks' = blocks \cup {[from |-> next, bytes |-> bytes]}
    /\ next' = Wrap(next + Aligned(bytes))

\* ern_heap_reset takes everything back.
Reset == next' = 0 /\ blocks' = {}

BootNext == Reset \/ \E bytes \in Sizes : Allocate(bytes)

BootSpec == BootInit /\ [][BootNext]_bootVars

-----------------------------------------------------------------------------
(* Properties *)

Bytes(b) == b.from .. b.from + b.bytes - 1

\* Blocks lie in the arena, side by side, each where any object may begin.
BlocksAreApart ==
    /\ \A b \in blocks : b.from % 16 = 0 /\ Bytes(b) \subseteq 0 .. HeapBytes - 1
    /\ \A b, c \in blocks : b # c => Bytes(b) \cap Bytes(c) = {}

\* No size is refused that the rest of the arena holds: rounding up costs
\* nothing, as the arena itself is a whole number of units.
NoRoomIsWasted ==
    \A bytes \in Sizes : bytes # 0 /\ next + bytes <= HeapBytes => Fits(bytes)

\* A "1 MiB freestanding bump allocator" hands out its arena.  It does not
\* keep to it for sizes above the arena's: the difference that is compared
\* with the position wraps around and is far above any position.
BlocksAreInTheArena == \A b \in blocks : Bytes(b) \subseteq 0 .. HeapBytes - 1
=============================================================================
