-------------------------------- MODULE Arena --------------------------------
(***************************************************************************)
(* The bump arena of the on-target runtime (runtime-c/src/arena.c and      *)
(* runtime-c/include/jaxility_runtime/arena.h): the only allocator a       *)
(* deployed controller has.                                                *)
(*                                                                         *)
(* Addresses are the numbers 0 .. Modulus-1 of a machine whose uintptr_t   *)
(* and size_t are Width bits wide, and every sum and difference the code   *)
(* forms is taken modulo Modulus, exactly where the code forms it.         *)
(* A slab is a C object: it does not wrap round the address space, but it  *)
(* may lie at its very end.                                                *)
(***************************************************************************)
EXTENDS Integers, FiniteSets

CONSTANTS
  Width,         \* bits of uintptr_t and of size_t
  DefaultAlign,  \* JX_ARENA_DEFAULT_ALIGN
  Bases,         \* base addresses jx_arena_init is called with (0 is NULL)
  Capacities,    \* capacities jx_arena_init is called with
  Sizes,         \* sizes asked of jx_arena_alloc
  Aligns,        \* alignments asked of jx_arena_alloc_aligned, legal or not
  MaxSaved       \* bound: checkpoints a client holds at one time

Modulus == 2^Width
Word    == 0 .. (Modulus - 1)
Null    == 0

\* Powers of two that fit a word are words themselves and divide Modulus.
ASSUME WidthAssumption ==
  /\ Width \in Nat \ {0}
  /\ Modulus \in Nat \ {0}
  /\ \A k \in 0 .. (Width - 1) : /\ 2^k \in 1 .. (Modulus - 1)
                                /\ Modulus % (2^k) = 0

ASSUME RequestAssumption ==
  /\ DefaultAlign \in Word
  /\ Bases \subseteq Word
  /\ Capacities \subseteq Word
  /\ Sizes \subseteq Word
  /\ Aligns \subseteq Word
  /\ MaxSaved \in Nat

VARIABLES
  base,      \* jx_arena_t.base, Null while the arena is not initialised
  capacity,  \* jx_arena_t.capacity
  used,      \* jx_arena_t.used
  live,      \* client: the blocks it was handed and has not given up
  saved,     \* client: checkpoints, each a saved `used` and the blocks below it
  call       \* client: the last call and what it returned

vars == <<base, capacity, used, live, saved, call>>

Block == [addr : Word, size : Word, align : Word]
Checkpoint == [mark : Word, kept : SUBSET Block]
Call == [op : {"none", "init", "alloc", "reset", "save", "restore"},
         size : Word, align : Word, ret : Word]

Report(op, size, align, ret) ==
  call' = [op |-> op, size |-> size, align |-> align, ret |-> ret]

(***************************************************************************)
(* The arithmetic of arena.c.                                              *)
(***************************************************************************)

is_power_of_two(x) == \E k \in 0 .. (Width - 1) : x = 2^k

\* (value + (align - 1)) & ~(align - 1), align a power of two
align_up(value, align) ==
  LET s == (value + (align - 1)) % Modulus IN s - (s % align)

\* Deviation: the offset is aligned, not the absolute address
AlignedUsedOffsetOnly(align) == align_up(used, align)

\* Offset of the first aligned address at or above the bump pointer.
AlignedUsed(align) == (align_up((base + used) % Modulus, align) - base) % Modulus

\* Deviation: the exhaustion test as a sum that can wrap
ExhaustedBySum(size, align) == (AlignedUsed(align) + size) % Modulus > capacity

\* Deviation: off by one: a block may not end at the end of the slab
ExhaustedAtEnd(size, align) ==
  \/ AlignedUsed(align) > capacity
  \/ size >= (capacity - AlignedUsed(align)) % Modulus

\* The exhaustion test, a subtraction against the capacity.
Exhausted(size, align) ==
  \/ AlignedUsed(align) > capacity
  \/ size > (capacity - AlignedUsed(align)) % Modulus

\* jx_arena_available
Available == (capacity - used) % Modulus

(***************************************************************************)
(* Operations.                                                             *)
(***************************************************************************)

Init ==
  /\ base = Null
  /\ capacity = 0
  /\ used = 0
  /\ live = {}
  /\ saved = {}
  /\ call = [op |-> "none", size |-> 0, align |-> 0, ret |-> 0]

\* A slab the caller owns lies inside the address space.
SlabExists(b, c) == b + c <= Modulus

\* jx_arena_init: a NULL base or a zero capacity is refused; otherwise the
\* arena starts afresh, also over a slab that was in use before. (ret is the
\* return code without its sign.)
InitArena(b, c) ==
  /\ SlabExists(b, c)
  /\ IF b = Null \/ c = 0
     THEN /\ Report("init", c, 0, 1)
          /\ UNCHANGED <<base, capacity, used, live, saved>>
     ELSE /\ base' = b
          /\ capacity' = c
          /\ used' = 0
          /\ live' = {}
          /\ saved' = {}
          /\ Report("init", c, 0, 0)

\* Deviation: the padding is not counted as used
AllocAlignedNoPad(size, align) ==
  /\ base # Null
  /\ IF size = 0 \/ ~is_power_of_two(align) \/ Exhausted(size, align)
     THEN /\ Report("alloc", size, align, Null)
          /\ UNCHANGED <<used, live>>
     ELSE LET addr == (base + AlignedUsed(align)) % Modulus IN
          /\ used' = (used + size) % Modulus
          /\ live' = live \union {[addr |-> addr, size |-> size, align |-> align]}
          /\ Report("alloc", size, align, addr)
  /\ UNCHANGED <<base, capacity, saved>>

\* Deviation: exhaustion reported as -1, the way jx_arena_init reports failure
AllocAlignedMinusOne(size, align) ==
  /\ base # Null
  /\ IF size = 0 \/ ~is_power_of_two(align) \/ Exhausted(size, align)
     THEN /\ Report("alloc", size, align, -1)
          /\ UNCHANGED <<used, live>>
     ELSE LET addr == (base + AlignedUsed(align)) % Modulus IN
          /\ used' = (AlignedUsed(align) + size) % Modulus
          /\ live' = live \union {[addr |-> addr, size |-> size, align |-> align]}
          /\ Report("alloc", size, align, addr)
  /\ UNCHANGED <<base, capacity, saved>>

\* jx_arena_alloc_aligned, and what the client then owns.
AllocAligned(size, align) ==
  /\ base # Null
  /\ IF size = 0 \/ ~is_power_of_two(align) \/ Exhausted(size, align)
     THEN /\ Report("alloc", size, align, Null)
          /\ UNCHANGED <<used, live>>
     ELSE LET addr == (base + AlignedUsed(align)) % Modulus IN
          /\ used' = (AlignedUsed(align) + size) % Modulus
          /\ live' = live \union {[addr |-> addr, size |-> size, align |-> align]}
          /\ Report("alloc", size, align, addr)
  /\ UNCHANGED <<base, capacity, saved>>

\* jx_arena_alloc
Alloc(size) == AllocAligned(size, DefaultAlign)

\* jx_arena_reset: everything the client held is gone.
Reset ==
  /\ base # Null
  /\ used' = 0
  /\ live' = {}
  /\ saved' = {}
  /\ Report("reset", 0, 0, 0)
  /\ UNCHANGED <<base, capacity>>

\* The checkpoint idiom of arena.h: a client saves `used` ...
Save ==
  /\ base # Null
  /\ Cardinality(saved) < MaxSaved
  /\ saved' = saved \union {[mark |-> used, kept |-> live]}
  /\ Report("save", 0, 0, 0)
  /\ UNCHANGED <<base, capacity, used, live>>

\* Deviation: later checkpoints survive a restore
RestoreKeepsAll(s) ==
  /\ used' = s.mark
  /\ live' = s.kept
  /\ Report("restore", 0, 0, 0)
  /\ UNCHANGED <<base, capacity, saved>>

\* ... and writes it back, which undoes the allocations and forgets the
\* checkpoints made since.
Restore(s) ==
  /\ used' = s.mark
  /\ live' = s.kept
  /\ saved' = {t \in saved : t.mark <= s.mark}
  /\ Report("restore", 0, 0, 0)
  /\ UNCHANGED <<base, capacity>>

Next ==
  \/ \E b \in Bases, c \in Capacities : InitArena(b, c)
  \/ \E size \in Sizes : Alloc(size)
  \/ \E size \in Sizes, align \in Aligns : AllocAligned(size, align)
  \/ Reset
  \/ Save
  \/ \E s \in saved : Restore(s)

Spec == Init /\ [][Next]_vars

(***************************************************************************)
(* Properties.                                                             *)
(***************************************************************************)

\* Every field of the arena and of every block is a machine word.
TypeOK ==
  /\ base \in Word
  /\ capacity \in Word
  /\ used \in Word
  /\ live \subseteq Block
  /\ saved \subseteq Checkpoint
  /\ call \in Call

End(b) == b.addr + b.size

\* No block the client holds sticks out of the slab, and the bump pointer
\* never leaves it (so that jx_arena_available cannot wrap): the overflow test
\* of jx_arena_alloc_aligned is right even when address arithmetic wraps (a
\* slab at the end of the address space, a size or an alignment near SIZE_MAX).
BlocksInSlab ==
  /\ used + Available = capacity
  /\ base + capacity <= Modulus
  /\ \A b \in live : /\ b.size > 0
                     /\ base <= b.addr
                     /\ End(b) <= base + used

\* The returned pointer satisfies the requested alignment as an absolute
\* address, however the slab itself is aligned (the Cortex-A76 cache-line
\* failure the comment in jx_arena_alloc_aligned recalls).
BlocksAligned == \A b \in live : b.addr % b.align = 0

\* Two blocks the client holds never share a byte, through any sequence of
\* allocations, resets and checkpoint restores.
BlocksDisjoint ==
  \A b, d \in live : b # d => End(b) <= d.addr \/ End(d) <= b.addr

\* A checkpoint separates the blocks: those it keeps end below its mark, all
\* others the client holds start at or above it. Writing the mark back
\* therefore undoes exactly what was allocated since it was saved.
CheckpointsCut ==
  \A s \in saved :
    /\ s.mark <= used
    /\ s.kept \subseteq live
    /\ \A b \in s.kept : End(b) <= base + s.mark
    /\ \A b \in live \ s.kept : base + s.mark <= b.addr

\* The addresses a request could be served at, in plain arithmetic.
Fits(size, align) ==
  {x \in (base + used) .. (base + capacity - size) : x % align = 0}

\* An allocation succeeds exactly when an aligned place is left above the
\* bump pointer and then takes the lowest: NULL means exhaustion or an illegal
\* request and nothing else (arena.h: "the only allocation failure mode").
FirstFit ==
  [][call'.op = "alloc" =>
       LET possible == IF call'.size = 0 \/ ~is_power_of_two(call'.align)
                       THEN {}
                       ELSE Fits(call'.size, call'.align)
       IN IF possible = {}
          THEN call'.ret = Null /\ UNCHANGED <<used, live>>
          ELSE /\ call'.ret \in possible
               /\ \A x \in possible : call'.ret <= x]_vars
==============================================================================
