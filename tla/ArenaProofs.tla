----------------------------- MODULE ArenaProofs -----------------------------
(***************************************************************************)
(* The arena's safety for every word width, slab and sequence of calls.    *)
(* The heart is BumpPlace: what the wrap-around arithmetic of              *)
(* jx_arena_alloc_aligned computes when it does not report exhaustion.     *)
(***************************************************************************)
EXTENDS Arena, TLAPS

(***************************************************************************)
(* Modular arithmetic.                                                     *)
(***************************************************************************)

\* A remainder is below its modulus, and small numbers are their own.
LEMMA ModRange ==
  ASSUME NEW m \in Nat \ {0}, NEW x \in Int
  PROVE  /\ x % m \in 0 .. (m - 1)
         /\ x \in 0 .. (m - 1) => x % m = x
BY SMT

\* One wrap-around upwards, one downwards.
LEMMA ModWrap ==
  ASSUME NEW m \in Nat \ {0}, NEW x \in Int
  PROVE  /\ x \in m .. (2 * m - 1) => x % m = x - m
         /\ x \in (-m) .. (-1) => x % m = x + m
BY SMT

\* A number is a quotient times the divisor plus the remainder.
LEMMA ModQuotient ==
  ASSUME NEW m \in Nat \ {0}, NEW x \in Nat
  PROVE  \E q \in Int : q * m \in Int /\ x = q * m + (x % m)
<1>1. x \div m \in Int /\ (x \div m) * m \in Int
  BY SMT
<1>2. x = (x \div m) * m + (x % m)
  BY SMT
<1> QED BY <1>1, <1>2

\* A multiple has no remainder.
LEMMA ModMultiple ==
  ASSUME NEW m \in Nat \ {0}, NEW q \in Int
  PROVE  (q * m) % m = 0
BY SMT

\* Subtracting the remainder leaves a multiple: the masking of align_up.
LEMMA ModDown ==
  ASSUME NEW m \in Nat \ {0}, NEW x \in Nat
  PROVE  (x - (x % m)) % m = 0
<1>1. PICK q \in Int : q * m \in Int /\ x = q * m + (x % m)
  BY ModQuotient
<1>2. x % m \in Int
  BY ModRange
<1>3. x - (x % m) = q * m
  BY <1>1, <1>2, SMT
<1> QED BY <1>3, ModMultiple

\* Two different multiples are at least a modulus apart.
LEMMA MultiplesApart ==
  ASSUME NEW m \in Nat \ {0}, NEW x \in Nat, NEW y \in Nat,
         x % m = 0, y % m = 0, x < y
  PROVE  x + m <= y
<1>1. PICK p \in Int : p * m \in Int /\ x = p * m + (x % m)
  BY ModQuotient
<1>2. PICK q \in Int : q * m \in Int /\ y = q * m + (y % m)
  BY ModQuotient
<1>3. x = p * m /\ y = q * m
  BY <1>1, <1>2, SMT
<1>4. p < q
  BY <1>3, SMT
<1>5. (q - p) * m >= m /\ (q - p) * m = q * m - p * m
  BY <1>4, SMT
<1> QED BY <1>1, <1>2, <1>3, <1>5, SMT

(***************************************************************************)
(* Rounding up.                                                            *)
(***************************************************************************)

\* Below the end of the address space align_up(v, a) is aligned, at or above
\* v and less than a away from it; otherwise it wraps to zero.
LEMMA AlignUp ==
  ASSUME NEW v \in Word, NEW a \in Word \ {0}
  PROVE  /\ v + (a - 1) < Modulus =>
              /\ align_up(v, a) \in v .. (v + (a - 1))
              /\ align_up(v, a) % a = 0
         /\ v + (a - 1) >= Modulus => align_up(v, a) = 0
<1> DEFINE s == (v + (a - 1)) % Modulus
<1>0. Modulus \in Nat \ {0} /\ v \in 0 .. (Modulus - 1) /\ a \in 1 .. (Modulus - 1)
  BY WidthAssumption, SMT DEF Word
<1>1. align_up(v, a) = s - (s % a)
  BY DEF align_up
<1>2. v + (a - 1) < Modulus => s = v + (a - 1)
  BY <1>0, SMT
<1>3. ASSUME v + (a - 1) >= Modulus PROVE s = v + (a - 1) - Modulus
  <2>1. v + (a - 1) \in Modulus .. (2 * Modulus - 1) /\ v + (a - 1) \in Int
    BY <1>0, <1>3, SMT
  <2>2. (v + (a - 1)) % Modulus = (v + (a - 1)) - Modulus
    BY <1>0, <2>1, ModWrap
  <2> QED BY <1>0, <2>2, SMT
<1>4. s \in Nat
  BY <1>0, ModRange, SMT
<1>5. s % a \in 0 .. (a - 1) /\ (s \in 0 .. (a - 1) => s % a = s)
  <2>1. s \in Int /\ a \in Nat \ {0}
    BY <1>0, <1>4, SMT
  <2> HIDE DEF s
  <2> QED BY <2>1, ModRange
<1>6. (s - (s % a)) % a = 0
  BY <1>0, <1>4, ModDown, SMT
<1> HIDE DEF s
<1>7. v + (a - 1) < Modulus => align_up(v, a) \in v .. (v + (a - 1))
  BY <1>0, <1>1, <1>2, <1>4, <1>5, SMT
<1>8. v + (a - 1) >= Modulus => align_up(v, a) = 0
  BY <1>0, <1>1, <1>3, <1>4, <1>5, SMT
<1> QED BY <1>1, <1>6, <1>7, <1>8

\* What a request that is not exhausted gets: the offset lies at or above the
\* bump pointer, the block ends within the slab, no sum wraps, and the
\* absolute address is aligned.
LEMMA BumpPlace ==
  ASSUME base \in Word \ {Null}, capacity \in Word, used \in Word,
         used <= capacity, base + capacity <= Modulus,
         NEW size \in Word \ {0}, NEW align \in Word \ {0},
         ~ Exhausted(size, align)
  PROVE  /\ AlignedUsed(align) \in used .. capacity
         /\ AlignedUsed(align) + size <= capacity
         /\ base + AlignedUsed(align) < Modulus
         /\ (base + AlignedUsed(align)) % align = 0
         /\ base + AlignedUsed(align) <= base + used + (align - 1)
<1> DEFINE v == (base + used) % Modulus
           r == align_up(v, align)
           u == AlignedUsed(align)
<1>0. /\ Modulus \in Nat \ {0} /\ base \in 1 .. (Modulus - 1)
      /\ size \in 1 .. (Modulus - 1) /\ align \in 1 .. (Modulus - 1)
      /\ capacity \in Nat /\ used \in Nat
  BY WidthAssumption, SMT DEF Word, Null
<1>1. v \in Word
  <2>1. base + used \in Int
    BY <1>0, SMT
  <2>2. Modulus \in Nat \ {0}
    BY <1>0
  <2>3. v \in 0 .. (Modulus - 1)
    BY ONLY <2>1, <2>2, ModRange, ZenonT(30)
  <2> QED BY <2>3 DEF Word
<1>2. u = (r - base) % Modulus
  BY DEF AlignedUsed
<1>3. u <= capacity /\ size <= (capacity - u) % Modulus
  <2>1. u \in Int
    <3>1. r \in Int
      BY <1>0, <1>1, AlignUp, SMT DEF Word
    <3> QED BY <1>0, <1>2, <3>1, SMT
  <2>2. (capacity - u) % Modulus \in Int
    BY <1>0, <2>1, ModRange, SMT
  <2> QED BY <1>0, <2>1, <2>2, SMT DEF Exhausted
<1>4. ASSUME r = 0 PROVE FALSE
  <2>1. u = Modulus - base
    BY <1>0, <1>2, <1>4, ModWrap, SMT
  <2>2. capacity - u = 0
    BY <1>0, <1>3, <2>1, SMT
  <2>3. (capacity - u) % Modulus = 0
    BY <1>0, <2>2, ModRange, SMT
  <2> QED BY <1>0, <1>3, <2>3, SMT
<1>5. v = base + used
  <2>1. CASE base + used < Modulus
    <3>1. base + used \in 0 .. (Modulus - 1) /\ base + used \in Int
      BY <1>0, <2>1, SMT
    <3> QED BY <1>0, <3>1, ModRange
  <2>2. CASE base + used >= Modulus
    <3>1. v = 0
      BY <1>0, <2>2, ModWrap, SMT
    <3>2. v + (align - 1) < Modulus /\ v \in Word
      BY <1>0, <1>1, <3>1, SMT
    <3>3. r \in v .. (v + (align - 1)) /\ r % align = 0
      BY <3>2, AlignUp
    <3>4. r = 0
      BY <1>0, <3>1, <3>3, SMT
    <3> QED BY <3>4, <1>4
  <2> QED BY <1>0, <2>1, <2>2, SMT
<1>6. v + (align - 1) < Modulus
  BY <1>0, <1>1, <1>4, AlignUp, SMT DEF Word
<1>7. r \in v .. (v + (align - 1)) /\ r % align = 0
  BY <1>1, <1>6, AlignUp
<1>8. u = r - base
  <2>1. r - base \in 0 .. (Modulus - 1) /\ r - base \in Int
    BY <1>0, <1>5, <1>6, <1>7, SMT
  <2> QED BY <1>0, <1>2, <2>1, ModRange
<1>9. size <= capacity - u
  <2>1. capacity - u \in 0 .. (Modulus - 1)
    BY <1>0, <1>3, <1>5, <1>7, <1>8, SMT DEF Word
  <2> QED BY <1>0, <1>3, <2>1, ModRange, SMT
<1>10. base + u = r
  BY <1>0, <1>5, <1>7, <1>8, SMT
<1> QED
  BY <1>0, <1>3, <1>5, <1>6, <1>7, <1>8, <1>9, <1>10, SMT

\* It is the lowest aligned address at or above the bump pointer.
LEMMA BumpLowest ==
  ASSUME base \in Word \ {Null}, capacity \in Word, used \in Word,
         used <= capacity, base + capacity <= Modulus,
         NEW size \in Word \ {0}, NEW align \in Word \ {0},
         ~ Exhausted(size, align),
         NEW x \in Nat, base + used <= x, x % align = 0
  PROVE  base + AlignedUsed(align) <= x
<1> DEFINE r == base + AlignedUsed(align)
<1>1. base \in Nat /\ used \in Nat /\ capacity \in Nat /\ align \in Nat \ {0}
  BY WidthAssumption, SMT DEF Word
<1>2. /\ AlignedUsed(align) \in used .. capacity
      /\ r % align = 0 /\ r <= base + used + (align - 1)
  BY BumpPlace
<1>3. r \in Nat
  BY <1>1, <1>2, SMT
<1> HIDE DEF r
<1>4. ASSUME x < r PROVE FALSE
  <2>1. x + align <= r
    BY <1>1, <1>2, <1>3, <1>4, MultiplesApart
  <2> QED BY <1>1, <1>2, <1>3, <2>1, SMT
<1>5. r <= x
  BY <1>3, <1>4, SMT
<1> QED BY <1>5 DEF r

\* A request for which an aligned place is left is not reported exhausted: the
\* wrap-around arithmetic never hides room that is there.
LEMMA RoomIsFound ==
  ASSUME base \in Word \ {Null}, capacity \in Word, used \in Word,
         used <= capacity, base + capacity <= Modulus,
         NEW size \in Word \ {0}, NEW align \in Word \ {0}, Modulus % align = 0,
         NEW x \in Nat, base + used <= x, x + size <= base + capacity, x % align = 0
  PROVE  ~ Exhausted(size, align)
<1> DEFINE v == (base + used) % Modulus
           r == align_up(v, align)
<1>0. /\ Modulus \in Nat \ {0} /\ base \in 1 .. (Modulus - 1)
      /\ size \in 1 .. (Modulus - 1) /\ align \in 1 .. (Modulus - 1)
      /\ capacity \in 0 .. (Modulus - 1) /\ used \in Nat
  BY WidthAssumption, SMT DEF Word, Null
<1>1. v = base + used /\ v \in Word
  <2>1. base + used \in 0 .. (Modulus - 1) /\ base + used \in Int
    BY <1>0, SMT
  <2>2. (base + used) % Modulus = base + used
    BY <1>0, <2>1, ModRange
  <2> QED BY <2>1, <2>2 DEF Word
\* x lies a whole alignment below the end, which is a multiple itself.
<1>2. x + align <= Modulus
  <2>1. x < Modulus /\ align \in Nat \ {0} /\ Modulus \in Nat
    BY <1>0, SMT
  <2> QED BY <2>1, MultiplesApart
<1> HIDE DEF v
<1>3. v + (align - 1) < Modulus
  BY <1>0, <1>1, <1>2, SMT
<1>4. r \in v .. (v + (align - 1)) /\ r % align = 0
  BY <1>1, <1>3, AlignUp
<1>5. AlignedUsed(align) = (r - base) % Modulus
  BY DEF AlignedUsed, v
<1> HIDE DEF r
<1>6. r \in Nat /\ v \in Nat
  BY <1>0, <1>1, <1>4, SMT
<1>7. r <= x
  <2>1. ASSUME x < r PROVE FALSE
    <3>1. x + align <= r
      BY <1>0, <1>4, <1>6, <2>1, MultiplesApart
    <3> QED BY <1>0, <1>1, <1>4, <1>6, <3>1, SMT
  <2> QED BY <1>6, <2>1, SMT
<1>8. r - base \in 0 .. (Modulus - 1) /\ r - base \in Int /\ r - base <= capacity - size
  BY <1>0, <1>1, <1>4, <1>6, <1>7, SMT
<1>9. AlignedUsed(align) = r - base
  BY <1>0, <1>5, <1>8, ModRange
<1>10. /\ capacity - AlignedUsed(align) \in Int
       /\ capacity - AlignedUsed(align) \in 0 .. (Modulus - 1)
       /\ AlignedUsed(align) <= capacity /\ size <= capacity - AlignedUsed(align)
  BY <1>0, <1>8, <1>9, SMT
<1>11. (capacity - AlignedUsed(align)) % Modulus = capacity - AlignedUsed(align)
  BY <1>0, <1>10, ModRange
<1>12. ~ (AlignedUsed(align) > capacity)
  BY <1>0, <1>8, <1>9, <1>10, SMT
<1>13. ~ (size > (capacity - AlignedUsed(align)) % Modulus)
  BY <1>0, <1>10, <1>11, SMT
<1> QED BY <1>12, <1>13 DEF Exhausted

(***************************************************************************)
(* The invariant.                                                          *)
(***************************************************************************)

\* The inductive invariant: the properties TLC checks need each other (a
\* restore keeps blocks inside the slab because of CheckpointsCut, a saved
\* checkpoint cuts because of BlocksInSlab) and nothing more.
IInv ==
  /\ TypeOK
  /\ BlocksInSlab
  /\ BlocksAligned
  /\ BlocksDisjoint
  /\ CheckpointsCut

\* A power of two that passes is_power_of_two is a word, not zero, and divides
\* the size of the address space.
LEMMA AlignIsWord ==
  ASSUME NEW x, is_power_of_two(x)
  PROVE  x \in Word \ {0} /\ Modulus % x = 0
<1>1. PICK k \in 0 .. (Width - 1) : x = 2^k
  BY DEF is_power_of_two
<1>2. x \in 1 .. (Modulus - 1) /\ Modulus % x = 0
  BY <1>1, WidthAssumption
<1> QED BY <1>2, WidthAssumption, SMT DEF Word

\* jx_arena_available does not wrap exactly when used <= capacity.
LEMMA AvailableExact ==
  ASSUME NEW c \in Word, NEW u \in Word
  PROVE  u + ((c - u) % Modulus) = c <=> u <= c
<1>1. Modulus \in Nat \ {0} /\ c \in 0 .. (Modulus - 1) /\ u \in 0 .. (Modulus - 1)
  BY WidthAssumption, SMT DEF Word
<1>2. CASE u <= c
  <2>1. c - u \in 0 .. (Modulus - 1) /\ c - u \in Int
    BY <1>1, <1>2, SMT
  <2>2. (c - u) % Modulus = c - u
    BY <1>1, <2>1, ModRange
  <2> QED BY <1>1, <1>2, <2>2, SMT
<1>3. CASE ~ (u <= c)
  <2>1. c - u \in (-Modulus) .. (-1) /\ c - u \in Int
    BY <1>1, <1>3, SMT
  <2>2. (c - u) % Modulus = (c - u) + Modulus
    BY <1>1, <2>1, ModWrap
  <2> QED BY <1>1, <1>3, <2>2, SMT
<1> QED BY <1>2, <1>3

\* The invariant holds before jx_arena_init.
LEMMA InitIInv == Init => IInv
<1> SUFFICES ASSUME Init PROVE IInv
  OBVIOUS
<1> USE DEF Init
<1>1. Modulus \in Nat \ {0} /\ 0 \in Word
  BY WidthAssumption, SMT DEF Word
<1>2. TypeOK
  BY <1>1 DEF TypeOK, Call, Null
<1>3. BlocksInSlab
  <2>1. used + Available = capacity
    BY <1>1, AvailableExact DEF Available
  <2> QED BY <1>1, <2>1, SMT DEF BlocksInSlab, Null
<1>4. BlocksAligned /\ BlocksDisjoint /\ CheckpointsCut
  BY DEF BlocksAligned, BlocksDisjoint, CheckpointsCut
<1> QED BY <1>2, <1>3, <1>4 DEF IInv

\* An allocation that succeeds, with the wrap-around gone from its effect.
LEMMA AllocEffect ==
  ASSUME IInv, NEW size \in Word, NEW align \in Word, AllocAligned(size, align),
         size # 0, is_power_of_two(align), ~ Exhausted(size, align)
  PROVE  \E addr \in Word \ {0} :
           /\ addr % align = 0
           /\ base + used <= addr
           /\ \A x \in Nat : base + used <= x /\ x % align = 0 => addr <= x
           /\ addr + size <= base + capacity
           /\ used' \in Word /\ base + used' = addr + size
           /\ live' = live \union {[addr |-> addr, size |-> size, align |-> align]}
           /\ call' = [op |-> "alloc", size |-> size, align |-> align, ret |-> addr]
           /\ UNCHANGED <<base, capacity, saved>>
<1> DEFINE u == AlignedUsed(align)
<1>1. /\ base \in Word \ {Null} /\ capacity \in Word /\ used \in Word
      /\ size \in Word \ {0} /\ align \in Word \ {0}
      /\ used + Available = capacity /\ base + capacity <= Modulus
  BY AlignIsWord DEF IInv, TypeOK, BlocksInSlab, AllocAligned
<1>2. used <= capacity
  BY <1>1, AvailableExact DEF Available
<1>3. /\ u \in used .. capacity
      /\ u + size <= capacity
      /\ base + u < Modulus
      /\ (base + u) % align = 0
  BY <1>1, <1>2, BumpPlace
<1>4. /\ Modulus \in Nat \ {0} /\ base \in 1 .. (Modulus - 1) /\ used \in Nat
      /\ capacity \in 0 .. (Modulus - 1) /\ size \in 1 .. (Modulus - 1)
  BY <1>1, WidthAssumption, SMT DEF Word, Null
<1> HIDE DEF u
<1>5. /\ base + u \in Int /\ base + u \in 0 .. (Modulus - 1)
      /\ u + size \in Int /\ u + size \in 0 .. (Modulus - 1)
  BY <1>3, <1>4, SMT
<1>6. (base + u) % Modulus = base + u /\ (u + size) % Modulus = u + size
  BY <1>4, <1>5, ModRange
<1>7. /\ used' = u + size
      /\ live' = live \union {[addr |-> base + u, size |-> size, align |-> align]}
      /\ call' = [op |-> "alloc", size |-> size, align |-> align, ret |-> base + u]
      /\ UNCHANGED <<base, capacity, saved>>
  BY <1>6 DEF AllocAligned, Report, u
<1>8. /\ base + u \in Word \ {0} /\ base + used <= base + u
      /\ (base + u) + size <= base + capacity
      /\ u + size \in Word /\ base + (u + size) = (base + u) + size
  BY <1>3, <1>4, <1>5, SMT DEF Word
<1>9. \A x \in Nat : base + used <= x /\ x % align = 0 => base + u <= x
  BY <1>1, <1>2, BumpLowest DEF u
<1> QED BY <1>3, <1>7, <1>8, <1>9

\* Where a block that starts at or above the bump pointer leaves it.
LEMMA BumpMoves ==
  ASSUME NEW b \in Nat, NEW c \in Nat, NEW u \in Nat, NEW v \in Nat,
         NEW a \in Nat, NEW n \in Nat, n > 0,
         b + u <= a, a + n <= b + c, b + v = a + n
  PROVE  u <= v /\ v <= c /\ b <= a
BY SMT

\* jx_arena_alloc_aligned keeps the invariant.
LEMMA AllocIInv ==
  ASSUME IInv, NEW size \in Word, NEW align \in Word, AllocAligned(size, align)
  PROVE  IInv'
<1>1. CASE size = 0 \/ ~ is_power_of_two(align) \/ Exhausted(size, align)
  <2>1. /\ UNCHANGED <<base, capacity, used, live, saved>>
        /\ call' = [op |-> "alloc", size |-> size, align |-> align, ret |-> Null]
    BY <1>1 DEF AllocAligned, Report
  <2>2. Null \in Word
    BY WidthAssumption, SMT DEF Word, Null
  <2>3. TypeOK'
    BY <2>1, <2>2 DEF IInv, TypeOK, Call
  <2>4. /\ BlocksInSlab' /\ BlocksAligned' /\ BlocksDisjoint' /\ CheckpointsCut'
    BY <2>1 DEF IInv, BlocksInSlab, BlocksAligned, BlocksDisjoint, CheckpointsCut, Available, End
  <2> QED BY <2>3, <2>4 DEF IInv
<1>2. CASE ~ (size = 0 \/ ~ is_power_of_two(align) \/ Exhausted(size, align))
  <2>1. PICK addr \in Word \ {0} :
          /\ addr % align = 0
          /\ base + used <= addr
          /\ addr + size <= base + capacity
          /\ used' \in Word /\ base + used' = addr + size
          /\ live' = live \union {[addr |-> addr, size |-> size, align |-> align]}
          /\ call' = [op |-> "alloc", size |-> size, align |-> align, ret |-> addr]
          /\ UNCHANGED <<base, capacity, saved>>
    BY <1>2, AllocEffect
  <2> DEFINE new == [addr |-> addr, size |-> size, align |-> align]
  <2>2. new \in Block /\ new.addr = addr /\ new.size = size /\ new.align = align
    BY DEF Block
  <2>3. /\ base \in Nat /\ capacity \in Nat /\ used \in Nat /\ used' \in Nat
        /\ size \in Nat /\ size > 0 /\ addr \in Nat
    BY <1>2, <2>1, WidthAssumption, SMT DEF IInv, TypeOK, Word
  <2>4. live' = live \union {new}
    BY <2>1
  <2>11. /\ used <= used' /\ used' <= capacity
         /\ base + used <= addr /\ addr + size = base + used' /\ base <= addr
    <3>1. base + used <= addr /\ addr + size <= base + capacity /\ base + used' = addr + size
      BY <2>1
    <3>2. used <= used' /\ used' <= capacity /\ base <= addr
      BY <2>3, <3>1, BumpMoves
    <3> QED BY <3>1, <3>2
  <2>12. base' = base /\ capacity' = capacity /\ saved' = saved
    BY <2>1
  <2> HIDE DEF new
  <2>5. \A b \in live : /\ b.addr \in Nat /\ b.size \in Nat
                        /\ b.size > 0 /\ base <= b.addr /\ b.addr + b.size <= base + used
    BY WidthAssumption, SMT DEF IInv, TypeOK, BlocksInSlab, End, Block, Word
  <2>6. TypeOK'
    BY <2>1, <2>2, <2>4 DEF IInv, TypeOK, Call
  <2>7. BlocksInSlab'
    <3>1. used' <= capacity' /\ capacity' \in Word /\ used' \in Word
      BY <2>1, <2>11, <2>12 DEF IInv, TypeOK
    <3>2. used' + Available' = capacity'
      BY <3>1, AvailableExact DEF Available
    <3>3. \A b \in live' : b.size > 0 /\ base <= b.addr /\ b.addr + b.size <= base + used'
      <4>1. \A b \in live : b.addr + b.size <= base + used'
        BY <2>3, <2>5, <2>11, SMT
      <4>2. new.size > 0 /\ base <= new.addr /\ new.addr + new.size <= base + used'
        <5>1. addr + size <= base + used'
          <6>1. addr + size \in Int
            BY <2>3, SMT
          <6>2. addr + size <= addr + size
            BY <6>1, SMT
          <6> QED BY <6>2, <2>11
        <5> QED BY <2>2, <2>3, <2>11, <5>1
      <4> QED BY <2>4, <2>5, <4>1, <4>2
    <3> QED BY <2>12, <3>2, <3>3 DEF IInv, BlocksInSlab, End
  <2>8. BlocksAligned'
    BY <2>1, <2>2, <2>4 DEF IInv, BlocksAligned
  <2>9. BlocksDisjoint'
    <3>1. \A b \in live : b.addr + b.size <= new.addr
      BY <2>1, <2>2, <2>3, <2>5, SMT
    <3> QED BY <2>4, <3>1 DEF IInv, BlocksDisjoint, End
  <2>10. CheckpointsCut'
    <3>1. \A s \in saved : s.mark \in Nat /\ s.mark <= used
      BY WidthAssumption, SMT DEF IInv, TypeOK, CheckpointsCut, Checkpoint, Word
    <3>2. \A s \in saved : s.mark <= used' /\ base + s.mark <= new.addr
      BY <2>2, <2>3, <2>11, <3>1, SMT
    <3> QED BY <2>1, <2>4, <3>2 DEF IInv, CheckpointsCut, End
  <2> QED BY <2>6, <2>7, <2>8, <2>9, <2>10 DEF IInv
<1> QED BY <1>1, <1>2

\* jx_arena_init keeps it, also over an arena in use.
LEMMA InitArenaIInv ==
  ASSUME IInv, NEW b \in Word, NEW c \in Word, InitArena(b, c)
  PROVE  IInv'
<1>0. {0, 1} \subseteq Word
  BY WidthAssumption, SMT DEF Word
<1>1. CASE b = Null \/ c = 0
  <2>1. /\ UNCHANGED <<base, capacity, used, live, saved>>
        /\ call' = [op |-> "init", size |-> c, align |-> 0, ret |-> 1]
    BY <1>1 DEF InitArena, Report
  <2> QED
    BY <1>0, <2>1 DEF IInv, TypeOK, Call, BlocksInSlab, BlocksAligned, BlocksDisjoint,
                      CheckpointsCut, Available, End
<1>2. CASE ~ (b = Null \/ c = 0)
  <2>1. /\ base' = b /\ capacity' = c /\ used' = 0 /\ live' = {} /\ saved' = {}
        /\ call' = [op |-> "init", size |-> c, align |-> 0, ret |-> 0]
        /\ b + c <= Modulus
    BY <1>2 DEF InitArena, Report, SlabExists
  <2>2. used' + Available' = capacity'
    <3>1. 0 <= c
      BY WidthAssumption, SMT DEF Word
    <3> QED BY <1>0, <2>1, <3>1, AvailableExact DEF Available
  <2>3. TypeOK' /\ BlocksInSlab' /\ BlocksAligned' /\ BlocksDisjoint' /\ CheckpointsCut'
    BY <1>0, <2>1, <2>2 DEF TypeOK, Call, BlocksInSlab, BlocksAligned, BlocksDisjoint,
                            CheckpointsCut
  <2> QED BY <2>3 DEF IInv
<1> QED BY <1>1, <1>2

\* jx_arena_reset keeps it.
LEMMA ResetIInv ==
  ASSUME IInv, Reset
  PROVE  IInv'
<1>0. 0 \in Word
  BY WidthAssumption, SMT DEF Word
<1>1. /\ used' = 0 /\ live' = {} /\ saved' = {} /\ UNCHANGED <<base, capacity>>
      /\ call' = [op |-> "reset", size |-> 0, align |-> 0, ret |-> 0]
  BY DEF Reset, Report
<1>2. used' + Available' = capacity'
  <2>1. 0 <= capacity /\ capacity \in Word
    BY WidthAssumption, SMT DEF IInv, TypeOK, Word
  <2> QED BY <1>0, <1>1, <2>1, AvailableExact DEF Available
<1> QED
  BY <1>0, <1>1, <1>2 DEF IInv, TypeOK, Call, BlocksInSlab, BlocksAligned, BlocksDisjoint,
                          CheckpointsCut

\* Saving a checkpoint keeps it.
LEMMA SaveIInv ==
  ASSUME IInv, Save
  PROVE  IInv'
<1> DEFINE new == [mark |-> used, kept |-> live]
<1>0. 0 \in Word
  BY WidthAssumption, SMT DEF Word
<1>1. /\ saved' = saved \union {new} /\ UNCHANGED <<base, capacity, used, live>>
      /\ call' = [op |-> "save", size |-> 0, align |-> 0, ret |-> 0]
  BY DEF Save, Report
<1>2. new \in Checkpoint /\ new.mark = used /\ new.kept = live
  BY DEF IInv, TypeOK, Checkpoint
<1>3. used <= used
  BY WidthAssumption, SMT DEF IInv, TypeOK, Word
<1> HIDE DEF new
<1>4. TypeOK'
  BY <1>0, <1>1, <1>2 DEF IInv, TypeOK, Call
<1>5. BlocksInSlab' /\ BlocksAligned' /\ BlocksDisjoint'
  BY <1>1 DEF IInv, BlocksInSlab, BlocksAligned, BlocksDisjoint, Available, End
<1>6. CheckpointsCut'
  BY <1>1, <1>2, <1>3 DEF IInv, CheckpointsCut, BlocksInSlab, End
<1> QED BY <1>4, <1>5, <1>6 DEF IInv

\* Writing a checkpoint back keeps it.
LEMMA RestoreIInv ==
  ASSUME IInv, NEW s \in saved, Restore(s)
  PROVE  IInv'
<1>0. 0 \in Word /\ Word \subseteq Nat
  BY WidthAssumption, SMT DEF Word
<1>1. /\ used' = s.mark /\ live' = s.kept /\ saved' = {t \in saved : t.mark <= s.mark}
      /\ UNCHANGED <<base, capacity>>
      /\ call' = [op |-> "restore", size |-> 0, align |-> 0, ret |-> 0]
  BY DEF Restore, Report
<1>2. /\ s.mark \in Word /\ s.kept \subseteq Block /\ s.mark <= used /\ s.kept \subseteq live
      /\ \A b \in s.kept : b.addr + b.size <= base + s.mark
      /\ \A b \in live \ s.kept : base + s.mark <= b.addr
  BY DEF IInv, TypeOK, Checkpoint, CheckpointsCut, End
<1>3. TypeOK'
  BY <1>0, <1>1, <1>2 DEF IInv, TypeOK, Call
<1>4. BlocksInSlab'
  <2>1. used \in Word /\ capacity \in Word /\ used <= capacity
    BY AvailableExact DEF IInv, TypeOK, BlocksInSlab, Available
  <2>2. s.mark <= capacity
    <3>1. s.mark \in Nat /\ used \in Nat /\ capacity \in Nat
      BY <1>0, <1>2, <2>1
    <3> QED BY <1>2, <2>1, <3>1, SMT
  <2>3. used' + Available' = capacity'
    BY <1>1, <1>2, <2>1, <2>2, AvailableExact DEF Available
  <2> QED BY <1>1, <1>2, <2>3 DEF IInv, BlocksInSlab, End
<1>5. BlocksAligned' /\ BlocksDisjoint'
  BY <1>1, <1>2 DEF IInv, BlocksAligned, BlocksDisjoint, End
<1>6. CheckpointsCut'
  \* Each remaining checkpoint is the same or an older one: its blocks end at
  \* or below s.mark, so none of them is among those the restore gives up.
  <2> SUFFICES ASSUME NEW t \in saved, t.mark <= s.mark
               PROVE  /\ t.kept \subseteq s.kept
                      /\ \A b \in t.kept : b.addr + b.size <= base + t.mark
                      /\ \A b \in s.kept \ t.kept : base + t.mark <= b.addr
    BY <1>1 DEF CheckpointsCut, End
  <2>1. /\ t.mark \in Word /\ t.kept \subseteq live
        /\ \A b \in t.kept : b.addr + b.size <= base + t.mark
        /\ \A b \in live \ t.kept : base + t.mark <= b.addr
    BY DEF IInv, TypeOK, Checkpoint, CheckpointsCut, End
  <2>2. ASSUME NEW b \in t.kept PROVE b \in s.kept
    <3>1. b \in live /\ b.addr \in Nat /\ b.size \in Nat /\ b.size > 0
      BY <1>0, <2>1, <2>2 DEF IInv, TypeOK, Block, BlocksInSlab
    <3>2. b.addr + b.size <= base + t.mark /\ base \in Nat /\ t.mark \in Nat /\ s.mark \in Nat
      BY <1>0, <1>2, <2>1, <2>2 DEF IInv, TypeOK
    <3>3. ~ (base + s.mark <= b.addr)
      BY <3>1, <3>2, SMT
    <3> QED BY <1>2, <3>1, <3>3
  <2> QED BY <1>2, <2>1, <2>2
<1> QED BY <1>3, <1>4, <1>5, <1>6 DEF IInv

\* A step that leaves the arena alone keeps it.
LEMMA StutterIInv ==
  ASSUME IInv, UNCHANGED vars
  PROVE  IInv'
BY DEF IInv, vars, TypeOK, BlocksInSlab, BlocksAligned, BlocksDisjoint, CheckpointsCut,
       Available, End

\* Every step keeps it: IInv is inductive.
LEMMA NextIInv == IInv /\ [Next]_vars => IInv'
<1> SUFFICES ASSUME IInv, [Next]_vars PROVE IInv'
  OBVIOUS
<1>1. ASSUME NEW b \in Bases, NEW c \in Capacities, InitArena(b, c) PROVE IInv'
  BY <1>1, InitArenaIInv, RequestAssumption
<1>2. ASSUME NEW size \in Sizes, Alloc(size) PROVE IInv'
  BY <1>2, AllocIInv, RequestAssumption DEF Alloc
<1>3. ASSUME NEW size \in Sizes, NEW align \in Aligns, AllocAligned(size, align) PROVE IInv'
  BY <1>3, AllocIInv, RequestAssumption
<1>4. CASE Reset
  BY <1>4, ResetIInv
<1>5. CASE Save
  BY <1>5, SaveIInv
<1>6. ASSUME NEW s \in saved, Restore(s) PROVE IInv'
  BY <1>6, RestoreIInv
<1>7. CASE UNCHANGED vars
  BY <1>7, StutterIInv
<1> QED BY <1>1, <1>2, <1>3, <1>4, <1>5, <1>6, <1>7 DEF Next

(***************************************************************************)
(* Theorems.                                                               *)
(***************************************************************************)

\* What a request answers in plain arithmetic: FirstFit for one call.
FirstFitStep ==
  call'.op = "alloc" =>
    LET possible == IF call'.size = 0 \/ ~is_power_of_two(call'.align)
                    THEN {}
                    ELSE Fits(call'.size, call'.align)
    IN IF possible = {}
       THEN call'.ret = Null /\ UNCHANGED <<used, live>>
       ELSE /\ call'.ret \in possible
            /\ \A x \in possible : call'.ret <= x

\* jx_arena_alloc_aligned takes the lowest aligned place that is left.
LEMMA AllocFirstFit ==
  ASSUME IInv, NEW size \in Word, NEW align \in Word, AllocAligned(size, align)
  PROVE  FirstFitStep
<1>1. /\ base \in Word \ {Null} /\ capacity \in Word /\ used \in Word
      /\ used + Available = capacity /\ base + capacity <= Modulus
  BY DEF IInv, TypeOK, BlocksInSlab, AllocAligned
<1>2. used <= capacity
  BY <1>1, AvailableExact DEF Available
<1>3. base \in Nat /\ used \in Nat /\ capacity \in Nat /\ size \in Nat
  BY <1>1, WidthAssumption, SMT DEF Word
<1>4. CASE size = 0 \/ ~is_power_of_two(align)
  <2>1. call' = [op |-> "alloc", size |-> size, align |-> align, ret |-> Null]
        /\ UNCHANGED <<used, live>>
    BY <1>4 DEF AllocAligned, Report
  <2> QED BY <1>4, <2>1 DEF FirstFitStep
<1>5. CASE size # 0 /\ is_power_of_two(align) /\ Exhausted(size, align)
  <2>1. call' = [op |-> "alloc", size |-> size, align |-> align, ret |-> Null]
        /\ UNCHANGED <<used, live>>
    BY <1>5 DEF AllocAligned, Report
  <2>2. align \in Word \ {0} /\ Modulus % align = 0 /\ size \in Word \ {0}
    BY <1>5, AlignIsWord
  <2>3. ASSUME NEW x \in Fits(size, align) PROVE FALSE
    <3>1. x \in Nat /\ base + used <= x /\ x + size <= base + capacity /\ x % align = 0
      BY <1>3, SMT DEF Fits
    <3>2. ~ Exhausted(size, align)
      BY <1>1, <1>2, <2>2, <3>1, RoomIsFound
    <3> QED BY <1>5, <3>2
  <2>4. Fits(size, align) = {}
    BY <2>3
  <2> QED BY <1>5, <2>1, <2>4 DEF FirstFitStep
<1>6. CASE size # 0 /\ is_power_of_two(align) /\ ~ Exhausted(size, align)
  <2>1. PICK addr \in Word \ {0} :
          /\ addr % align = 0
          /\ base + used <= addr
          /\ \A x \in Nat : base + used <= x /\ x % align = 0 => addr <= x
          /\ addr + size <= base + capacity
          /\ call' = [op |-> "alloc", size |-> size, align |-> align, ret |-> addr]
    BY <1>6, AllocEffect
  <2>2. addr \in Nat
    BY WidthAssumption, SMT DEF Word
  <2>3. addr \in Fits(size, align)
    BY <1>3, <2>1, <2>2, SMT DEF Fits
  <2>4. \A x \in Fits(size, align) : x \in Nat /\ base + used <= x /\ x % align = 0
    BY <1>3, SMT DEF Fits
  <2>5. \A x \in Fits(size, align) : addr <= x
    BY <2>1, <2>4
  <2>6. call'.op = "alloc" /\ call'.size = size /\ call'.align = align /\ call'.ret = addr
    BY <2>1
  <2> HIDE DEF Fits
  <2> QED BY <1>6, <2>3, <2>5, <2>6 DEF FirstFitStep
<1> QED BY <1>4, <1>5, <1>6

\* No other operation reports an allocation.
LEMMA StepFirstFit == IInv /\ Next => FirstFitStep
<1> SUFFICES ASSUME IInv, Next PROVE FirstFitStep
  OBVIOUS
<1>1. ASSUME NEW b \in Bases, NEW c \in Capacities, InitArena(b, c) PROVE FirstFitStep
  BY <1>1 DEF InitArena, Report, FirstFitStep
<1>2. ASSUME NEW size \in Sizes, Alloc(size) PROVE FirstFitStep
  BY <1>2, AllocFirstFit, RequestAssumption DEF Alloc
<1>3. ASSUME NEW size \in Sizes, NEW align \in Aligns, AllocAligned(size, align)
      PROVE FirstFitStep
  BY <1>3, AllocFirstFit, RequestAssumption
<1>4. CASE Reset
  BY <1>4 DEF Reset, Report, FirstFitStep
<1>5. CASE Save
  BY <1>5 DEF Save, Report, FirstFitStep
<1>6. ASSUME NEW s \in saved, Restore(s) PROVE FirstFitStep
  BY <1>6 DEF Restore, Report, FirstFitStep
<1> QED BY <1>1, <1>2, <1>3, <1>4, <1>5, <1>6 DEF Next

\* IInv is an invariant of the specification.
LEMMA Invariance == Spec => []IInv
BY InitIInv, NextIInv, PTL DEF Spec

\* The arena's fields and the blocks it hands out are always machine words.
THEOREM TypeCorrect == Spec => []TypeOK
<1>1. IInv => TypeOK
  BY DEF IInv
<1> QED BY <1>1, Invariance, PTL

\* For every word width, slab, request sequence and checkpoint discipline,
\* what a client holds lies inside the slab and the bump pointer never leaves
\* it: jx_arena_alloc_aligned's overflow test suffices.
THEOREM ArenaInSlab == Spec => []BlocksInSlab
<1>1. IInv => BlocksInSlab
  BY DEF IInv
<1> QED BY <1>1, Invariance, PTL

\* Returned pointers satisfy the requested alignment as absolute addresses.
THEOREM ArenaAligned == Spec => []BlocksAligned
<1>1. IInv => BlocksAligned
  BY DEF IInv
<1> QED BY <1>1, Invariance, PTL

\* Two blocks a client holds never overlap.
THEOREM ArenaDisjoint == Spec => []BlocksDisjoint
<1>1. IInv => BlocksDisjoint
  BY DEF IInv
<1> QED BY <1>1, Invariance, PTL

\* Saving `used` and writing it back undoes exactly the allocations between.
THEOREM ArenaCheckpoints == Spec => []CheckpointsCut
<1>1. IInv => CheckpointsCut
  BY DEF IInv
<1> QED BY <1>1, Invariance, PTL

\* An allocation fails exactly when no aligned place is left, and otherwise
\* takes the lowest: NULL means exhaustion or an illegal request, whatever
\* wraps on the way (arena.h: "the only allocation failure mode").
THEOREM ArenaFirstFit == Spec => FirstFit
<1>1. IInv /\ [Next]_vars => [FirstFitStep]_vars
  BY StepFirstFit
<1>2. Spec => [][FirstFitStep]_vars
  BY <1>1, Invariance, PTL DEF Spec
<1> QED BY <1>2 DEF FirstFit, FirstFitStep
==============================================================================
