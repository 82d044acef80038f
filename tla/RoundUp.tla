------------------------------- MODULE RoundUp -------------------------------
(***************************************************************************)
(* The capacity and the mask hmapCreateFixed gives a map, in unsigned       *)
(* arithmetic of Width bits (hmap.c: 32).                                   *)
(***************************************************************************)
EXTENDS Integers

CONSTANTS
    Width,
    Shifts,     \* how many times roundup32bit shifts, by 1, 2, 4, ... (hmap.c: 5)
    Allocated   \* HM_MIN_CAPACITY, the buckets allocated whatever is asked for

Power[i \in 0 .. Width] == IF i = 0 THEN 1 ELSE 2 * Power[i - 1]

ASSUME RoundUpAssumption ==
    /\ Width \in Nat \ {0} /\ Allocated \in 1 .. Power[Width - 1]
    /\ Shifts \in 0 .. Width /\ Width <= Power[Shifts]

Unsigned == 0 .. Power[Width] - 1
Wrap(x) == x % Power[Width]

Bits(n) == {i \in 0 .. Width - 1 : (n \div Power[i]) % 2 = 1}

OfBits(bits) ==
    LET sum[i \in 0 .. Width] ==
            IF i = 0 THEN 0 ELSE sum[i - 1] + IF i - 1 \in bits THEN Power[i - 1] ELSE 0
    IN sum[Width]

\* num |= num >> shift
Smeared(bits, shift) == bits \union {i \in 0 .. Width - 1 : i + shift \in bits}

\* Mutant: num is not decremented first.
roundup32bitMutant(num) ==
    LET after[i \in 0 .. Shifts] ==
            IF i = 0 THEN Bits(num) ELSE Smeared(after[i - 1], Power[i - 1])
    IN Wrap(OfBits(after[Shifts]) + 1)

roundup32bit(num) ==
    LET after[i \in 0 .. Shifts] ==
            IF i = 0 THEN Bits(Wrap(num - 1)) ELSE Smeared(after[i - 1], Power[i - 1])
    IN Wrap(OfBits(after[Shifts]) + 1)

Mask(num) == Wrap(roundup32bit(num) - 1)

\* hash & hm->mask
Bucket(hash, mask) == OfBits(Bits(hash) \cap Bits(mask))

=============================================================================
