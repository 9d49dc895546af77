------------------------------ MODULE HostAlign ------------------------------
(* iree_host_align and iree_device_align (iree/base/alignment.h): round a  *)
(* value up to a power-of-two alignment with an add and a mask, in the     *)
(* unsigned width of iree_host_size_t or iree_device_size_t.  A call takes *)
(* one value and one alignment; result is what it returns, once returned.  *)
EXTENDS Integers, Bitwise

CONSTANTS Bits,        \* the width of the size type
          Values,      \* the values passed
          Alignments   \* the alignments passed

VARIABLES arg, returned, result

vars == <<arg, returned, result>>

Wrap(x) == x % (2 ^ Bits)

\* ~x of an unsigned of the width.
Complement(x) == 2 ^ Bits - 1 - Wrap(x)

\* A mask of ~alignment instead of ~(alignment - 1).
AlignMaskOffByOne(value, alignment) ==
    Wrap(value + Wrap(alignment - 1)) & Complement(alignment)

\* (value + (alignment - 1)) & ~(alignment - 1), every step in the width.
iree_host_align(value, alignment) ==
    Wrap(value + Wrap(alignment - 1)) & Complement(alignment - 1)

Init ==
    /\ arg \in [value : Values, alignment : Alignments]
    /\ returned = FALSE
    /\ result = 0

Align ==
    /\ ~returned
    /\ returned' = TRUE
    /\ result' = iree_host_align(arg.value, arg.alignment)
    /\ UNCHANGED arg

Next == Align

Spec == Init /\ [][Next]_vars

-----------------------------------------------------------------------------

TypeOK == returned \in BOOLEAN /\ result \in 0..(2 ^ Bits - 1)

\* The least multiple of the alignment at or above the value.
AlignUp(value, alignment) ==
    CHOOSE m \in value..(value + alignment - 1) : m % alignment = 0

IsPowerOfTwo(a) == \E k \in 0..Bits : a = 2 ^ k

(* iree_host_align "aligns |value| up to the given power-of-two            *)
(* |alignment|": for a power-of-two alignment, and a value whose aligned   *)
(* form fits in the width, it returns the least multiple of the alignment  *)
(* at or above the value.                                                  *)
AlignMatchesReference ==
    /\ returned
    /\ IsPowerOfTwo(arg.alignment)
    /\ AlignUp(arg.value, arg.alignment) < 2 ^ Bits
    => result = AlignUp(arg.value, arg.alignment)

(* Aligning a value up to a power of two never gives less than the value: *)
(* false within the last alignment - 1 values of the width, where the add  *)
(* wraps and the mask leaves 0.                                            *)
AlignNotBelowValue ==
    returned /\ IsPowerOfTwo(arg.alignment) => result >= arg.value
=============================================================================
