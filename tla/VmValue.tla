------------------------------- MODULE VmValue -------------------------------
(* The variant value of the VM (iree/vm/value.h): iree_vm_value_t is a      *)
(* type tag and a union of the primitive members, written by the           *)
(* iree_vm_value_make_* constructors and read by the iree_vm_value_get_*    *)
(* accessors.  A float is a record [n, d]: the dyadic n / d with d a power  *)
(* of two and n odd when d > 1, so every float of the inputs has one form.  *)
(* An integer is written [n, 1] the same way.                               *)
(* A value is the tag and the number its written member holds; made is the *)
(* type and the argument of the last constructor call, which the getter of *)
(* that type should give back.                                             *)
EXTENDS Integers

CONSTANTS I32Inputs, I64Inputs, F32Inputs, F64Inputs

VARIABLES value, made

vars == <<value, made>>

Float(n) == [n |-> n, d |-> 1]

\* The C conversion of a float to int32_t discards the fraction (rounds
\* toward zero).  Out of the int32_t range it is undefined; the inputs stay
\* in range.
TruncToInt32(f) ==
    IF f.n >= 0 THEN f.n \div f.d ELSE -((-f.n) \div f.d)

\* The conversion back of that int32_t to float: the truncation of a float
\* of the int32_t range is a float (below 2^24 it is an integer of at most
\* 24 bits, above it the float had no fraction), so this one is exact.
Int32ToFloat(i) == Float(i)

\* A zero-initialised iree_vm_value_t (IREE_VM_VALUE_TYPE_NONE).
Init ==
    /\ value = [type |-> "NONE", v |-> Float(0)]
    /\ made = [type |-> "NONE", arg |-> Float(0)]

iree_vm_value_make_i32(x) ==
    /\ value' = [type |-> "I32", v |-> Float(x)]
    /\ made' = [type |-> "I32", arg |-> Float(x)]

iree_vm_value_make_i64(x) ==
    /\ value' = [type |-> "I64", v |-> Float(x)]
    /\ made' = [type |-> "I64", arg |-> Float(x)]

\* The parameter of iree_vm_value_make_f32 is an int32_t: the float the
\* caller passes is converted to int32_t at the call, and the int32_t back
\* to float at the assignment to result.f32.
iree_vm_value_make_f32(x) ==
    /\ value' = [type |-> "F32", v |-> Int32ToFloat(TruncToInt32(x))]
    /\ made' = [type |-> "F32", arg |-> x]

iree_vm_value_make_f64(x) ==
    /\ value' = [type |-> "F64", v |-> x]
    /\ made' = [type |-> "F64", arg |-> x]

\* Each getter reads its own member, whatever the tag says; the properties
\* read only the member the last constructor wrote.
iree_vm_value_get(t) == value.v

Next ==
    \/ \E x \in I32Inputs : iree_vm_value_make_i32(x)
    \/ \E x \in I64Inputs : iree_vm_value_make_i64(x)
    \/ \E x \in F32Inputs : iree_vm_value_make_f32(x)
    \/ \E x \in F64Inputs : iree_vm_value_make_f64(x)

Spec == Init /\ [][Next]_vars

-----------------------------------------------------------------------------

TypeOK ==
    /\ value.type \in {"NONE", "I32", "I64", "F32", "F64"}
    /\ value.v \in [n : Int, d : Nat \ {0}]
    /\ value.type \in {"I32", "I64"} => value.v.d = 1
    /\ made.type = value.type

(* Round trip: the getter of the type a constructor made gives back the     *)
(* argument of that constructor: iree_vm_value_get_f32 of                   *)
(* iree_vm_value_make_f32(x) is x, and likewise for i32, i64 and f64.       *)
GetOfMakeRoundTrips ==
    made.type # "NONE" => iree_vm_value_get(made.type) = made.arg
=============================================================================
