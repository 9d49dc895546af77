------------------------------ MODULE MCVmValue ------------------------------
(* Inputs for the value constructors: the int32 extremes, an int64 beyond   *)
(* int32, and floats with and without a fraction, negative ones included,  *)
(* up to the largest float below 2^31.                                     *)
EXTENDS VmValue

MCI32Inputs == {-2147483647 - 1, -1, 0, 2147483647}
MCI64Inputs == {-2147483647 - 1, 2147483647}
MCF64Inputs == {[n |-> 3, d |-> 2], [n |-> -7, d |-> 4], Float(5)}
\* Floats without a fraction, 2^31 - 128 (the largest float below 2^31)
\* among them.
MCIntegralF32Inputs == {Float(-3), Float(0), Float(16777218), Float(2147483520)}
MCF32Inputs ==
    MCIntegralF32Inputs \cup {[n |-> 3, d |-> 2], [n |-> -1, d |-> 2]}
=============================================================================
