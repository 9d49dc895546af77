----------------------------- MODULE MCHostAlign -----------------------------
(* An 8-bit size type: every value, every power-of-two alignment of the     *)
(* width, and the two alignments that are not (0 and 3), whose results the *)
(* reference does not judge.                                               *)
EXTENDS HostAlign

MCBits == 8
MCValues == 0..(2 ^ MCBits - 1)
MCAlignments == {2 ^ k : k \in 0..(MCBits - 1)} \cup {0, 3}
=============================================================================
