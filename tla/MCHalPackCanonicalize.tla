----------------------- MODULE MCHalPackCanonicalize ------------------------
(* Up to four slices, two of them with the same lifetime so that the sort *)
(* meets equal keys, in every order, with every kind of base offset.       *)
EXTENDS HalPackCanonicalize

CONSTANTS s1, s2, s3, s4

MCSlices == {s1, s2, s3, s4}
MCLifetime == (s1 :> <<1, 2>>) @@ (s2 :> <<1, 2>>) @@ (s3 :> <<0, 3>>)
              @@ (s4 :> <<0, 1>>)

MCInitPacks ==
    {[id |-> 0, slices |-> sl, offset |-> o] :
        sl \in {q \in BoundedSeq(MCSlices, 4) : IsInjective(q)}, o \in Offsets}
=============================================================================
