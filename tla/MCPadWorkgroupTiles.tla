------------------------- MODULE MCPadWorkgroupTiles ------------------------
(* Every M, N and K among 1, 3, 4 and 6: below the vector tile, between   *)
(* the vector and the workgroup tile, equal to the workgroup tile, and     *)
(* over it by a remainder, so both branches of getWorkgroupPaddedTileSize *)
(* and both kinds of tile (full and last) occur.  A 4 x 4 workgroup tile  *)
(* with vector tiles of 2 and 4, which divide it, and of 3, which does    *)
(* not.                                                                    *)
EXTENDS PadWorkgroupTiles

Dims == {1, 3, 4, 6}

MCProblems == Dims \X Dims \X Dims

MCConfigs == {[wg |-> <<4, 4>>, vec |-> <<v, v, v>>] : v \in {2, 3, 4}}

\* A problem over 2^24 whose padding the float rounding gets wrong.
MCLargeProblems == {<<16777217, 3, 3>>}
=============================================================================
