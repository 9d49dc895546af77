---------------------- MODULE MCLocalExecutableLayouts -----------------------
(* Two layouts and up to two layout slots, so an executable can hold both  *)
(* layouts, one layout, or the same layout twice.                          *)
EXTENDS LocalExecutableLayouts

CONSTANTS l1, l2

MCLayouts == {l1, l2}
=============================================================================
