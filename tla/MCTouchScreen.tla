--------------------------- MODULE MCTouchScreen ---------------------------
(* Three points: two within ERR_LIMIT of each other, one far away. *)
EXTENDS TouchScreen

NearAndFar == {<<0, 0>>, <<8, 3>>, <<40, 0>>}
============================================================================
