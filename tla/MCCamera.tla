------------------------------ MODULE MCCamera ------------------------------
(* Camera on machine words of 18 bits and size fields of 8: a resolution     *)
(* prescaled by 4 and by 8, and one too wide for its field and 64 times      *)
(* lower than the sensor's.                                                  *)
EXTENDS Camera

TwoSizes   == {<<88, 50>>, <<404, 7>>}
SmallUint  == 2^18
SmallField == 2^8
===============================================================================
