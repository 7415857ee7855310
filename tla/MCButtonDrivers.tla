---------------------------- MODULE MCButtonDrivers ----------------------------
(* Each of the drivers with two keys, a blocking and a non-blocking process; *)
(* or one key and one process, for the lost report.                         *)
EXTENDS ButtonDrivers
CONSTANTS b1, b2, p1, p2
TwoButtons  == <<b1, b2>>
TwoProcs    == {p1, p2}
OneButton   == <<b1>>
OneProc     == {p1}
OneNonBlock == {p2}
===============================================================================
