---------------------------- MODULE MCAlsaPlayback ----------------------------
(* Instances of AlsaPlayback: buffers of two and three periods, written *)
(* until they wrap.                                                     *)
EXTENDS AlsaPlayback
SmallBuffers == {2, 3}
===============================================================================
