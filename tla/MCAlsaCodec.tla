------------------------------ MODULE MCAlsaCodec ------------------------------
(* Instances of AlsaCodec: two callers, the ends of the volume scale and two  *)
(* values between them, two extended registers.                               *)
EXTENDS AlsaCodec, TLC

BothCodecs  == {"uda1341", "wm8976"}
SomeVolumes == { <<0, 63>>, <<22, 0>>, <<63, 21>> }
TwoExt      == { <<3, 21>>, <<8, 10>> }

CallerSymmetry == Permutations(Callers)

(* The rates that the DAIs of the codec and of the controller have in common. *)
DaiRates    == {8000, 11025, 16000, 22050, 32000, 44100, 48000}
===============================================================================
