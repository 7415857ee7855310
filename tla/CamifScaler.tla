------------------------------ MODULE CamifScaler ------------------------------
(***************************************************************************)
(* The arithmetic of cmos_ov7740/cmos_ov7740_drv.c: the size of a frame,   *)
(* the DMA bursts of a line, and the two stages of the preview scaler.     *)
(***************************************************************************)
EXTENDS Integers

CONSTANT Uint    \* how many values an unsigned int has: 2^32

(* cmos_ov7740_vidioc_s_fmt_vid_cap: RGB24 takes 32 bits per pixel.  The     *)
(* products are taken in an unsigned int.                                    *)
Depth(format) == IF format = "RGB24" THEN 32 ELSE 16

Bytesperline(format, width) == ((width * Depth(format)) % Uint) \div 8

Sizeimage(format, width, height) == (height * Bytesperline(format, width)) % Uint

(* What is left of n for the last burst, a full one if nothing is. *)
LastBurst(n, burst) == IF n % burst = 0 THEN burst ELSE n % burst

\* Mutant: any line of a multiple of four words takes main bursts of 16.
CalculateBurstSize_Loose(hSize) ==
  LET words == hSize \div 4
  IN IF words % 4 = 0     THEN <<16, LastBurst(words, 8)>>
                          ELSE <<4, LastBurst(words, 4)>>

(* The main and the remaining burst, in words, of a line of hSize bytes. *)
CalculateBurstSize(hSize) ==
  LET words == hSize \div 4
  IN IF words % 16 \in {0, 4, 8} THEN <<16, LastBurst(words, 16)>>
     ELSE IF words % 8 \in {0, 4} THEN <<8, LastBurst(words, 8)>>
     ELSE <<4, LastBurst(words, 4)>>

Power2 == <<1, 2, 4, 8, 16, 32, 64>>

\* Mutant: 64 is another stage, and there is no early return.
camif_get_scaler_factor_Deep(src, dst, old) ==
  LET fits == { k \in 1 .. 6 : src >= Power2[k + 1] * dst }
      shift == CHOOSE k \in fits \cup {0} : \A l \in fits : l <= k
  IN [ratio |-> Power2[shift + 1], shift |-> shift]

(* The greatest of 32, 16, ... 1 by which src may be divided and still be   *)
(* no smaller than dst; 1 if there is none; old is kept from 64 on.         *)
camif_get_scaler_factor(src, dst, old) ==
  IF src >= 64 * dst THEN old
  ELSE LET fits == { k \in 1 .. 5 : src >= Power2[k + 1] * dst }
           shift == CHOOSE k \in fits \cup {0} : \A l \in fits : l <= k
       IN [ratio |-> Power2[shift + 1], shift |-> shift]

(* A division by zero yields 0 (the kernel's __div0). *)
Quotient(a, b) == IF b = 0 THEN 0 ELSE a \div b

(* cmos_ov7740_calculate_scaler_info, in one direction. *)
ScalerInfo(src, dst, old) ==
  LET pre == camif_get_scaler_factor(src, dst, old)
  IN [pre   |-> pre,
      width |-> Quotient(src, pre.ratio),
      main  |-> Quotient(src * 256, dst * Power2[pre.shift + 1]),
      up    |-> dst >= src]

(* A line of words is some main bursts and one remaining burst.             *)
Tiles(burst, words) ==
  /\ burst[2] \in 1 .. burst[1] /\ burst[2] <= words
  /\ (words - burst[2]) % burst[1] = 0

(* The main ratio of a picture less than 64 times smaller, for which the     *)
(* factor of the call before does not matter.                                *)
MainRatio(src, dst) == ScalerInfo(src, dst, [ratio |-> 1, shift |-> 0]).main

(* The prescaler does not shrink below dst, and what is left for the main   *)
(* scaler, in 1/256, is less than 2 and so fits its field of nine bits.     *)
FitsScaler(src, dst, pre) ==
  /\ dst <= src => pre.ratio * dst <= src
  /\ pre.ratio = Power2[pre.shift + 1]
  /\ src * 256 < 512 * pre.ratio * dst
===============================================================================
