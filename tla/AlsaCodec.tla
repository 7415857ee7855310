------------------------------- MODULE AlsaCodec -------------------------------
(***************************************************************************)
(* The control path of the sound card: the register writes of the codec    *)
(* drivers ALSA/codec/uda1341.c and wm8976.c, bit by bit over three GPIO   *)
(* lines, their register caches and volume controls, and the clock that    *)
(* hw_params of ALSA/platform/s3c2440_iis.c sets.  The chips are external: *)
(* a receiver that shifts in the data line when the clock rises.           *)
(*                                                                         *)
(* The core of the kernels this code builds for lets two applications into *)
(* a control's put at once, and the drivers have no lock.  What the bits   *)
(* of overlapping calls amount to is not modelled: the receiver and the    *)
(* lines are left anyhow, and nothing is claimed of a register until a     *)
(* call that is alone writes it again.                                     *)
(***************************************************************************)
EXTENDS Integers, Sequences

CONSTANTS
  Codecs,      \* the codecs considered, of "uda1341" and "wm8976"
  Callers,     \* the processes that use the controls
  Volumes,     \* the pairs of volumes they choose, within what info_vol allows
  ExtWrites,   \* <<register, value>>: writes of the uda1341's extended registers
  Rates,       \* the sample rates of streams
  PCLK         \* clk_get_rate of "pclk"

ASSUME CodecsAssumption  == Codecs \subseteq {"uda1341", "wm8976"}
ASSUME VolumesAssumption == Volumes \subseteq (0 .. 63) \X (0 .. 63)
ASSUME ExtAssumption     == ExtWrites \subseteq (3 .. 8) \X (0 .. 31)
ASSUME ClockAssumption   == Rates \subseteq Nat /\ PCLK \in Nat

VARIABLES
  codec,       \* which codec the card has
  cache,       \* reg_cache, one byte for each register
  \* the callers
  todo,        \* the register writes of a call that are left, <<reg, value>>
  script,      \* the line settings that are left of its first one; <<>> before it
  ready,       \* soc_probe has added the control
  \* the lines and the chip
  lines,       \* GPB 2 (mode or csb), 3 (dat) and 4 (clk)
  bits,        \* the bits shifted in
  sel, ext,    \* uda1341: the address byte received last, the extended address
  chip,        \* its registers
  \* the IIS controller
  iispsr, rate,   \* IISPSR and the rate it was set for; rate 0: not yet set
  \* history
  alone,       \* the call in progress has met no other
  settled,     \* the registers last written by a call that was alone
  wanted       \* the volumes last put by a call that was alone; <<>>: none

calls == <<todo, script, ready>>
wires == <<lines, bits, sel, ext, chip>>
iis   == <<iispsr, rate>>
past  == <<alone, settled, wanted>>
vars  == <<codec, cache, calls, wires, iis, past>>

Regs == 0 .. 57
EA   == 3 .. 8                \* UDA1341_EA000 .. UDA1341_EA110

(* The defaults that the core fills the cache with. *)
uda1341_reg == <<0, 64, 128, 4, 4, 4, 0, 0, 0, 0, 0, 131>>

Bit(x, i) == (x \div 2^i) % 2

TypeOK ==
  /\ codec \in Codecs
  /\ cache \in [Regs -> 0 .. 255]
  /\ \A c \in Callers : todo[c] \in Seq(Regs \X (0 .. 511))
  /\ \A c \in Callers : script[c] # <<>> => todo[c] # <<>>
  /\ ready \in BOOLEAN
  /\ lines \in [{"mode", "dat", "clk"} -> 0 .. 1]
  /\ bits \in Seq(0 .. 1) /\ Len(bits) <= 16
  /\ sel \in 0 .. 255 /\ ext \in 0 .. 31
  /\ chip \in [Regs -> 0 .. 511]
  /\ iispsr \in 0 .. 31 /\ rate \in Rates \cup {0}
  /\ settled \subseteq Regs /\ alone \in BOOLEAN

(***************************************************************************)
(* uda1341: the L3 bus.                                                    *)
(***************************************************************************)
set_mod(v) == <<"mode", v>>
set_dat(v) == <<"dat", v>>
set_clk(v) == <<"clk", v>>

(* Eight times: the clock falls, a bit is set, the clock rises. *)
sendbyte(byte) ==
  [k \in 1 .. 24 |-> CASE k % 3 = 1 -> set_clk(0)
                       [] k % 3 = 2 -> set_dat(Bit(byte, (k - 1) \div 3))
                       [] k % 3 = 0 -> set_clk(1)]

\* Mutant: the mode line is not raised before it falls.
l3_write_NoRaise(addr, data) ==
  <<set_clk(1), set_dat(1), set_mod(0)>> \o sendbyte(addr)
    \o <<set_mod(1)>> \o sendbyte(data) \o <<set_clk(1), set_dat(1), set_mod(1)>>

l3_write(addr, data) ==
  <<set_clk(1), set_dat(1), set_mod(1), set_mod(0)>> \o sendbyte(addr)
    \o <<set_mod(1)>> \o sendbyte(data) \o <<set_clk(1), set_dat(1), set_mod(1)>>

uda1341_reg_addr(reg) ==
  CASE reg \in 0 .. 2   -> 20
    [] reg \in EA       -> <<0, 1, 2, 4, 5, 6>>[reg - 2]
    [] reg = 9          -> 21
    [] reg \in 10 .. 11 -> 22

uda1341_data_bit(reg) == CASE reg = 1 -> 64 [] reg \in {2, 11} -> 128 [] OTHER -> 0

(* An extended register takes two writes, of its address and of its data.   *)
(* The values leave the bits that are OR-ed in clear.                       *)
uda1341_write_reg(reg, value) ==
  IF reg \in EA
  THEN l3_write(20, uda1341_reg_addr(reg) + 192) \o l3_write(20, value + 224)
  ELSE l3_write(uda1341_reg_addr(reg), value + uda1341_data_bit(reg))

(* Reset, 384 fs and DC filter; ADC and DAC on; full volume; not mute. *)
uda1341_init_regs == << <<10, 81>>, <<11, 3>>, <<0, 0>>, <<1, 0>>, <<2, 0>> >>

\* Mutant: the register takes the volume as it is.
uda1341_put_vol_Plain(v) == << <<0, v[1]>> >>

(* Register value 0 is the loudest. Of the two channels that                *)
(* uda1341_info_vol tells of, value[1] is not looked at here and is         *)
(* value[0] below.                                                          *)
uda1341_put_vol(v) == << <<0, 63 - v[1]>> >>

uda1341_get_vol == <<63 - cache[0], 63 - cache[0]>>

(***************************************************************************)
(* wm8976: three wires, 16 bits, latched when csb rises.                   *)
(***************************************************************************)
set_csb(v) == <<"mode", v>>

wm8976_write_reg(reg, value) ==
  LET val == reg * 512 + (value % 512)
  IN  <<set_csb(1), set_dat(1), set_clk(1)>>
        \o [k \in 1 .. 48 |-> CASE k % 3 = 1 -> set_clk(0)
                                [] k % 3 = 2 -> set_dat(Bit(val, 15 - (k - 1) \div 3))
                                [] k % 3 = 0 -> set_clk(1)]
        \o <<set_csb(0), set_csb(1), set_dat(1), set_clk(1)>>

wm8976_init_regs ==
  << <<0, 0>>, <<3, 111>>, <<1, 31>>, <<2, 389>>, <<6, 0>>, <<4, 16>>, <<43, 16>>,
     <<9, 80>>, <<13, 33>>, <<7, 1>> >>

(* Bit 8 makes the chip take the new volume. *)
wm8976_put_vol(v) == << <<52, 256 + v[1]>>, <<53, 256 + v[2]>> >>

wm8976_get_vol == <<cache[52] % 64, cache[53] % 64>>

(***************************************************************************)
(* The chips.                                                              *)
(***************************************************************************)
Value(b) == LET v[i \in 0 .. Len(b)] == IF i = 0 THEN 0 ELSE v[i - 1] + b[i] * 2^(i - 1)
            IN  v[Len(b)]                                    \* first bit lowest
Word(b)  == LET v[i \in 0 .. Len(b)] == IF i = 0 THEN 0 ELSE v[i - 1] * 2 + b[i]
            IN  v[Len(b)]                                    \* first bit highest

(* A byte in data mode goes where the address byte and its own upper bits  *)
(* say: <<register, value>>, or <<>> when it changes none.                 *)
UdaData(byte) ==
  CASE sel = 20 /\ byte < 64             -> <<0, byte>>
    [] sel = 20 /\ byte \in 64 .. 127    -> <<1, byte - 64>>
    [] sel = 20 /\ byte \in 128 .. 191   -> <<2, byte - 128>>
    [] sel = 20 /\ byte >= 224 /\ ext \in {0, 1, 2, 4, 5, 6} ->
         <<CHOOSE r \in EA : uda1341_reg_addr(r) = ext, byte - 224>>
    [] sel = 22 /\ byte < 128            -> <<10, byte>>
    [] sel = 22 /\ byte >= 128           -> <<11, byte - 128>>
    [] OTHER                             -> <<>>

(* A register write reaches the chip.  A reset forgets the others; of a     *)
(* register that nothing is claimed of the value is left out.               *)
Resets(w) ==
  \/ codec = "uda1341" /\ w[1] = 10 /\ Bit(w[2], 6) = 1
  \/ codec = "wm8976" /\ w[1] = 0

Take(w, c) ==
  /\ chip' = IF w = <<>> THEN chip
             ELSE [chip EXCEPT ![w[1]] = IF w[1] \in settled \cup {todo[c][1][1]} THEN w[2] ELSE 0]
  /\ settled' = IF w # <<>> /\ Resets(w) THEN {} ELSE settled

Quiet == UNCHANGED <<chip, settled>>

UdaSees(line, v, c) ==
  LET rises == line = "clk" /\ lines["clk"] = 0 /\ v = 1
      new   == Append(bits, lines["dat"])
      byte  == Value(new)
  IN  CASE line = "mode" /\ v # lines["mode"] -> bits' = <<>> /\ UNCHANGED <<sel, ext>> /\ Quiet
        [] rises /\ Len(new) < 8 -> bits' = new /\ UNCHANGED <<sel, ext>> /\ Quiet
        [] rises /\ Len(new) >= 8 /\ lines["mode"] = 0 ->
             bits' = <<>> /\ sel' = byte /\ UNCHANGED ext /\ Quiet
        [] rises /\ Len(new) >= 8 /\ lines["mode"] = 1 ->
             /\ bits' = <<>> /\ UNCHANGED sel
             /\ ext' = IF sel = 20 /\ byte \in 192 .. 223 THEN byte - 192 ELSE ext
             /\ Take(UdaData(byte), c)
        [] OTHER -> UNCHANGED <<bits, sel, ext>> /\ Quiet

WmSees(line, v, c) ==
  LET kept == IF Len(bits) = 16 THEN Tail(bits) ELSE bits
      word == Word(bits)
  IN  /\ UNCHANGED <<sel, ext>>
      /\ CASE line = "clk" /\ lines["clk"] = 0 /\ v = 1 ->
                bits' = Append(kept, lines["dat"]) /\ Quiet
           [] line = "mode" /\ lines["mode"] = 0 /\ v = 1 ->
                /\ UNCHANGED bits
                /\ Take(IF word \div 512 \in Regs THEN <<word \div 512, word % 512>> ELSE <<>>, c)
           [] OTHER -> UNCHANGED bits /\ Quiet

(***************************************************************************)
(* The calls.                                                              *)
(***************************************************************************)
Busy == { c \in Callers : todo[c] # <<>> }

Init ==
  /\ codec \in Codecs
  /\ cache = [r \in Regs |-> IF codec = "uda1341" /\ r < 12 THEN uda1341_reg[r + 1] ELSE 0]
  /\ chip = [r \in Regs |-> 0]
  /\ todo = [c \in Callers |-> <<>>] /\ script = [c \in Callers |-> <<>>]
  /\ ready = FALSE
  /\ lines \in [{"mode", "dat", "clk"} -> 0 .. 1]
  /\ bits = <<>> /\ sel = 0 /\ ext = 0
  /\ iispsr = 0 /\ rate = 0
  /\ alone = TRUE /\ settled = {} /\ wanted = <<>>

(* The lines are not followed while calls overlap (Garble). *)
Overlap ==
  /\ script' = [c \in Callers |-> IF script[c] = <<>> THEN <<>> ELSE <<Head(script[c])>>]
  /\ lines' = [l \in {"mode", "dat", "clk"} |-> 0] /\ bits' = <<>> /\ sel' = 0 /\ ext' = 0
  /\ chip' = [r \in Regs |-> 0] /\ settled' = {}

Enter(c, writes) ==
  /\ todo[c] = <<>> /\ todo' = [todo EXCEPT ![c] = writes]
  /\ alone' = (Busy = {})
  /\ IF Busy = {} THEN UNCHANGED <<script, wires, settled>> ELSE Overlap
  /\ UNCHANGED <<codec, cache, iis, ready>>

soc_probe(c) ==
  /\ ~ready /\ Busy = {}
  /\ Enter(c, IF codec = "uda1341" THEN uda1341_init_regs ELSE wm8976_init_regs)
  /\ UNCHANGED wanted

put_vol(c, v) ==
  /\ ready
  /\ Enter(c, IF codec = "uda1341" THEN uda1341_put_vol(v) ELSE wm8976_put_vol(v))
  /\ wanted' = IF Busy = {} THEN v ELSE <<>>

(* A write through the core's file codec_reg. *)
codec_reg(c, w) ==
  /\ ready /\ codec = "uda1341"
  /\ Enter(c, <<w>>)
  /\ wanted' = IF Busy = {} THEN wanted ELSE <<>>

Settings(w) ==
  IF codec = "uda1341" THEN uda1341_write_reg(w[1], w[2]) ELSE wm8976_write_reg(w[1], w[2])

\* Mutant: the cache keeps all nine bits.
SaveInCache_Wide(c) ==
  /\ todo[c] # <<>> /\ script[c] = <<>>
  /\ script' = [script EXCEPT ![c] = Settings(todo[c][1])]
  /\ cache' = [cache EXCEPT ![todo[c][1][1]] = todo[c][1][2]]
  /\ UNCHANGED <<codec, todo, ready, wires, iis, past>>

(* The value is saved in the cache, whose elements are bytes. *)
SaveInCache(c) ==
  /\ todo[c] # <<>> /\ script[c] = <<>>
  /\ script' = [script EXCEPT ![c] = Settings(todo[c][1])]
  /\ cache' = [cache EXCEPT ![todo[c][1][1]] = todo[c][1][2] % 256]
  /\ UNCHANGED <<codec, todo, ready, wires, iis, past>>

(* A write is over: the next one, or the return; the probe then adds the    *)
(* control.                                                                 *)
Done(c) ==
  /\ todo' = [todo EXCEPT ![c] = Tail(@)] /\ script' = [script EXCEPT ![c] = <<>>]
  /\ ready' = (ready \/ Len(todo[c]) = 1)

(* The next line is set, and the chip sees it. *)
SetLine(c) ==
  /\ Len(script[c]) > 1 /\ alone
  /\ LET s == script[c][1]
     IN  /\ lines' = [lines EXCEPT ![s[1]] = s[2]]
         /\ IF codec = "uda1341" THEN UdaSees(s[1], s[2], c) ELSE WmSees(s[1], s[2], c)
  /\ script' = [script EXCEPT ![c] = Tail(@)]
  /\ UNCHANGED <<codec, cache, todo, ready, iis, alone, wanted>>

(* The last setting raises a line that is up. *)
LastLine(c) ==
  /\ Len(script[c]) = 1 /\ alone
  /\ settled' = settled \cup {todo[c][1][1]}
  /\ Done(c)
  /\ UNCHANGED <<codec, cache, wires, iis, alone, wanted>>

(* The rest of a write during which others wrote. *)
Garble(c) ==
  /\ script[c] # <<>> /\ ~alone
  /\ lines' \in [{"mode", "dat", "clk"} -> 0 .. 1]
  /\ \E n \in {0, 7} : bits' = [i \in 1 .. n |-> 1]
  /\ sel' \in {20, 22} /\ ext' = 0
  /\ Done(c)
  /\ UNCHANGED <<codec, cache, chip, iis, past>>

(***************************************************************************)
(* hw_params of the IIS controller.                                        *)
(***************************************************************************)
Abs(a, b) == IF a > b THEN a - b ELSE b - a

Rate(pre) == (PCLK \div 384) \div (pre + 1)

(* The least distance found starts as 65535.  For the rates of the DAIs some *)
(* prescaler is closer, as long as PCLK is below 800 MHz.                    *)
ASSUME ReachAssumption == \A fs \in Rates : \E i \in 0 .. 31 : Abs(Rate(i), fs) < 65535

\* Mutant: the least distance is not remembered.
Prescaler_NoMin(fs) ==
  LET search[i \in 0 .. 32] ==
        IF i = 0 THEN [min |-> 65535, pre |-> 0]
        ELSE LET d == Abs(Rate(i - 1), fs)
                 least == search[i - 1]
             IN  IF d < least.min THEN [min |-> 65535, pre |-> i - 1] ELSE least
  IN  search[32].pre

(* All prescalers are tried, and a smaller distance replaces the least so far. *)
Prescaler(fs) ==
  LET search[i \in 0 .. 32] ==
        IF i = 0 THEN [min |-> 65535, pre |-> 0]
        ELSE LET d == Abs(Rate(i - 1), fs)
                 least == search[i - 1]
             IN  IF d < least.min THEN [min |-> d, pre |-> i - 1] ELSE least
  IN  search[32].pre

(* IISMOD is always set to 384 fs. *)
s3c2440_i2s_hw_params(fs) ==
  /\ ready /\ Busy = {}
  /\ rate' = fs /\ iispsr' = Prescaler(fs)
  /\ UNCHANGED <<codec, cache, calls, wires, past>>

Next ==
  \/ \E c \in Callers :
       \/ soc_probe(c) \/ SaveInCache(c) \/ SetLine(c) \/ LastLine(c) \/ Garble(c)
       \/ \E v \in Volumes : put_vol(c, v)
       \/ \E w \in ExtWrites : codec_reg(c, w)
  \/ \E fs \in Rates : s3c2440_i2s_hw_params(fs)

Spec == Init /\ [][Next]_vars

(***************************************************************************)
(* Properties.                                                             *)
(***************************************************************************)
Writing == { todo[c][1][1] : c \in Busy }

(* A register whose last writer was alone holds what the cache says, as     *)
(* far as the byte reaches: each write arrives, at its register and no      *)
(* other, from whatever state overlapping calls have left the lines and the *)
(* receiver in.                                                             *)
ChipFollowsCache == \A r \in settled \ Writing : chip[r] % 256 = cache[r]

(* Between calls, what the control shows and what the chip plays are the    *)
(* volumes that were put last. For the uda1341, whose uda1341_info_vol      *)
(* tells of two channels, that is the first one twice: the second value put *)
(* is lost.                                                                 *)
VolumeArrives ==
  Busy = {} /\ wanted # <<>> =>
    IF codec = "uda1341"
    THEN uda1341_get_vol = <<wanted[1], wanted[1]>> /\ chip[0] = 63 - wanted[1]
    ELSE /\ wm8976_get_vol = wanted
         /\ chip[52] = 256 + wanted[1] /\ chip[53] = 256 + wanted[2]

(* No other prescaler comes closer to the rate of the stream. *)
NearestRate == rate # 0 => \A i \in 0 .. 31 : Abs(Rate(iispsr), rate) <= Abs(Rate(i), rate)
===============================================================================
