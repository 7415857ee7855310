-------------------------- MODULE AlsaPlaybackProofs --------------------------
(***************************************************************************)
(* The safety properties of AlsaPlayback, for every set of buffer sizes    *)
(* and every bound on the periods written.                                 *)
(***************************************************************************)
EXTENDS AlsaPlayback, Integers, TLAPS

(* A stream that has been configured has a buffer of a size that was asked *)
(* for, and each part of it holds nothing or one of the periods.           *)
Configured ==
  pcm \in {"setup", "prepared", "running", "suspended", "xrun"} =>
    /\ buffer_size \in PeriodCounts
    /\ content \in [0 .. (buffer_size - 1) -> 0 .. MaxWrites]

Ready == pcm \in {"prepared", "running", "suspended"}

(* The offset is inside the buffer from prepare on: hw_params may leave it *)
(* outside of a smaller one.                                               *)
InBuffer == Ready => dma_ofs < buffer_size

(* As long as no command has met the stream with its interrupt due, the    *)
(* driver's offset, the channel's registers and the core's positions agree. *)
InStep ==
  Ready /\ ~late =>
    /\ hw <= appl /\ appl <= hw + buffer_size
    /\ hw % buffer_size = dma_ofs
    /\ disrc = dma_ofs
    /\ on => current = dma_ofs
    /\ pending => pcm = "running" /\ ~on
    /\ IF pcm = "prepared" THEN hw = 0 ELSE hw < appl
    /\ \A k \in hw .. (appl - 1) : content[k % buffer_size] = k + 1

IInv ==
  /\ TypeOK
  /\ Configured
  /\ InBuffer
  /\ RunningIsOn
  /\ InStep

-----------------------------------------------------------------------------
(* Remainders.                                                             *)

(* What SMT knows of division. *)
LEMMA DivMod ==
  ASSUME NEW B \in Nat \ {0}, NEW n \in Nat
  PROVE  n = B * (n \div B) + (n % B) /\ (n % B) \in 0 .. (B - 1) /\ n \div B \in Nat
BY SMT

(* Quotient and remainder are unique. *)
LEMMA Unique ==
  ASSUME NEW B \in Nat \ {0}, NEW q1 \in Int, NEW q2 \in Int, NEW r1 \in 0 .. (B - 1), NEW r2 \in 0 .. (B - 1),
     B * q1 + r1 = B * q2 + r2
  PROVE  r1 = r2
<1>1. B * (q1 - q2) = r2 - r1 BY SMT
<1>2. CASE q1 = q2 BY <1>2, SMT
<1>3. CASE q1 >= q2 + 1 
  <2>1. B * (q1 - q2) >= B BY <1>3, SMT
  <2> QED BY <2>1, <1>1, SMT
<1>4. CASE q2 >= q1 + 1 
  <2>1. B * (q2 - q1) >= B BY <1>4, SMT
  <2>2. B * (q2 - q1) = r1 - r2 BY SMT
  <2> QED BY <2>1, <2>2, SMT
<1> QED BY <1>2, <1>3, <1>4, SMT

(* So the remainder is recognised by any way of writing the number. *)
LEMMA ModUnique ==
  ASSUME NEW B \in Nat \ {0}, NEW n \in Nat, NEW q \in Int, NEW r \in 0 .. (B - 1), n = B * q + r
  PROVE  n % B = r
<1>1. /\ n = B * (n \div B) + (n % B)
      /\ n % B \in 0 .. (B - 1) /\ n \div B \in Nat
  BY DivMod
<1>2. B * (n \div B) + (n % B) = B * q + r
  BY <1>1, SMT
<1>3. n \div B \in Int /\ B \in Nat \ {0}
  BY <1>1, SMT
<1> QED BY <1>1, <1>2, <1>3, Unique, Zenon

(* The remainder of the next number is the next remainder: NextOfs follows hw. *)
LEMMA NextRemainder ==
  ASSUME NEW B \in Nat \ {0}, NEW n \in Nat
  PROVE  (n + 1) % B = IF (n % B) + 1 >= B THEN 0 ELSE (n % B) + 1
<1> DEFINE q == n \div B
           r == n % B
<1>1. n = B * q + r /\ r \in 0 .. (B - 1) /\ q \in Nat
  BY DivMod
<1> HIDE DEF q, r
<1>2. CASE r + 1 >= B
  <2>1. n + 1 = B * (q + 1) + 0
    BY <1>1, <1>2, SMT
  <2>2. (n + 1) % B = 0
    BY <2>1, <1>1, ModUnique
  <2> QED BY <2>2, <1>2 DEF r
<1>3. CASE ~(r + 1 >= B)
  <2>1. n + 1 = B * q + (r + 1) /\ r + 1 \in 0 .. (B - 1)
    BY <1>1, <1>3, SMT
  <2>2. (n + 1) % B = r + 1
    BY <2>1, <1>1, ModUnique
  <2> QED BY <2>2, <1>3 DEF r
<1> QED BY <1>2, <1>3

(* From an offset to the next is one period, around the end as well. *)
LEMMA OnePeriod ==
  ASSUME NEW B \in Nat \ {0, 1}, NEW o \in 0 .. (B - 1)
  PROVE  ((IF o + 1 >= B THEN 0 ELSE o + 1) + B - o) % B = 1
BY SMT

(* Two numbers less than a buffer apart fall on different parts of it. *)
LEMMA DifferentParts ==
  ASSUME NEW B \in Nat \ {0}, NEW a \in Nat, NEW b \in Nat, a < b, b - a < B
  PROVE  a % B # b % B
<1> DEFINE p == a \div B
           q == b \div B
           r == a % B
<1>1. a = B * p + r /\ r \in 0 .. (B - 1) /\ p \in Nat
  BY DivMod
<1>2. ASSUME r = b % B PROVE b = B * q + r /\ q \in Nat
  BY <1>2, DivMod
<1> HIDE DEF p, q, r
<1>3. ASSUME r = b % B PROVE FALSE
  <2>1. b - a = B * (q - p) /\ q \in Nat
    BY <1>1, <1>2, <1>3, SMT
  <2>2. CASE q <= p
    <3>1. B * (p - q) >= 0
      BY <2>1, <2>2, <1>1, SMT
    <3> QED BY <2>1, <3>1, <1>1, SMT
  <2>3. CASE q >= p + 1
    <3>1. B * (q - p) >= B
      BY <2>1, <2>3, <1>1, SMT
    <3> QED BY <2>1, <3>1, <1>1, SMT
  <2> QED BY <2>1, <2>2, <2>3, <1>1
<1> QED BY <1>3 DEF r

-----------------------------------------------------------------------------
(* Buffer sizes and bounds are numbers.                                    *)
LEMMA Sizes ==
  /\ \A B \in PeriodCounts : B \in Nat /\ B >= 2 /\ B \in Nat \ {0, 1} /\ B \in Nat \ {0}
  /\ MaxWrites \in Nat
  /\ Idle \notin Nat
BY PeriodsAssumption, WritesAssumption, IdleAssumption

(* The conjuncts of TypeOK about truth values, proved apart. *)
Switches ==
  /\ be_running \in BOOLEAN /\ on \in BOOLEAN /\ pending \in BOOLEAN
  /\ iis \in BOOLEAN /\ masked \in BOOLEAN /\ late \in BOOLEAN

LEMMA TypeSwitches == TypeOK => Switches
BY DEF TypeOK, DmaTypeOK, Switches

(* The card begins with nothing open, nothing on and nothing due. *)
LEMMA InitInv == Init => IInv
<1> SUFFICES ASSUME Init PROVE IInv
  OBVIOUS
<1>1. Switches
  BY Zenon DEF Init, DmaInit, Switches
<1>2. TypeOK
  BY <1>1, Sizes DEF Init, DmaInit, TypeOK, DmaTypeOK, Switches
<1>3. Configured /\ InBuffer /\ InStep
  BY DEF Init, DmaInit, Configured, Ready, InBuffer, InStep
<1>4. RunningIsOn
  BY DEF Init, DmaInit, RunningIsOn
<1> QED BY <1>2, <1>3, <1>4 DEF IInv

(* Open changes the state of the stream alone. *)
LEMMA OpenInv ==
  ASSUME IInv, Open
  PROVE  IInv'
<1>1. Switches'
  BY TypeSwitches, Zenon DEF IInv, Switches, Open, Unlocked, dmaVars, info, channel
<1>2. TypeOK'
  BY <1>1, Sizes DEF IInv, Configured, InBuffer, Ready, TypeOK, DmaTypeOK, Switches, Open,
     Unlocked, dmaVars, info, channel
<1>3. Configured' /\ InBuffer'
  BY Sizes DEF IInv, TypeOK, DmaTypeOK, Configured, Ready, InBuffer, Open, Unlocked,
     dmaVars, info, channel
<1>4. RunningIsOn'
  BY TypeSwitches, Zenon DEF IInv, Switches, RunningIsOn, Open, Unlocked, dmaVars, info, channel
<1>5. InStep'
  BY Sizes DEF IInv, TypeOK, DmaTypeOK, Configured, Ready, InBuffer, RunningIsOn, InStep,
     Open, Unlocked, dmaVars, info, channel
<1> QED BY <1>2, <1>3, <1>4, <1>5 DEF IInv

(* So does a close. *)
LEMMA CloseInv ==
  ASSUME IInv, Close
  PROVE  IInv'
<1>1. Switches'
  BY TypeSwitches, Zenon DEF IInv, Switches, Close, Unlocked, dmaVars, info, channel
<1>2. TypeOK'
  BY <1>1, Sizes DEF IInv, Configured, InBuffer, Ready, TypeOK, DmaTypeOK, Switches, Close,
     Unlocked, dmaVars, info, channel
<1>3. Configured' /\ InBuffer'
  BY Sizes DEF IInv, TypeOK, DmaTypeOK, Configured, Ready, InBuffer, Close, Unlocked,
     dmaVars, info, channel
<1>4. RunningIsOn'
  BY TypeSwitches, Zenon DEF IInv, Switches, RunningIsOn, Close, Unlocked, dmaVars, info,
     channel
<1>5. InStep'
  BY Sizes DEF IInv, TypeOK, DmaTypeOK, Configured, Ready, InBuffer, RunningIsOn, InStep,
     Close, Unlocked, dmaVars, info, channel
<1> QED BY <1>2, <1>3, <1>4, <1>5 DEF IInv

(* hw_params takes a new buffer; the stream is not ready before the next prepare. *)
LEMMA HwParamsInv ==
  ASSUME IInv, NEW n \in PeriodCounts, HwParams(n)
  PROVE  IInv'
<1>1. Switches'
  BY TypeSwitches, Zenon DEF IInv, Switches, HwParams, Unlocked, s3c2440_dma_hw_params,
     s3c2440_i2s_hw_params, info, channel
<1>2. TypeOK'
  BY <1>1, Sizes DEF IInv, Configured, InBuffer, Ready, TypeOK, DmaTypeOK, Switches,
     HwParams, Unlocked, s3c2440_dma_hw_params, s3c2440_i2s_hw_params, info, channel
<1>3. Configured' /\ InBuffer'
  BY Sizes DEF IInv, TypeOK, DmaTypeOK, Configured, Ready, InBuffer, HwParams, Unlocked,
     s3c2440_dma_hw_params, s3c2440_i2s_hw_params, info, channel
<1>4. RunningIsOn'
  BY TypeSwitches, Zenon DEF IInv, Switches, RunningIsOn, HwParams, Unlocked,
     s3c2440_dma_hw_params, s3c2440_i2s_hw_params, info, channel
<1>5. InStep'
  BY Sizes DEF IInv, TypeOK, DmaTypeOK, Configured, Ready, InBuffer, RunningIsOn, InStep,
     HwParams, Unlocked, s3c2440_dma_hw_params, s3c2440_i2s_hw_params, info, channel
<1> QED BY <1>2, <1>3, <1>4, <1>5 DEF IInv

(* prepare brings the offsets and positions back to 0 together. *)
LEMMA PrepareInv ==
  ASSUME IInv, Prepare
  PROVE  IInv'
<1>1. Switches'
  BY TypeSwitches, Zenon DEF IInv, Switches, Prepare, Unlocked, s3c2440_dma_prepare
<1>2. TypeOK'
  BY <1>1, Sizes DEF IInv, Configured, InBuffer, Ready, TypeOK, DmaTypeOK, Switches,
     Prepare, Unlocked, s3c2440_dma_prepare
<1>3. Configured' /\ InBuffer'
  BY Sizes DEF IInv, TypeOK, DmaTypeOK, Configured, Ready, InBuffer, Prepare, Unlocked,
     s3c2440_dma_prepare
<1>4. RunningIsOn'
  BY TypeSwitches, Zenon DEF IInv, Switches, RunningIsOn, Prepare, Unlocked, s3c2440_dma_prepare
<1>5. InStep'
  BY Sizes DEF IInv, TypeOK, DmaTypeOK, Configured, Ready, InBuffer, RunningIsOn, InStep,
     Prepare, Unlocked, s3c2440_dma_prepare
<1> QED BY <1>2, <1>3, <1>4, <1>5 DEF IInv

(* A write fills the part that is free, and no other that is still to be played. *)
LEMMA WriteInv ==
  ASSUME IInv, Write
  PROVE  IInv'
<1>1. Switches'
  BY TypeSwitches, Zenon DEF IInv, Switches, Write, Unlocked, dmaVars, info, channel
<1>2. TypeOK'
  BY <1>1, Sizes DEF IInv, Configured, InBuffer, Ready, TypeOK, DmaTypeOK, Switches, Write,
     Unlocked, dmaVars, info, channel
<1>3. Configured' /\ InBuffer'
  BY Sizes DEF IInv, TypeOK, DmaTypeOK, Configured, Ready, InBuffer, Write, Unlocked,
     dmaVars, info, channel
<1>4. RunningIsOn'
  BY TypeSwitches, Zenon DEF IInv, Switches, RunningIsOn, Write, Unlocked, dmaVars, info,
     channel
<1>5. InStep'
  <2> SUFFICES ASSUME Ready', ~late' PROVE InStep'
    BY DEF InStep
  <2>1. /\ Ready /\ ~late /\ pcm' = pcm /\ appl' = appl + 1
        /\ UNCHANGED <<buffer_size, dma_ofs, be_running, disrc, current, on, pending, hw, late>>
        /\ appl - hw < buffer_size
        /\ content' = [content EXCEPT ![appl % buffer_size] = appl + 1]
    BY DEF Write, Ready, dmaVars, info, channel
  <2>2. /\ buffer_size \in Nat \ {0} /\ appl \in Nat /\ hw \in Nat
        /\ content \in [0 .. (buffer_size - 1) -> 0 .. MaxWrites]
    BY <2>1, Sizes DEF IInv, Configured, Ready, TypeOK
  <2>3. hw <= appl /\ \A k \in hw .. (appl - 1) : content[k % buffer_size] = k + 1
    BY <2>1 DEF IInv, InStep
  <2>4. ASSUME NEW k \in hw .. appl
        PROVE  content'[k % buffer_size] = k + 1
    <3>1. k \in Nat /\ k % buffer_size \in 0 .. (buffer_size - 1)
      BY <2>2, DivMod, SMT
    <3>2. CASE k = appl
      BY <2>1, <2>2, <3>1, <3>2
    <3>3. CASE k # appl
      <4>1. k < appl /\ appl - k < buffer_size /\ k \in hw .. (appl - 1)
        BY <2>1, <2>2, <2>3, <3>1, <3>3
      <4>2. k % buffer_size # appl % buffer_size
        BY <4>1, <2>2, <3>1, DifferentParts
      <4> QED BY <2>1, <2>2, <2>3, <3>1, <4>1, <4>2
    <3> QED BY <3>2, <3>3
  <2>5. \A k \in hw' .. (appl' - 1) : content'[k % buffer_size'] = k + 1
    <3>1. hw' .. (appl' - 1) = hw .. appl /\ buffer_size' = buffer_size
      BY <2>1, <2>2
    <3> QED BY <3>1, <2>4, Zenon
  <2> QED BY <2>1, <2>2, <2>3, <2>5 DEF IInv, InStep
<1> QED BY <1>2, <1>3, <1>4, <1>5 DEF IInv

(* A start loads the period at dma_ofs. *)
LEMMA StartInv ==
  ASSUME IInv, Start
  PROVE  IInv'
<1>1. Switches'
  BY TypeSwitches, Zenon DEF IInv, Switches, Start, Locked, TriggerOn,
     s3c2440_dma_trigger_on, s3c2440_i2s_trigger_on, StartWith
<1>2. TypeOK'
  BY <1>1, Sizes DEF IInv, Configured, InBuffer, Ready, TypeOK, DmaTypeOK, Switches, Start,
     Locked, TriggerOn, s3c2440_dma_trigger_on, s3c2440_i2s_trigger_on, StartWith
<1>3. Configured' /\ InBuffer'
  BY Sizes DEF IInv, TypeOK, DmaTypeOK, Configured, Ready, InBuffer, Start, Locked,
     TriggerOn, s3c2440_dma_trigger_on, s3c2440_i2s_trigger_on, StartWith
<1>4. RunningIsOn'
  BY TypeSwitches, Zenon DEF IInv, Switches, RunningIsOn, Start, Locked, TriggerOn,
     s3c2440_dma_trigger_on, s3c2440_i2s_trigger_on, StartWith
<1>5. ~on
  BY TypeSwitches, Zenon DEF IInv, Switches, RunningIsOn, Start
<1>6. InStep'
  BY <1>5, Sizes DEF IInv, TypeOK, DmaTypeOK, Configured, Ready, InBuffer, InStep, Start,
     Locked, TriggerOn, s3c2440_dma_trigger_on, s3c2440_i2s_trigger_on, StartWith
<1> QED BY <1>2, <1>3, <1>4, <1>6 DEF IInv

(* A drop stops both devices. *)
LEMMA DropInv ==
  ASSUME IInv, Drop
  PROVE  IInv'
<1>1. Switches'
  BY TypeSwitches, Zenon DEF IInv, Switches, Drop, Locked, TriggerOff,
     s3c2440_dma_trigger_off, s3c2440_i2s_trigger_off, ChannelOff, dmaVars, info, channel
<1>2. TypeOK'
  BY <1>1, Sizes DEF IInv, Configured, InBuffer, Ready, TypeOK, DmaTypeOK, Switches, Drop,
     Locked, TriggerOff, s3c2440_dma_trigger_off, s3c2440_i2s_trigger_off, ChannelOff,
     dmaVars, info, channel
<1>3. Configured' /\ InBuffer'
  BY Sizes DEF IInv, TypeOK, DmaTypeOK, Configured, Ready, InBuffer, Drop, Locked,
     TriggerOff, s3c2440_dma_trigger_off, s3c2440_i2s_trigger_off, ChannelOff, dmaVars,
     info, channel
<1>4. RunningIsOn'
  <2>1. CASE pcm = "running" /\ TriggerOff
    BY <2>1 DEF RunningIsOn, Drop, TriggerOff, s3c2440_dma_trigger_off,
       s3c2440_i2s_trigger_off, ChannelOff
  <2>2. CASE pcm # "running" /\ UNCHANGED <<dmaVars, iis>>
    <3>1. ~be_running /\ ~on /\ ~iis
      BY <2>2, TypeSwitches, Zenon DEF IInv, Switches, RunningIsOn
    <3>2. ~be_running' /\ ~on' /\ ~iis' /\ pcm' = "setup"
      BY <2>2, <3>1 DEF dmaVars, info, channel, Drop
    <3> QED BY <3>2 DEF RunningIsOn
  <2> QED BY <2>1, <2>2 DEF Drop
<1>5. InStep'
  BY DEF InStep, Ready, Drop
<1> QED BY <1>2, <1>3, <1>4, <1>5 DEF IInv

(* A pause is undone. *)
LEMMA PauseInv ==
  ASSUME IInv, Pause
  PROVE  IInv'
<1>1. Switches'
  BY TypeSwitches, Zenon DEF IInv, Switches, Pause, Locked
<1>2. TypeOK'
  BY <1>1, Sizes DEF IInv, Configured, InBuffer, Ready, TypeOK, DmaTypeOK, Switches, Pause,
     Locked
<1>3. Configured' /\ InBuffer'
  BY Sizes DEF IInv, TypeOK, DmaTypeOK, Configured, Ready, InBuffer, Pause, Locked
<1>4. RunningIsOn'
  BY TypeSwitches, Zenon DEF IInv, Switches, RunningIsOn, Pause, Locked
<1>5. InStep'
  BY Sizes DEF IInv, TypeOK, DmaTypeOK, Configured, Ready, InBuffer, RunningIsOn, InStep,
     Pause, Locked
<1> QED BY <1>2, <1>3, <1>4, <1>5 DEF IInv

(* A suspend stops both devices; the positions stay. *)
LEMMA SuspendInv ==
  ASSUME IInv, Suspend
  PROVE  IInv'
<1>1. Switches'
  BY TypeSwitches, Zenon DEF IInv, Switches, Suspend, Locked, TriggerOff,
     s3c2440_dma_trigger_off, s3c2440_i2s_trigger_off, ChannelOff
<1>2. TypeOK'
  BY <1>1, Sizes DEF IInv, Configured, InBuffer, Ready, TypeOK, DmaTypeOK, Switches,
     Suspend, Locked, TriggerOff, s3c2440_dma_trigger_off, s3c2440_i2s_trigger_off,
     ChannelOff
<1>3. Configured' /\ InBuffer'
  BY Sizes DEF IInv, TypeOK, DmaTypeOK, Configured, Ready, InBuffer, Suspend, Locked,
     TriggerOff, s3c2440_dma_trigger_off, s3c2440_i2s_trigger_off, ChannelOff
<1>4. RunningIsOn'
  BY TypeSwitches, Zenon DEF IInv, Switches, RunningIsOn, Suspend, Locked, TriggerOff,
     s3c2440_dma_trigger_off, s3c2440_i2s_trigger_off, ChannelOff
<1>5. InStep'
  BY Sizes DEF IInv, TypeOK, DmaTypeOK, Configured, Ready, InBuffer, RunningIsOn, InStep,
     Suspend, Locked, TriggerOff, s3c2440_dma_trigger_off, s3c2440_i2s_trigger_off,
     ChannelOff
<1> QED BY <1>2, <1>3, <1>4, <1>5 DEF IInv

(* A resume loads DISRC, the period at dma_ofs unless the suspend met an interrupt. *)
LEMMA ResumeInv ==
  ASSUME IInv, Resume
  PROVE  IInv'
<1>1. Switches'
  BY TypeSwitches, Zenon DEF IInv, Switches, Resume, Locked, TriggerOn,
     s3c2440_dma_trigger_on, s3c2440_i2s_trigger_on, StartWith
<1>2. TypeOK'
  BY <1>1, Sizes DEF IInv, Configured, InBuffer, Ready, TypeOK, DmaTypeOK, Switches, Resume,
     Locked, TriggerOn, s3c2440_dma_trigger_on, s3c2440_i2s_trigger_on, StartWith
<1>3. Configured' /\ InBuffer'
  BY Sizes DEF IInv, TypeOK, DmaTypeOK, Configured, Ready, InBuffer, Resume, Locked,
     TriggerOn, s3c2440_dma_trigger_on, s3c2440_i2s_trigger_on, StartWith
<1>4. RunningIsOn'
  BY TypeSwitches, Zenon DEF IInv, Switches, RunningIsOn, Resume, Locked, TriggerOn,
     s3c2440_dma_trigger_on, s3c2440_i2s_trigger_on, StartWith
<1>5. InStep'
  BY Sizes DEF IInv, TypeOK, DmaTypeOK, Configured, Ready, InBuffer, RunningIsOn, InStep,
     Resume, Locked, TriggerOn, s3c2440_dma_trigger_on, s3c2440_i2s_trigger_on, StartWith
<1> QED BY <1>2, <1>3, <1>4, <1>5 DEF IInv

(* The end of a transfer turns the channel off and makes its interrupt due. *)
LEMMA TransferInv ==
  ASSUME IInv, Transfer
  PROVE  IInv'
<1>1. Switches'
  BY TypeSwitches, Zenon DEF IInv, Switches, Transfer, Transferred, core, info
<1>2. TypeOK'
  BY <1>1, Sizes DEF IInv, Configured, InBuffer, Ready, TypeOK, DmaTypeOK, Switches,
     Transfer, Transferred, core, info
<1>3. Configured' /\ InBuffer'
  BY Sizes DEF IInv, TypeOK, DmaTypeOK, Configured, Ready, InBuffer, Transfer, Transferred,
     core, info
<1>4. RunningIsOn'
  BY TypeSwitches, Zenon DEF IInv, Switches, RunningIsOn, Transfer, Transferred, core, info
<1>5. InStep'
  BY Sizes DEF IInv, TypeOK, DmaTypeOK, Configured, Ready, InBuffer, RunningIsOn, InStep,
     Transfer, Transferred, core, info
<1> QED BY <1>2, <1>3, <1>4, <1>5 DEF IInv

(* The handler, with the core's answer: after one period the offset, hw and *)
(* what is loaded have gone on by one together.                             *)
LEMMA IrqInv ==
  ASSUME IInv, s3c2440_dma2_irq
  PROVE  IInv'
<1> DEFINE ofs == NextOfs(dma_ofs)
<1>1. /\ ofs \in Nat
      /\ Ready => ofs < buffer_size
  BY Sizes DEF IInv, Configured, InBuffer, Ready, TypeOK, DmaTypeOK, NextOfs
<1>a. pcm = "running" => Elapsed(ofs) \in Nat
  <2> SUFFICES ASSUME pcm = "running" PROVE Elapsed(ofs) \in Nat
    OBVIOUS
  <2> DEFINE B == buffer_size
  <2>1. B \in Nat \ {0} /\ hw \in Nat
    BY Sizes DEF IInv, Configured, TypeOK
  <2>2. hw % B \in 0 .. (B - 1)
    BY <2>1, DivMod, Zenon
  <2>3. ofs + B - (hw % B) \in Nat
    BY <1>1, <2>1, <2>2, SMT
  <2>4. (ofs + B - (hw % B)) % B \in Nat
    BY <2>1, <2>3, DivMod, SMT
  <2> QED BY <2>1, <2>4 DEF Elapsed
<1> HIDE DEF ofs
<1>b. s3c2440_dma2_irq =>
        /\ pending /\ pending' = FALSE /\ masked' = FALSE /\ dma_ofs' = ofs
        /\ IrqUnderrun(ofs) \/ IrqGoOn(ofs) \/ IrqStopped(ofs)
        /\ UNCHANGED <<buffer_size, appl, content, late>>
  BY Zenon DEF s3c2440_dma2_irq, ofs
<1>c. Switches
  BY TypeSwitches DEF IInv
<1>2. CASE IrqUnderrun(ofs)
  <2>1. /\ pcm = "running" /\ pcm' = "xrun" /\ hw' = Elapsed(ofs)
        /\ ~be_running' /\ be_running' = FALSE /\ on' = FALSE /\ iis' = FALSE
        /\ current' = Idle /\ disrc' = disrc
    BY <1>2 DEF IrqUnderrun, ChannelOff, s3c2440_i2s_trigger_off
  <2>2. TypeOK'
    BY <1>1, <1>a, <1>b, <2>1 DEF IInv, TypeOK, DmaTypeOK
  <2>3. Configured' /\ InBuffer' /\ InStep' /\ RunningIsOn'
    BY <1>b, <2>1 DEF IInv, Configured, Ready, InBuffer, InStep, RunningIsOn
  <2> QED BY <2>2, <2>3 DEF IInv
<1>3. CASE IrqStopped(ofs)
  <2>1. /\ pcm # "running" /\ ~be_running /\ ~on /\ ~iis
    BY <1>3, <1>c, Zenon DEF IrqStopped, IInv, RunningIsOn, Switches
  <2>2. /\ pcm' = pcm /\ hw' = hw /\ be_running' = be_running /\ iis' = iis
        /\ disrc' = disrc /\ current' = current /\ on' = on
    BY <1>3, <2>1 DEF IrqStopped, LoadNext
  <2>3. TypeOK'
    BY <1>1, <1>b, <2>2 DEF IInv, TypeOK, DmaTypeOK, Ready
  <2>4. Configured' /\ InBuffer'
    BY <1>1, <1>b, <2>2 DEF IInv, Configured, Ready, InBuffer
  <2>5. RunningIsOn'
    BY <2>1, <2>2 DEF RunningIsOn
  <2>6. InStep'
    BY <1>b, <2>1, <2>2 DEF IInv, InStep, Ready
  <2> QED BY <2>3, <2>4, <2>5, <2>6 DEF IInv
<1>4. CASE IrqGoOn(ofs)
  <2>1. /\ pcm = "running" /\ be_running /\ iis
    BY <1>4, <1>c, Zenon DEF IrqGoOn, IInv, RunningIsOn, Switches
  <2>2. /\ pcm' = pcm /\ hw' = Elapsed(ofs) /\ Elapsed(ofs) < appl
        /\ be_running' = be_running /\ iis' = iis
        /\ on' = TRUE /\ disrc' = ofs
        /\ current' = IF on /\ current # Idle THEN current ELSE ofs
    BY <1>4, <2>1 DEF IrqGoOn, LoadNext, StartWith
  <2>3. TypeOK'
    BY <1>1, <1>a, <1>b, <2>1, <2>2 DEF IInv, TypeOK, DmaTypeOK, Ready
  <2>4. Configured' /\ InBuffer'
    BY <1>1, <1>b, <2>1, <2>2 DEF IInv, Configured, Ready, InBuffer
  <2>5. RunningIsOn'
    BY <2>1, <2>2, <1>c DEF RunningIsOn
  <2>6. InStep'
    <3> SUFFICES ASSUME ~late' PROVE InStep'
      BY DEF InStep
    <3>1. /\ Ready /\ ~late /\ ~on /\ hw <= appl /\ appl <= hw + buffer_size
          /\ hw % buffer_size = dma_ofs
          /\ \A k \in hw .. (appl - 1) : content[k % buffer_size] = k + 1
      BY <1>b, <2>1 DEF IInv, InStep, Ready
    <3>2. /\ buffer_size \in Nat \ {0, 1} /\ buffer_size \in Nat \ {0}
          /\ hw \in Nat /\ appl \in Nat /\ dma_ofs \in 0 .. (buffer_size - 1)
      BY <2>1, Sizes DEF IInv, Configured, InBuffer, Ready, TypeOK, DmaTypeOK
    <3>3. ofs = IF dma_ofs + 1 >= buffer_size THEN 0 ELSE dma_ofs + 1
      BY DEF ofs, NextOfs
    <3>4. (ofs + buffer_size - dma_ofs) % buffer_size = 1
      BY <3>2, <3>3, OnePeriod
    <3>5. hw' = hw + 1
      BY <2>2, <3>1, <3>4 DEF Elapsed
    <3>6. (hw + 1) % buffer_size = ofs
      BY <3>1, <3>2, <3>3, NextRemainder
    <3>7. current' = ofs
      BY <2>2, <3>1
    <3>8. \A k \in hw' .. (appl' - 1) : content'[k % buffer_size'] = k + 1
      <4>1. \A k \in hw' .. (appl' - 1) : k \in hw .. (appl - 1)
        BY <1>b, <3>2, <3>5
      <4> QED BY <4>1, <1>b, <3>1, Zenon
    <3>9. hw' <= appl' /\ appl' <= hw' + buffer_size' /\ hw' < appl'
      BY <1>b, <2>2, <3>1, <3>2, <3>5
    <3> QED BY <1>b, <2>1, <2>2, <3>5, <3>6, <3>7, <3>8, <3>9 DEF InStep
  <2> QED BY <2>3, <2>4, <2>5, <2>6 DEF IInv
<1> QED BY <1>b, <1>2, <1>3, <1>4

(* A step that changes nothing. *)
LEMMA StutterInv == IInv /\ UNCHANGED vars => IInv'
<1> SUFFICES ASSUME IInv, UNCHANGED vars PROVE IInv'
  OBVIOUS
<1>1. UNCHANGED <<buffer_size, dma_ofs, be_running, disrc, current, on, pending, iis, pcm, appl, hw, content, masked, late>>
  BY DEF vars, dmaVars, info, channel, core
<1>2. TypeOK'
  BY <1>1, Zenon DEF IInv, TypeOK, DmaTypeOK
<1>3. Configured' /\ InBuffer'
  BY <1>1, Zenon DEF IInv, Configured, InBuffer, Ready
<1>4. RunningIsOn' /\ InStep'
  BY <1>1, Zenon DEF IInv, RunningIsOn, InStep, Ready
<1> QED BY <1>2, <1>3, <1>4 DEF IInv

LEMMA NextInv == IInv /\ [Next]_vars => IInv'
<1> SUFFICES ASSUME IInv, [Next]_vars PROVE IInv'
  OBVIOUS
<1>1. CASE UNCHANGED vars
  BY <1>1, StutterInv
<1>2. ASSUME NEW n \in PeriodCounts, HwParams(n) PROVE IInv'
  BY <1>2, HwParamsInv
<1>3. CASE Next
  BY <1>2, <1>3, OpenInv, CloseInv, PrepareInv, WriteInv, StartInv, DropInv, PauseInv,
     SuspendInv, ResumeInv, TransferInv, IrqInv DEF Next
<1> QED BY <1>1, <1>3

-----------------------------------------------------------------------------
(* The inductive invariant holds in every reachable state. *)
THEOREM Inductive == Spec => []IInv
BY InitInv, NextInv, PTL DEF Spec

(* Every variable stays within its type, and the offset inside the buffer. *)
THEOREM TypeCorrect == Spec => []TypeOK
<1>1. IInv => TypeOK
  BY DEF IInv
<1> QED BY <1>1, Inductive, PTL

(* The IIS, be_running and the state of the stream agree: a running stream has *)
(* its channel or the interrupt that restarts it, and nothing plays on after a *)
(* stop, a suspend or an underrun.                                             *)
THEOREM RunningIsOnHolds == Spec => []RunningIsOn
<1>1. IInv => RunningIsOn
  BY DEF IInv
<1> QED BY <1>1, Inductive, PTL

(* What the channel transfers is the next period due, written and not yet     *)
(* overwritten, for every buffer size: around its end, across pauses, suspends *)
(* and resumes that met no interrupt.                                          *)
THEOREM PlaysWhatIsDueHolds == Spec => []PlaysWhatIsDue
<1>1. IInv => PlaysWhatIsDue
  <2> SUFFICES ASSUME IInv, on, ~late PROVE PlaysWhatIsDue
    BY DEF PlaysWhatIsDue
  <2>1. pcm = "running"
    BY TypeSwitches, Zenon DEF IInv, Switches, RunningIsOn
  <2>2. /\ current = dma_ofs /\ hw < appl /\ hw % buffer_size = dma_ofs
        /\ \A k \in hw .. (appl - 1) : content[k % buffer_size] = k + 1
    BY <2>1 DEF IInv, InStep, Ready
  <2>3. hw \in hw .. (appl - 1)
    BY <2>2, Sizes DEF IInv, TypeOK
  <2> QED BY <2>2, <2>3 DEF PlaysWhatIsDue, s3c2440_dma_pointer
<1> QED BY <1>1, Inductive, PTL
===============================================================================
