-------------------------------- MODULE AlsaDma --------------------------------
(***************************************************************************)
(* The playback DMA driver ALSA/platform/s3c2440_dma.c and DMA channel 2.  *)
(* Offsets are counted in periods, the buffer being a whole number of them *)
(* (snd_pcm_hw_constraint_integer).                                        *)
(***************************************************************************)
EXTENDS Naturals

CONSTANTS
  PeriodCounts,   \* the buffer sizes an application may ask for, in periods
  Idle            \* channel 2 has no transfer in its current registers

ASSUME PeriodsAssumption == PeriodCounts \subseteq Nat \ {0, 1}
ASSUME IdleAssumption    == Idle \notin Nat

VARIABLES
  \* playback_dma_info
  buffer_size, dma_ofs, be_running,
  \* the channel
  disrc,      \* the offset last written to DISRC
  current,    \* the offset in transfer, or Idle
  on,         \* DMASKTRIG bit 1
  pending     \* the end-of-transfer interrupt

info    == <<buffer_size, dma_ofs, be_running>>
channel == <<disrc, current, on, pending>>
dmaVars == <<info, channel>>

DmaTypeOK ==
  /\ buffer_size \in PeriodCounts \cup {0}
  /\ dma_ofs \in Nat
  /\ be_running \in BOOLEAN
  /\ disrc \in Nat /\ current \in Nat \cup {Idle}
  /\ on \in BOOLEAN /\ pending \in BOOLEAN

DmaInit ==
  /\ buffer_size = 0 /\ dma_ofs = 0 /\ be_running = FALSE
  /\ disrc = 0 /\ current = Idle /\ on = FALSE /\ pending = FALSE

(* s3c2440_dma_start: the channel loads what DISRC holds unless a transfer *)
(* is under way.                                                           *)
StartWith(src) ==
  /\ on' = TRUE
  /\ disrc' = src
  /\ current' = IF on /\ current # Idle THEN current ELSE src

(* s3c2440_dma_stop; what was in transfer is given up. *)
ChannelOff == on' = FALSE /\ current' = Idle /\ UNCHANGED disrc

\* Mutant: DCON bit 29 is clear, the channel raises no interrupt.
Transferred_NoIrq ==
  /\ on /\ current # Idle /\ ~pending
  /\ on' = FALSE /\ current' = Idle
  /\ UNCHANGED <<info, disrc, pending>>

(* The hardware: a period has been transferred.  DCON bit 22 (no reload)    *)
(* turns the channel off, bit 29 raises the interrupt.  The handler takes   *)
(* far less than a period: none ends while it is due.                       *)
Transferred ==
  /\ on /\ current # Idle /\ ~pending
  /\ on' = FALSE /\ current' = Idle
  /\ pending' = TRUE
  /\ UNCHANGED <<info, disrc>>

\* Mutant: the wrap is tested with > instead of >=.
NextOfs_Late(ofs) == IF ofs + 1 > buffer_size THEN 0 ELSE ofs + 1

(* s3c2440_dma2_irq, first part: dma_ofs after a period. *)
NextOfs(ofs) == IF ofs + 1 >= buffer_size THEN 0 ELSE ofs + 1

(* s3c2440_dma2_irq, last part, once snd_pcm_period_elapsed is back. *)
LoadNext(ofs, running) ==
  IF running THEN StartWith(ofs) ELSE UNCHANGED <<disrc, current, on>>

s3c2440_dma_hw_params(n) ==
  /\ buffer_size' = n
  /\ UNCHANGED <<dma_ofs, be_running, channel>>

\* Mutant: prepare keeps the offset at which the stream was stopped.
s3c2440_dma_prepare_KeepOfs ==
  /\ be_running' = FALSE
  /\ disrc' = 0
  /\ UNCHANGED <<buffer_size, current, on, pending, dma_ofs>>

s3c2440_dma_prepare ==
  /\ dma_ofs' = 0
  /\ be_running' = FALSE
  /\ disrc' = 0
  /\ UNCHANGED <<buffer_size, current, on, pending>>

s3c2440_dma_trigger_on ==
  /\ be_running' = TRUE
  /\ StartWith(disrc)
  /\ UNCHANGED <<buffer_size, dma_ofs, pending>>

\* Mutant: the channel is stopped, but the interrupt may start it again.
s3c2440_dma_trigger_off_KeepRunning ==
  /\ ChannelOff
  /\ UNCHANGED <<buffer_size, dma_ofs, be_running, pending>>

s3c2440_dma_trigger_off ==
  /\ be_running' = FALSE
  /\ ChannelOff
  /\ UNCHANGED <<buffer_size, dma_ofs, pending>>

s3c2440_dma_pointer == dma_ofs
===============================================================================
