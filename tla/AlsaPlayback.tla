------------------------------ MODULE AlsaPlayback ------------------------------
(***************************************************************************)
(* A playback stream: the platform driver (AlsaDma), the IIS controller's  *)
(* trigger (ALSA/platform/s3c2440_iis.c), and as much of the ALSA core as  *)
(* calls them.  The core is external: it holds the stream lock, with       *)
(* interrupts off, around a trigger, and calls the platform's trigger      *)
(* before the IIS controller's.  Stream positions are counted in periods.  *)
(***************************************************************************)
EXTENDS AlsaDma

CONSTANTS
  MaxWrites    \* bound on the periods written after a prepare

ASSUME WritesAssumption == MaxWrites \in Nat

VARIABLES
  iis,         \* IISCON bit 0
  \* the ALSA core
  pcm,         \* the state of the stream
  appl, hw,    \* the periods written, and those reported as played
  content,     \* which period (counted from 1) each part of the buffer holds
  masked,      \* an interrupt became pending under the stream lock
  late         \* history: since prepare, a command met the stream with its
               \* interrupt due

core == <<pcm, appl, hw, content, masked, late>>
vars == <<dmaVars, iis, core>>

TypeOK ==
  /\ DmaTypeOK
  /\ pcm \in {"prepared", "running"} => dma_ofs < buffer_size
  /\ iis \in BOOLEAN
  /\ pcm \in {"closed", "open", "setup", "prepared", "running", "suspended", "xrun"}
  /\ appl \in 0..MaxWrites /\ hw \in Nat
  /\ \A i \in DOMAIN content : content[i] \in 0..MaxWrites
  /\ masked \in BOOLEAN /\ late \in BOOLEAN

Init ==
  /\ DmaInit
  /\ iis = FALSE
  /\ pcm = "closed" /\ appl = 0 /\ hw = 0 /\ content = <<>>
  /\ masked = FALSE /\ late = FALSE

(***************************************************************************)
(* s3c2440_i2s_trigger, and the two triggers of a command in order.        *)
(***************************************************************************)
s3c2440_i2s_trigger_on  == iis' = TRUE

(* IISCON is written as a whole. *)
s3c2440_i2s_hw_params == iis' = FALSE

(* The cases STOP, SUSPEND and PAUSE_PUSH fall into the default: the IIS is *)
(* stopped, and the answer is -EINVAL.                                      *)
s3c2440_i2s_trigger_off == iis' = FALSE

TriggerOn  == s3c2440_dma_trigger_on /\ s3c2440_i2s_trigger_on
TriggerOff == s3c2440_dma_trigger_off /\ s3c2440_i2s_trigger_off

(* What a process may do while the interrupt is pending: at most one stretch *)
(* under the stream lock, and nothing before the handler has run.            *)
Unlocked == ~pending /\ UNCHANGED masked
Locked   == ~masked /\ masked' = pending /\ late' = (late \/ pending)

(***************************************************************************)
(* The calls of an application and of power management.                    *)
(***************************************************************************)
(* request_irq may fail: -EIO, and the stream stays closed. *)
Open ==
  /\ Unlocked
  /\ pcm = "closed" /\ pcm' \in {"open", "closed"}
  /\ UNCHANGED <<dmaVars, iis, appl, hw, content, late>>

HwParams(n) ==
  /\ Unlocked
  /\ pcm \in {"open", "setup", "prepared"} /\ pcm' = "setup"
  /\ s3c2440_dma_hw_params(n)
  /\ s3c2440_i2s_hw_params
  /\ content' = [i \in 0..(n - 1) |-> 0]
  /\ UNCHANGED <<appl, hw, late>>

Prepare ==
  /\ Unlocked
  /\ pcm \in {"setup", "prepared", "xrun", "suspended"} /\ pcm' = "prepared"
  /\ s3c2440_dma_prepare
  /\ appl' = 0 /\ hw' = 0
  /\ late' = FALSE
  /\ UNCHANGED <<iis, content>>

Write ==
  /\ Unlocked
  /\ pcm \in {"prepared", "running"}
  /\ appl - hw < buffer_size /\ appl < MaxWrites
  /\ content' = [content EXCEPT ![appl % buffer_size] = appl + 1]
  /\ appl' = appl + 1
  /\ UNCHANGED <<dmaVars, iis, pcm, hw, late>>

Start ==
  /\ Locked
  /\ pcm = "prepared" /\ appl > 0
  /\ pcm' = "running"
  /\ TriggerOn
  /\ UNCHANGED <<appl, hw, content>>

(* snd_pcm_stop does not look at what the trigger answers. *)
Drop ==
  /\ Locked
  /\ pcm' = "setup"
  /\ \/ pcm = "running" /\ TriggerOff
     \/ pcm \in {"prepared", "suspended", "xrun"} /\ UNCHANGED <<dmaVars, iis>>
  /\ UNCHANGED <<appl, hw, content>>

(* The -EINVAL of the IIS trigger makes the core undo the pause, by the *)
(* trigger PAUSE_RELEASE, and return the error.                         *)
Pause ==
  /\ Locked
  /\ pcm = "running"
  /\ be_running' = TRUE
  /\ on' = TRUE /\ current' = disrc
  /\ iis' = TRUE
  /\ UNCHANGED <<buffer_size, dma_ofs, disrc, pending, pcm, appl, hw, content>>

(* A suspend goes through whatever the trigger answers. *)
Suspend ==
  /\ Locked
  /\ pcm = "running" /\ pcm' = "suspended"
  /\ TriggerOff
  /\ UNCHANGED <<appl, hw, content>>

Resume ==
  /\ Locked
  /\ pcm = "suspended" /\ pcm' = "running"
  /\ TriggerOn
  /\ UNCHANGED <<appl, hw, content>>

Close ==
  /\ Unlocked
  /\ pcm \in {"open", "setup", "prepared", "xrun"} /\ pcm' = "closed"
  /\ UNCHANGED <<dmaVars, iis, appl, hw, content, late>>

(***************************************************************************)
(* s3c2440_dma2_irq.                                                       *)
(***************************************************************************)

(* snd_pcm_period_elapsed takes hw on to what pointer reports. *)
Elapsed(ofs) == hw + ((ofs + buffer_size - (hw % buffer_size)) % buffer_size)

(* It has played all that was written: the core triggers STOP. *)
IrqUnderrun(ofs) ==
  /\ pcm = "running" /\ Elapsed(ofs) >= appl
  /\ hw' = Elapsed(ofs)
  /\ pcm' = "xrun"
  /\ be_running' = FALSE /\ ChannelOff
  /\ s3c2440_i2s_trigger_off

IrqGoOn(ofs) ==
  /\ pcm = "running" /\ Elapsed(ofs) < appl
  /\ hw' = Elapsed(ofs)
  /\ LoadNext(ofs, be_running)
  /\ UNCHANGED <<pcm, be_running, iis>>

IrqStopped(ofs) ==
  /\ pcm # "running"
  /\ LoadNext(ofs, be_running)
  /\ UNCHANGED <<pcm, hw, be_running, iis>>

s3c2440_dma2_irq ==
  /\ pending /\ pending' = FALSE
  /\ masked' = FALSE
  /\ dma_ofs' = NextOfs(dma_ofs)
  /\ LET ofs == NextOfs(dma_ofs)
     IN IrqUnderrun(ofs) \/ IrqGoOn(ofs) \/ IrqStopped(ofs)
  /\ UNCHANGED <<buffer_size, appl, content, late>>

Transfer == Transferred /\ UNCHANGED <<iis, core>>

Next ==
  \/ Open \/ Close \/ Prepare \/ Write \/ Start \/ Drop
  \/ \E n \in PeriodCounts : HwParams(n)
  \/ Pause \/ Suspend \/ Resume
  \/ Transfer \/ s3c2440_dma2_irq

(* The codec clocks the samples out, and interrupts are taken. *)
Fairness == WF_vars(Transfer) /\ WF_vars(s3c2440_dma2_irq)
Spec == Init /\ [][Next]_vars /\ Fairness

(***************************************************************************)
(* Properties.                                                             *)
(***************************************************************************)

(* Through writes, pauses, suspends, resumes, drops and underruns, as long   *)
(* as no command has met the stream with its interrupt due: the period in    *)
(* transfer is the one that dma_ofs, and so the pointer callback, names; it  *)
(* is the next one due, it has been written, and not yet overwritten.        *)
PlaysWhatIsDue ==
  on /\ ~late =>
    /\ current = s3c2440_dma_pointer
    /\ content[current] = hw + 1
    /\ hw < appl

(* A running stream has its IIS on, and its channel or the interrupt that   *)
(* restarts it: it never stalls. No other has: nothing plays on after a     *)
(* stop, a suspend or an underrun, not even by way of an interrupt that was *)
(* due.                                                                     *)
RunningIsOn ==
  /\ pcm = "running" <=> be_running
  /\ be_running <=> iis
  /\ be_running => on \/ pending
  /\ on => be_running

(* What was written is played, as long as the stream runs. *)
WrittenIsPlayed ==
  \A k \in 0..(MaxWrites - 1) :
    pcm = "running" /\ hw = k /\ k < appl ~> hw # k \/ pcm # "running"

(* If there is more data, the next period is loaded and then started (lines *)
(* 118 to 121); dma_ofs is where the next data begins (line 107): what is   *)
(* transferred while no interrupt is due is the period at dma_ofs.          *)
TransfersAtOfs == on /\ ~pending => current = dma_ofs
===============================================================================
