------------------------------ MODULE Dm9000Proofs ------------------------------
(***************************************************************************)
(* Proofs about Dm9000, for both revisions of the chip, every size of its  *)
(* receive memory and every bound on the packets in a row.                 *)
(***************************************************************************)
EXTENDS Dm9000, TLAPS

(* Who can be where in which phase. *)
Levels ==
  /\ phase = "opening" <=> proc \in {"init", "zero", "speed"}
  /\ phase = "stopping" <=> proc \in {"queue", "free", "quiet"}
  /\ proc \in {"phy", "access"} => phase = "up"
  /\ soft # "none" => phase = "up"
  /\ irqOn <=> (phase \in {"opening", "up"} \/ proc \in {"queue", "free"})
  /\ ~irqOn => ~pend /\ irq = "none"
  /\ phase = "up" => timer
  /\ phase = "down" => imr = {} /\ ~rxOn

(* An unmasked status bit is latched at every step of the handler. *)
EdgeLatched == irqOn /\ High(isr, imr) => pend

(* The counters between the steps of the handler. *)
Counters ==
  /\ irq \notin {"contspin", "spin"} => tx_pkt_cnt >= 0
  /\ irq = "loop" => cont_rx_pkt_cnt < CONT_RX_PKT_CNT
  /\ irq = "contdone" => cont_rx_pkt_cnt >= CONT_RX_PKT_CNT

(* The mask, from the end of dmfe_init_dm9000 on. *)
MaskInv ==
  (phase = "up" \/ proc \in {"zero", "speed"}) /\ irq = "none" /\ soft # "unmask"
    /\ "mask" \notin mishap
    => imr = Sources \/ (imr = {"TX", "LINK"} /\ cont_rx_pkt_cnt >= CONT_RX_PKT_CNT)

(* The register that a process has selected is in the index port or saved;  *)
(* a softirq over it makes it lost. The registers of the PHY are those of   *)
(* the step.                                                                *)
Selected == IF irq = "none" THEN idx ELSE reg_save

IndexInv ==
  /\ proc = "access" => Selected # "none"
  /\ proc = "access" /\ soft # "none" => cut
  /\ proc = "access" /\ ~cut => Selected = "PHY"
  /\ cut => step = "lost"
  /\ proc \notin {"phy", "access"} => step = "ask"

PhyInv == proc \in {"phy", "access"} => Needs[step] \subseteq held

(* Between its load and its store the count can only have gone down, and    *)
(* nothing is on its way while the interface is opened.                     *)
CountInv ==
  /\ CountCovers
  /\ soft = "store" => loaded >= tx_pkt_cnt
  /\ proc \in {"zero", "speed"} => flight = 0 /\ nsr = 0

(* A packet in the receive memory has its status bit set or is still to be  *)
(* seen by the handler. In the loop, a packet whose bit is not set was      *)
(* there when the loop began.                                               *)
PacketInv ==
  /\ irq \in {"loop", "contdone"} => "RX" \in isr \/ rx + cont_rx_pkt_cnt <= MaxRx
  /\ rx > 0 /\ "memory" \notin mishap /\ irq # "loop"
       => "RX" \in isr \/ (irq \in {"status", "link", "receive"} /\ "RX" \in int_status)

(* A stopped queue waits for a packet on its way, for a completion that the *)
(* handler is still to see, or for the softirq that has stopped it.         *)
StopInv ==
  phase = "up" /\ queue = "stopped" =>
    \/ flight > 0 \/ "TX" \in isr
    \/ irq \notin {"none", "exit"} /\ "TX" \in int_status
    \/ soft \in {"send", "link"}

Base ==
  /\ TypeOK
  /\ Levels
  /\ EdgeLatched
  /\ Counters
  /\ MaskInv
  /\ IndexInv
  /\ CountInv
  /\ PacketInv
  /\ StopInv

IInv == Base /\ PhyInv

(* All is off after the probe. *)
LEMMA InitInv == Init => IInv
<1> SUFFICES ASSUME Init PROVE IInv
  OBVIOUS
<1> USE RxAssumption DEF Init, Sources, Speeds, Mishaps, Sending, High
<1>1. TypeOK
  <2>1. timer \in BOOLEAN /\ irqOn \in BOOLEAN /\ pend \in BOOLEAN /\ rxOn \in BOOLEAN /\ cut \in BOOLEAN
    BY Zenon
  <2> QED BY <2>1, SMT DEF TypeOK, Steps, PhyRegs
<1>2. Levels
  BY DEF Levels
<1>3. EdgeLatched /\ Counters /\ MaskInv /\ IndexInv /\ PacketInv /\ StopInv
  BY DEF EdgeLatched, Counters, MaskInv, IndexInv, Selected, PacketInv, StopInv
<1>4. CountInv
  BY DEF CountInv, CountCovers
<1>5. PhyInv
  BY DEF PhyInv
<1> QED BY <1>1, <1>2, <1>3, <1>4, <1>5 DEF IInv, Base

(* The chip receives, completes, or changes its link. *)
LEMMA ChipStep == IInv /\ Chip => Base'
<1> SUFFICES ASSUME IInv, Chip PROVE Base'
  OBVIOUS
<1> USE RxAssumption, RevisionAssumption
    DEF IInv, Base, Levels, EdgeLatched, Counters, MaskInv, CountInv, CountCovers, PacketInv,
        StopInv, Sources, Speeds, Mishaps, Sending, Zeroed, NoIrq, NoSoft,
        net, count, line, recv, inIrq, phy, PhyUsed, Select, Selected
<1>1. CASE RxArrives
  BY <1>1, SMTT(30) DEF RxArrives, TypeOK, IndexInv, High, Lines
<1>2. CASE TxCompletes
  BY <1>2, SMTT(30) DEF TxCompletes, TypeOK, IndexInv, High, Lines
<1>3. CASE LinkChanges
  BY <1>3, SMTT(30) DEF LinkChanges, TypeOK, IndexInv, High, Lines
<1> QED BY <1>1, <1>2, <1>3 DEF Chip

(* The steps of a transaction and what its registers hold. *)
LEMMA AfterFilled ==
  TypeOK => /\ After[step] \subseteq Steps
            /\ Filled[step] \subseteq PhyRegs
            /\ step = "lost" => After[step] = {"lost", "ask"}
<1> SUFFICES ASSUME TypeOK
             PROVE  /\ After[step] \subseteq Steps /\ Filled[step] \subseteq PhyRegs
                    /\ step = "lost" => After[step] = {"lost", "ask"}
  OBVIOUS
<1> USE DEF After, Filled, Steps, PhyRegs
<1>0. step \in Steps /\ held \subseteq PhyRegs
  BY DEF TypeOK
<1>1. CASE step = "ask"
  BY <1>0, <1>1, SMTT(30)
<1>2. CASE step = "read"
  BY <1>0, <1>2, SMTT(30)
<1>3. CASE step = "data"
  BY <1>0, <1>3, SMTT(30)
<1>4. CASE step = "low"
  BY <1>0, <1>4, SMTT(30)
<1>5. CASE step = "high"
  BY <1>0, <1>5, SMTT(30)
<1>6. CASE step = "write"
  BY <1>0, <1>6, SMTT(30)
<1>7. CASE step = "lost"
  BY <1>0, <1>7, SMTT(30)
<1> QED BY <1>0, <1>1, <1>2, <1>3, <1>4, <1>5, <1>6, <1>7 DEF Steps

(* A process: it runs when no softirq and no handler does. *)
LEMMA ProcessStep == IInv /\ Process => Base'
<1> SUFFICES ASSUME IInv, Process PROVE Base'
  OBVIOUS
<1> USE RxAssumption, RevisionAssumption
    DEF IInv, Base, Levels, EdgeLatched, Counters, MaskInv, CountInv, CountCovers, PacketInv,
        StopInv, Sources, Speeds, Mishaps, Sending, Zeroed, NoIrq, NoSoft,
        net, count, line, recv, inIrq, phy, PhyUsed, Select, Selected,
        dmfe_init_dm9000
<1>1. CASE OpenIrq
  <2>1. CASE irqOn' /\ phase' = "opening" /\ proc' = "init"
    <3>1. isr' = isr /\ imr' = {} /\ (pend' <=> pend)
      BY <1>1, <2>1, Zenon DEF OpenIrq, Levels, line
    <3>2. EdgeLatched'
      BY <3>1, SMTT(30) DEF High
    <3>3. TypeOK' /\ Levels' /\ Counters' /\ MaskInv' /\ IndexInv' /\ CountInv' /\ PacketInv' /\ StopInv'
      BY <1>1, <2>1, SMTT(30) DEF OpenIrq, TypeOK, IndexInv, High, Lines
    <3> QED BY <3>2, <3>3
  <2>2. CASE UNCHANGED <<phase, irqOn, proc>>
    BY <1>1, <2>2, SMTT(30) DEF OpenIrq, TypeOK, IndexInv, High, Lines
  <2> QED BY <1>1, <2>1, <2>2, Zenon DEF OpenIrq
<1>2. CASE OpenInit
  BY <1>2, SMTT(30) DEF OpenInit, TypeOK, Steps, PhyRegs, IndexInv, High, Lines
<1>3. CASE OpenZero
  BY <1>3, SMTT(30) DEF OpenZero, TypeOK, IndexInv, High, Lines
<1>4. CASE OpenSpeed
  BY <1>4, SMTT(30) DEF OpenSpeed, TypeOK, IndexInv, High, Lines
<1>5. CASE StopTimer
  <2>1. timer' \in BOOLEAN
    BY <1>5, Zenon DEF StopTimer
  <2>2. TypeOK'
    BY <1>5, <2>1, SMTT(30) DEF StopTimer, TypeOK, IndexInv, High, Lines
  <2>3. Levels' /\ EdgeLatched' /\ Counters' /\ MaskInv' /\ IndexInv' /\ CountInv' /\ PacketInv' /\ StopInv'
    BY <1>5, SMTT(30) DEF StopTimer, TypeOK, IndexInv, High, Lines
  <2> QED BY <2>2, <2>3
<1>6. CASE StopFree
  <2>1. irqOn' \in BOOLEAN /\ pend' \in BOOLEAN
    BY <1>6, Zenon DEF StopFree
  <2>2. TypeOK'
    BY <1>6, <2>1, SMTT(30) DEF StopFree, TypeOK, IndexInv, High, Lines
  <2>3. Levels' /\ EdgeLatched' /\ Counters' /\ MaskInv' /\ IndexInv' /\ CountInv' /\ PacketInv' /\ StopInv'
    BY <1>6, SMTT(30) DEF StopFree, TypeOK, IndexInv, High, Lines
  <2> QED BY <2>2, <2>3
<1>12. CASE StopQueue
  BY <1>12, SMTT(30) DEF StopQueue, TypeOK, IndexInv, High, Lines
<1>7. CASE StopQuiet
  <2>1. pend' \in BOOLEAN /\ rxOn' \in BOOLEAN
    BY <1>7, Zenon DEF StopQuiet, Lines
  <2>2. TypeOK'
    BY <1>7, <2>1, SMTT(30) DEF StopQuiet, TypeOK, IndexInv, High, Lines
  <2>3. Levels' /\ EdgeLatched' /\ Counters' /\ MaskInv' /\ IndexInv' /\ CountInv' /\ PacketInv' /\ StopInv'
    BY <1>7, SMTT(30) DEF StopQuiet, TypeOK, IndexInv, High, Lines
  <2> QED BY <2>2, <2>3
<1>8. CASE dm9000_hash_table
  BY <1>8, SMTT(30) DEF dm9000_hash_table, TypeOK, IndexInv, High, Lines
<1>9. CASE dmfe_do_ioctl
  BY <1>9, SMTT(30) DEF dmfe_do_ioctl, TypeOK, Steps, PhyRegs, IndexInv, High, Lines
<1>10. CASE PhySelect
  <2>1. cut' \in BOOLEAN
    BY <1>10, Zenon DEF PhySelect, TypeOK, phy
  <2>2. TypeOK'
    BY <1>10, <2>1, SMTT(30) DEF PhySelect, TypeOK, IndexInv, High, Lines
  <2>3. Levels' /\ EdgeLatched' /\ Counters' /\ MaskInv' /\ IndexInv' /\ CountInv' /\ PacketInv' /\ StopInv'
    BY <1>10, SMTT(30) DEF PhySelect, TypeOK, IndexInv, High, Lines
  <2> QED BY <2>2, <2>3
<1>11. CASE PhyAccess
  <2>1. step' \in Steps /\ held' \subseteq PhyRegs /\ (step = "lost" => step' \in {"lost", "ask"})
    <3>1. step' \in After[step] /\ held' \in {{}, held, Filled[step]}
      BY <1>11, Zenon DEF PhyAccess
    <3> QED BY <3>1, AfterFilled DEF TypeOK
  <2>2. idx \in {"PHY", "IMR", "TCR"} /\ (idx # "PHY" => step = "lost")
    BY <1>11, SMTT(30) DEF PhyAccess, IndexInv, TypeOK
  <2>3. cut' = FALSE /\ idx' = "none" /\ proc' \in {"none", "phy"} /\ phase = "up" /\ irq = "none" /\ soft = "none" /\ proc = "access"
    BY <1>11, Zenon DEF PhyAccess, Levels, NoSoft, NoIrq
  <2>7. proc' = "none" <=> step' = "ask"
    BY <1>11, Zenon DEF PhyAccess
  <2>8. cut' \in BOOLEAN /\ IndexInv'
    <3>1. cut' \in BOOLEAN
      BY <2>3, Zenon
    <3>2. proc' \notin {"phy", "access"} => step' = "ask"
      BY <2>3, <2>7, Zenon
    <3>3. proc' # "access" /\ (cut' => step' = "lost")
      BY <2>3, Zenon
    <3> QED BY <3>1, <3>2, <3>3, Zenon DEF IndexInv
  <2>4. CASE idx = "PHY"
    <3>1. UNCHANGED <<line, flight, mishap>>
      BY <1>11, <2>4, Zenon DEF PhyAccess
    <3> HIDE DEF PhyUsed
    <3>2. UNCHANGED <<net, Speed, tx_pkt_cnt, nsr, recv, inIrq, soft, loaded>>
      BY <1>11, Zenon DEF PhyAccess
    <3>3. TypeOK'
      BY <2>1, <2>3, <2>8, <3>1, <3>2, SMTT(40) DEF TypeOK, High
    <3>4. Levels' /\ EdgeLatched' /\ Counters' /\ MaskInv' /\ CountInv' /\ PacketInv' /\ StopInv'
      BY <2>1, <2>3, <3>1, <3>2, SMTT(40) DEF TypeOK, High
    <3> QED BY <2>8, <3>3, <3>4
  <2>5. CASE idx = "IMR"
    <3>1. PICK m \in SUBSET Sources : Lines(isr, m)
      BY <1>11, <2>5, Zenon DEF PhyAccess, Stray
    <3>2. mishap' = mishap \cup {"mask"} /\ UNCHANGED flight
      BY <1>11, <2>5, Zenon DEF PhyAccess, Stray
    <3>3. UNCHANGED <<net, Speed, tx_pkt_cnt, nsr, recv, inIrq, soft, loaded>>
      BY <1>11, Zenon DEF PhyAccess
    <3>4. TypeOK'
      BY <2>1, <2>3, <2>8, <3>1, <3>2, <3>3, SMTT(40) DEF TypeOK, High, Lines
    <3>5. isr' = isr /\ imr' = m /\ (pend' <=> pend \/ (irqOn /\ ~High(isr, imr) /\ High(isr', imr')))
      BY <3>1, Zenon DEF Lines
    <3>6. Levels'
      BY <2>3, <2>7, <3>3, <3>5, SMTT(40)
    <3>7. EdgeLatched' /\ Counters'
      BY <3>3, <3>5, SMTT(40)
    <3>8. MaskInv' /\ CountInv' /\ PacketInv' /\ StopInv'
      BY <2>3, <3>2, <3>3, <3>5, SMTT(40) DEF TypeOK
    <3> QED BY <2>8, <3>4, <3>6, <3>7, <3>8
  <2>6. CASE idx = "TCR"
    <3>1. flight' \in {flight, IF flight < 3 THEN flight + 1 ELSE flight}
      BY <1>11, <2>6, Zenon DEF PhyAccess, Stray
    <3>2. mishap' = mishap \cup {"count"} /\ UNCHANGED line
      BY <1>11, <2>6, Zenon DEF PhyAccess, Stray
    <3>3. UNCHANGED <<net, Speed, tx_pkt_cnt, nsr, recv, inIrq, soft, loaded>>
      BY <1>11, Zenon DEF PhyAccess
    <3>4. TypeOK'
      BY <2>1, <2>3, <2>8, <3>1, <3>2, <3>3, SMTT(40) DEF TypeOK, High, Lines
    <3>5. Levels' /\ EdgeLatched' /\ Counters' /\ MaskInv' /\ CountInv' /\ PacketInv' /\ StopInv'
      BY <2>1, <2>3, <3>1, <3>2, <3>3, SMTT(40) DEF TypeOK, High, Lines
    <3> QED BY <2>8, <3>4, <3>5
  <2> QED BY <2>2, <2>4, <2>5, <2>6
<1> QED BY <1>1, <1>2, <1>3, <1>4, <1>5, <1>6, <1>7, <1>8, <1>9, <1>10, <1>11, <1>12 DEF Process

(* A softirq: transmit, the timer, the watchdog. *)
LEMMA SoftirqStep == IInv /\ Softirq => Base'
<1> SUFFICES ASSUME IInv, Softirq PROVE Base'
  OBVIOUS
<1> USE RxAssumption, RevisionAssumption
    DEF IInv, Base, Levels, EdgeLatched, Counters, MaskInv, CountInv, CountCovers, PacketInv,
        StopInv, Sources, Speeds, Mishaps, Sending, Zeroed, NoIrq, NoSoft,
        net, count, line, recv, inIrq, phy, PhyUsed, Select, Selected,
        dmfe_init_dm9000, Begin, Limit
<1>1. CASE XmitLoad
  <2>1. (proc = "access" => cut' = TRUE /\ step' = "lost" /\ held' = {}) /\ (proc # "access" => UNCHANGED <<cut, step, held>>)
    BY <1>1, Zenon DEF XmitLoad, Begin
  <2>2. cut' \in BOOLEAN /\ step' \in Steps /\ held' \subseteq PhyRegs
    <3>1. cut \in BOOLEAN /\ step \in Steps /\ held \subseteq PhyRegs /\ "lost" \in Steps
      BY DEF TypeOK, Steps
    <3>2. CASE proc = "access"
      BY <2>1, <3>1, <3>2, Zenon
    <3>3. CASE proc # "access"
      BY <2>1, <3>1, <3>3, Zenon
    <3> QED BY <3>2, <3>3
  <2>3. IndexInv'
    BY <1>1, <2>1, SMTT(30) DEF XmitLoad, TypeOK, IndexInv, High, Lines
  <2>4. TypeOK'
    BY <1>1, <2>2, SMTT(30) DEF XmitLoad, TypeOK
  <2>5. Levels' /\ EdgeLatched' /\ Counters' /\ MaskInv' /\ CountInv' /\ PacketInv' /\ StopInv'
    BY <1>1, SMTT(30) DEF XmitLoad, TypeOK, High, Lines
  <2> QED BY <2>3, <2>4, <2>5
<1>2. CASE XmitStore
  BY <1>2, SMTT(30) DEF XmitStore, TypeOK, IndexInv, High, Lines
<1>3. CASE XmitTest
  BY <1>3, SMTT(30) DEF XmitTest, TypeOK, IndexInv, High, Lines
<1>4. CASE XmitStop
  BY <1>4, SMTT(30) DEF XmitStop, TypeOK, IndexInv, High, Lines
<1>5. CASE XmitSend
  <2>1. pend' <=> High(isr', imr')
    BY <1>5, Zenon DEF XmitSend
  <2>2. EdgeLatched'
    BY <1>5, <2>1, SMTT(30) DEF XmitSend, TypeOK, IndexInv, High, Lines
  <2>3. TypeOK' /\ Levels' /\ Counters' /\ MaskInv' /\ IndexInv' /\ CountInv' /\ PacketInv' /\ StopInv'
    BY <1>5, SMTT(30) DEF XmitSend, TypeOK, IndexInv, High, Lines
  <2> QED BY <2>2, <2>3
<1>6. CASE TimerZero
  <2>1. (proc = "access" => cut' = TRUE /\ step' = "lost" /\ held' = {}) /\ (proc # "access" => UNCHANGED <<cut, step, held>>)
    BY <1>6, Zenon DEF TimerZero, Begin
  <2>2. cut' \in BOOLEAN /\ step' \in Steps /\ held' \subseteq PhyRegs
    <3>1. cut \in BOOLEAN /\ step \in Steps /\ held \subseteq PhyRegs /\ "lost" \in Steps
      BY DEF TypeOK, Steps
    <3>2. CASE proc = "access"
      BY <2>1, <3>1, <3>2, Zenon
    <3>3. CASE proc # "access"
      BY <2>1, <3>1, <3>3, Zenon
    <3> QED BY <3>2, <3>3
  <2>3. IndexInv'
    BY <1>6, <2>1, SMTT(30) DEF TimerZero, TypeOK, IndexInv, High, Lines
  <2>4. TypeOK'
    BY <1>6, <2>2, SMTT(30) DEF TimerZero, TypeOK
  <2>5. Levels' /\ EdgeLatched' /\ Counters' /\ MaskInv' /\ CountInv' /\ PacketInv' /\ StopInv'
    BY <1>6, SMTT(30) DEF TimerZero, TypeOK, High, Lines
  <2> QED BY <2>3, <2>4, <2>5
<1>7. CASE TimerUnmask
  <2>1. pend' <=> pend \/ (irqOn /\ ~High(isr, imr) /\ High(isr', imr'))
    BY <1>7, Zenon DEF TimerUnmask, Lines
  <2>2. EdgeLatched'
    BY <1>7, <2>1, SMTT(30) DEF TimerUnmask, TypeOK, IndexInv, High, Lines
  <2>3. TypeOK' /\ Levels' /\ Counters' /\ MaskInv' /\ IndexInv' /\ CountInv' /\ PacketInv' /\ StopInv'
    BY <1>7, SMTT(30) DEF TimerUnmask, TypeOK, IndexInv, High, Lines
  <2> QED BY <2>2, <2>3
<1>8. CASE Watchdog
  <2>1. (proc = "access" => cut' = TRUE /\ step' = "lost" /\ held' = {}) /\ (proc # "access" => UNCHANGED <<cut, step, held>>)
    BY <1>8, Zenon DEF Watchdog, Begin
  <2>2. cut' \in BOOLEAN /\ step' \in Steps /\ held' \subseteq PhyRegs
    <3>1. cut \in BOOLEAN /\ step \in Steps /\ held \subseteq PhyRegs /\ "lost" \in Steps
      BY DEF TypeOK, Steps
    <3>2. CASE proc = "access"
      BY <2>1, <3>1, <3>2, Zenon
    <3>3. CASE proc # "access"
      BY <2>1, <3>1, <3>3, Zenon
    <3> QED BY <3>2, <3>3
  <2>3. IndexInv'
    BY <1>8, <2>1, SMTT(30) DEF Watchdog, TypeOK, IndexInv, High, Lines
  <2>4. TypeOK'
    BY <1>8, <2>2, SMTT(30) DEF Watchdog, TypeOK
  <2>5. Levels' /\ EdgeLatched' /\ Counters' /\ MaskInv' /\ CountInv' /\ PacketInv' /\ StopInv'
    BY <1>8, SMTT(30) DEF Watchdog, TypeOK, High, Lines
  <2> QED BY <2>3, <2>4, <2>5
<1>9. CASE WatchdogIdle
  BY <1>9, SMTT(30) DEF WatchdogIdle, TypeOK, IndexInv, High, Lines
<1>10. CASE WatchdogReset
  BY <1>10, SMTT(30) DEF WatchdogReset, TypeOK, Steps, PhyRegs, IndexInv, High, Lines
<1>11. CASE ResetLink
  BY <1>11, SMTT(30) DEF ResetLink, TypeOK, Steps, PhyRegs, IndexInv, High, Lines
<1> QED BY <1>1, <1>2, <1>3, <1>4, <1>5, <1>6, <1>7, <1>8, <1>9, <1>10, <1>11 DEF Softirq

(* The interrupt handler. *)
LEMMA HandlerStep == IInv /\ dmfe_interrupt => Base'
<1> SUFFICES ASSUME IInv, dmfe_interrupt PROVE Base'
  OBVIOUS
<1> USE RxAssumption, RevisionAssumption
    DEF IInv, Base, Levels, EdgeLatched, Counters, MaskInv, CountInv, CountCovers, PacketInv,
        StopInv, Sources, Speeds, Mishaps, Sending, Zeroed, NoIrq, NoSoft,
        net, count, line, recv, inIrq, phy, PhyUsed, Select, Selected,
        dmfe_init_dm9000, Handler, HandlerOn, AfterReceive, dmfe_tx_done
<1>1. CASE IrqMask
  <2>1. pend' \in BOOLEAN
    BY <1>1, Zenon DEF IrqMask
  <2>2. TypeOK'
    BY <1>1, <2>1, SMTT(30) DEF IrqMask, TypeOK, IndexInv, High, Lines
  <2>3. Levels' /\ EdgeLatched' /\ Counters' /\ MaskInv' /\ IndexInv' /\ CountInv' /\ PacketInv' /\ StopInv'
    BY <1>1, SMTT(30) DEF IrqMask, TypeOK, IndexInv, High, Lines
  <2> QED BY <2>2, <2>3
<1>2. CASE IrqClear
  BY <1>2, SMTT(30) DEF IrqClear, TypeOK, IndexInv, High, Lines
<1>3. CASE IrqLink
  BY <1>3, SMTT(30) DEF IrqLink, TypeOK, Steps, PhyRegs, IndexInv, High, Lines
<1>4. CASE IrqReceive
  BY <1>4, SMTT(30) DEF IrqReceive, TypeOK, IndexInv, High, Lines
<1>5. CASE RxEmpty
  BY <1>5, SMTT(30) DEF RxEmpty, TypeOK, IndexInv, High, Lines
<1>6. CASE RxGood
  BY <1>6, SMTT(30) DEF RxGood, TypeOK, IndexInv, High, Lines
<1>7. CASE RxBad
  BY <1>7, SMTT(30) DEF RxBad, TypeOK, IndexInv, High, Lines
<1>8. CASE RxSqueeze
  BY <1>8, SMTT(30) DEF RxSqueeze, TypeOK, IndexInv, High, Lines
<1>9. CASE RxReset
  BY <1>9, SMTT(30) DEF RxReset, TypeOK, Steps, PhyRegs, IndexInv, High, Lines
<1>10. CASE TxDone("contdone", "contspin", AfterReceive)
  BY <1>10, SMTT(30) DEF TxDone, TypeOK, IndexInv, High, Lines
<1>11. CASE TxSpin("contspin", AfterReceive)
  BY <1>11, SMTT(30) DEF TxSpin, TypeOK, IndexInv, High, Lines
<1>12. CASE TxDone("done", "spin", "exit")
  BY <1>12, SMTT(30) DEF TxDone, TypeOK, IndexInv, High, Lines
<1>13. CASE TxSpin("spin", "exit")
  BY <1>13, SMTT(30) DEF TxSpin, TypeOK, IndexInv, High, Lines
<1>14. CASE IrqExit
  BY <1>14, SMTT(30) DEF IrqExit, TypeOK, IndexInv, High, Lines
<1> QED BY <1>1, <1>2, <1>3, <1>4, <1>5, <1>6, <1>7, <1>8, <1>9, <1>10, <1>11, <1>12, <1>13, <1>14 DEF dmfe_interrupt

(* By each step the registers of the PHY hold what it needs. *)
LEMMA Fills ==
  ASSUME TypeOK, Needs[step] \subseteq held, NEW s \in After[step], s # "ask"
  PROVE  Needs[s] \subseteq Filled[step]
<1> USE DEF Needs, After, Filled, PhyRegs
<1>1. CASE step = "ask"
  BY <1>1
<1>2. CASE step = "read"
  BY <1>2
<1>3. CASE step = "data"
  BY <1>3
<1>4. CASE step = "low"
  BY <1>4
<1>5. CASE step = "high"
  BY <1>5
<1>6. CASE step = "write"
  BY <1>6
<1>7. CASE step = "lost"
  BY <1>7
<1> QED BY <1>1, <1>2, <1>3, <1>4, <1>5, <1>6, <1>7 DEF TypeOK, Steps

LEMMA PhyStep == IInv /\ Next => PhyInv'
<1> SUFFICES ASSUME IInv, Next PROVE PhyInv'
  OBVIOUS
<1>0. TypeOK /\ Levels /\ IndexInv /\ PhyInv
  BY DEF IInv, Base
<1>1. Needs["lost"] = {} /\ Needs["ask"] = {}
  BY DEF Needs
<1>2. CASE UNCHANGED phy /\ (proc' = proc \/ proc' \notin {"phy", "access"})
  BY <1>0, <1>2 DEF PhyInv, phy
<1>3. CASE PhyUsed /\ (proc' = proc \/ proc' \notin {"phy", "access"})
  BY <1>1, <1>3 DEF PhyInv, PhyUsed
<1>4. CASE PhySelect
  <2>1. CASE proc = "none"
    <3>1. step = "ask"
      BY <1>0, <2>1 DEF IndexInv
    <3> QED BY <1>1, <1>4, <3>1 DEF PhySelect, PhyInv, phy
  <2>2. CASE proc = "phy"
    BY <1>0, <1>4, <2>2 DEF PhySelect, PhyInv, phy
  <2> QED BY <1>4, <2>1, <2>2 DEF PhySelect
<1>5. CASE PhyAccess
  <2>1. CASE step' = "ask"
    BY <1>1, <1>5, <2>1 DEF PhyAccess, PhyInv
  <2>2. CASE step' # "ask" /\ idx = "PHY"
    <3>1. Needs[step] \subseteq held /\ step' \in After[step] /\ held' = Filled[step]
      BY <1>0, <1>5, <2>2 DEF PhyAccess, PhyInv
    <3>2. Needs[step'] \subseteq Filled[step]
      BY <1>0, <2>2, <3>1, Fills
    <3> QED BY <3>1, <3>2 DEF PhyInv
  <2>3. CASE step' # "ask" /\ idx # "PHY"
    <3>1. irq = "none" /\ step = "lost"
      BY <1>0, <1>5, <2>3 DEF PhyAccess, IndexInv, Selected, NoSoft, NoIrq
    <3>2. step' = "lost"
      BY <1>5, <2>3, <3>1 DEF PhyAccess, After
    <3> QED BY <1>1, <3>2 DEF PhyInv
  <2> QED BY <2>1, <2>2, <2>3
<1>6. ASSUME NEW to, Begin(to), proc' = proc PROVE PhyInv'
  <2>1. CASE proc = "access"
    BY <1>1, <1>6, <2>1 DEF Begin, PhyInv
  <2>2. CASE proc # "access"
    BY <1>0, <1>6, <2>2 DEF Begin, PhyInv, phy
  <2> QED BY <2>1, <2>2
<1>7. CASE Chip
  BY <1>2, <1>7 DEF Chip, RxArrives, TxCompletes, LinkChanges
<1>8. CASE Process
  <2>1. CASE OpenIrq \/ OpenZero \/ OpenSpeed \/ StopTimer \/ StopQueue \/ StopFree \/ StopQuiet
    BY <1>2, <2>1 DEF OpenIrq, OpenZero, OpenSpeed, StopTimer, StopQueue, StopFree, StopQuiet
  <2>2. CASE dm9000_hash_table
    BY <1>2, <2>2 DEF dm9000_hash_table
  <2>3. CASE dmfe_do_ioctl \/ OpenInit
    BY <1>3, <2>3 DEF dmfe_do_ioctl, OpenInit, dmfe_init_dm9000
  <2> QED BY <1>4, <1>5, <1>8, <2>1, <2>2, <2>3 DEF Process
<1>9. CASE Softirq
  <2>1. CASE XmitLoad \/ TimerZero \/ Watchdog
    BY <1>6, <2>1 DEF XmitLoad, TimerZero, Watchdog
  <2>2. CASE XmitStore \/ XmitTest \/ XmitStop \/ XmitSend \/ TimerUnmask \/ WatchdogIdle
    BY <1>2, <2>2 DEF XmitStore, XmitTest, XmitStop, XmitSend, TimerUnmask, WatchdogIdle
  <2>3. CASE WatchdogReset \/ ResetLink
    BY <1>3, <2>3 DEF WatchdogReset, ResetLink, dmfe_init_dm9000
  <2> QED BY <1>9, <2>1, <2>2, <2>3 DEF Softirq
<1>10. CASE dmfe_interrupt
  <2>1. CASE IrqLink \/ RxReset
    BY <1>3, <2>1 DEF IrqLink, RxReset, dmfe_init_dm9000
  <2>2. CASE IrqMask \/ IrqClear \/ IrqReceive \/ RxEmpty \/ RxGood \/ RxBad \/ RxSqueeze \/ IrqExit
    BY <1>2, <2>2 DEF IrqMask, IrqClear, IrqReceive, RxEmpty, RxGood, RxBad, RxSqueeze, IrqExit
  <2>3. CASE dmfe_tx_done
    BY <1>2, <2>3 DEF dmfe_tx_done, TxDone, TxSpin
  <2> QED BY <1>10, <2>1, <2>2, <2>3 DEF dmfe_interrupt
<1> QED BY <1>7, <1>8, <1>9, <1>10 DEF Next

(* The inductive invariant holds throughout. *)
THEOREM Inductive == Spec => []IInv
<1>1. IInv /\ [Next]_vars => IInv'
  <2> SUFFICES ASSUME IInv, [Next]_vars PROVE IInv'
    OBVIOUS
  <2>1. CASE Next
    <3>1. Base'
      BY <2>1, ChipStep, ProcessStep, SoftirqStep, HandlerStep DEF Next
    <3> QED BY <2>1, <3>1, PhyStep DEF IInv
  <2>2. CASE UNCHANGED vars
    <3>1. Base'
      BY <2>2, SMTT(30) DEF vars, net, count, line, recv, inIrq, phy, IInv, Base, TypeOK, Levels, EdgeLatched, High,
         Counters, MaskInv, IndexInv, Selected, CountInv, CountCovers, Sending, PacketInv, StopInv
    <3> QED BY <2>2, <3>1 DEF vars, phy, IInv, PhyInv
  <2> QED BY <2>1, <2>2
<1> QED BY <1>1, InitInv, PTL DEF Spec

(* The counts and registers stay within their ranges. *)
THEOREM TypeCorrect == Spec => []TypeOK
<1>1. IInv => TypeOK
  BY RxAssumption DEF IInv, Base
<1> QED BY <1>1, Inductive, PTL

(* No edge of the interrupt line is missed. *)
THEOREM NoLostInterruptHolds == Spec => []NoLostInterrupt
<1>1. IInv => NoLostInterrupt
  BY RxAssumption DEF IInv, Base, EdgeLatched, NoLostInterrupt
<1> QED BY <1>1, Inductive, PTL

(* RX is masked only when the timer will unmask it. *)
THEOREM MaskIsTimedHolds == Spec => []MaskIsTimed
<1>1. IInv => MaskIsTimed
  BY RxAssumption DEF IInv, Base, MaskInv, Levels, MaskIsTimed
<1> QED BY <1>1, Inductive, PTL

(* Interrupts for packets and completions, transmits and timers leave the   *)
(* index and the PHY registers of an unlocked transaction as they were.     *)
THEOREM IndexKeptHolds == Spec => []IndexKept
<1>1. IInv => IndexKept
  BY RxAssumption DEF IInv, Base, IndexInv, Selected, PhyInv, IndexKept
<1> QED BY <1>1, Inductive, PTL

(* The packet count covers the packets on their way and exceeds them by one *)
(* at most, while it has not been zeroed under them.                        *)
THEOREM CountCoversHolds == Spec => []CountCovers
<1>1. IInv => CountCovers
  BY RxAssumption DEF IInv, Base, CountInv
<1> QED BY <1>1, Inductive, PTL

(* A packet in the receive memory has its status bit set between handlers. *)
THEOREM NoForgottenPacketHolds == Spec => []NoForgottenPacket
<1>1. IInv => NoForgottenPacket
  BY RxAssumption DEF IInv, Base, PacketInv, NoForgottenPacket
<1> QED BY <1>1, Inductive, PTL

(* A stopped queue has a completion to come. *)
THEOREM StoppedHasReasonHolds == Spec => []StoppedHasReason
<1>1. IInv => StoppedHasReason
  BY RxAssumption DEF IInv, Base, StopInv, StoppedHasReason
<1> QED BY <1>1, Inductive, PTL
===============================================================================
