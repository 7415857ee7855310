-------------------------------- MODULE Dm9000 --------------------------------
(***************************************************************************)
(* The DM9000 network driver device_tree/dm9000/dm9dev9000c.c: open and    *)
(* stop, the transmit path with its packet count, the edge-triggered       *)
(* interrupt, the receive loop, the periodic timer, the watchdog and its   *)
(* reset, and the ethtool calls that use the registers without the lock.   *)
(* One processor: the interrupt handler runs on top of a softirq (transmit *)
(* or a timer), which runs on top of a process; a lower one goes on when   *)
(* the higher has ended. The chip acts at any time.                        *)
(***************************************************************************)
EXTENDS Integers

CONSTANTS
  Revision1A,       \* chip_revision is 0x1A
  MaxRx,            \* the packets that fit in the receive memory
  CONT_RX_PKT_CNT,  \* the packets received in a row before RX is masked
  Again             \* a process uses the PHY also while the mask or the count is
                    \* still off from an earlier use (FALSE bounds the states)

ASSUME RevisionAssumption == Revision1A \in BOOLEAN /\ Again \in BOOLEAN
(* 13 KB of memory hold far fewer packets than 0xFFFF. *)
ASSUME RxAssumption ==
  MaxRx \in Nat \ {0} /\ CONT_RX_PKT_CNT \in Nat /\ MaxRx < CONT_RX_PKT_CNT

Sources == {"RX", "TX", "LINK"}     \* DM9KS_REGFF; DM9KS_DISINTR is {}
Speeds  == {10, 100}

VARIABLES
  \* the driver's data
  phase,        \* down, opening, up or stopping
  queue,        \* the transmit queue: awake or stopped
  timer,        \* dmfe_timer is pending
  irqOn,        \* the interrupt is requested
  Speed, tx_pkt_cnt, cont_rx_pkt_cnt,
  \* the chip
  isr, imr,     \* interrupt status and mask
  pend,         \* the rising edge of the interrupt line is latched
  flight,       \* packets in the transmit memory that are not sent yet
  nsr,          \* completions in the network status register; reading clears them
  rx,           \* packets in the receive memory
  rxOn,         \* the receiver is enabled
  idx,          \* the register that the index port selects, while a process is
                \* between its index write and its access (none otherwise)
  \* who runs where
  irq,          \* the step of the interrupt handler
  int_status, reg_save,
  soft,         \* the step of the softirq
  loaded,       \* tx_pkt_cnt as loaded by the increment
  proc,         \* the step of the process
  step,         \* the next access of its phy_read or phy_write
  held,         \* the PHY registers EPAR and EPDR that hold what it put or asked for
  \* history
  cut,          \* a softirq came between its index write and its access
  mishap        \* what is off: the mask, the count, a packet for want of memory

net   == <<phase, queue, timer, irqOn>>
count == <<tx_pkt_cnt, flight, nsr>>
line  == <<isr, imr, pend>>
recv  == <<rx, rxOn, cont_rx_pkt_cnt>>
inIrq == <<irq, int_status, reg_save>>
phy   == <<step, held, cut>>
vars  == <<net, Speed, count, line, recv, idx, inIrq, soft, loaded, proc, phy, mishap>>

(* phy_read asks for a register, commands, and takes the data; phy_write    *)
(* asks for one, puts the low byte, then the high one, and commands. When   *)
(* another user of the PHY or a softirq has come across, the accesses go    *)
(* on, with whatever is in the registers.                                   *)
Steps   == {"ask", "read", "data", "low", "high", "write", "lost"}
PhyRegs == {"EPAR", "EPDRL", "EPDRH"}

(* What a step needs in them; the data of a read are those of the register  *)
(* that EPAR named at the command.                                          *)
Needs == [ask |-> {}, read |-> {"EPAR"}, data |-> PhyRegs, low |-> {"EPAR"},
          high |-> {"EPAR", "EPDRL"}, write |-> PhyRegs, lost |-> {}]

Mishaps == {"mask", "count", "memory"}

TypeOK ==
  /\ phase \in {"down", "opening", "up", "stopping"} /\ queue \in {"awake", "stopped"}
  /\ timer \in BOOLEAN /\ irqOn \in BOOLEAN /\ Speed \in Speeds
  /\ tx_pkt_cnt \in -2 .. 2 /\ cont_rx_pkt_cnt \in 0 .. CONT_RX_PKT_CNT
  /\ isr \subseteq Sources /\ imr \subseteq Sources /\ pend \in BOOLEAN
  /\ flight \in 0 .. 3 /\ nsr \in 0 .. 2 /\ rx \in 0 .. MaxRx
  /\ rxOn \in BOOLEAN
  /\ idx \in {"none", "PHY", "IMR", "TCR"}
  /\ irq \in {"none", "status", "link", "receive", "loop", "contdone", "contspin",
              "done", "spin", "exit"}
  /\ int_status \subseteq Sources /\ reg_save \in {"none", "PHY", "IMR", "TCR"}
  /\ soft \in {"none", "store", "test", "stop", "send", "unmask", "timeout", "link"}
  /\ loaded \in 0 .. 1
  /\ proc \in {"none", "init", "zero", "speed", "phy", "access", "queue", "free", "quiet"}
  /\ step \in Steps /\ held \subseteq PhyRegs /\ cut \in BOOLEAN
  /\ mishap \subseteq Mishaps

(* After dmfe_probe1. *)
Init ==
  /\ phase = "down" /\ queue = "stopped" /\ timer = FALSE /\ irqOn = FALSE
  /\ Speed = 10 /\ tx_pkt_cnt = 0 /\ cont_rx_pkt_cnt = 0 
  /\ isr = {} /\ imr = {} /\ pend = FALSE
  /\ flight = 0 /\ nsr = 0 /\ rx = 0 /\ rxOn = FALSE /\ idx = "none"
  /\ irq = "none" /\ int_status = {} /\ reg_save = "none"
  /\ soft = "none" /\ loaded = 0 /\ proc = "none"
  /\ step = "ask" /\ held = {} /\ cut = FALSE /\ mishap = {}

(* The interrupt line is high while an unmasked status bit is set; its      *)
(* rising edge is latched.                                                  *)
High(i, m) == i \cap m # {}

Lines(i, m) ==
  /\ isr' = i /\ imr' = m
  /\ pend' = (pend \/ (irqOn /\ ~High(isr, imr) /\ High(i, m)))

(* The processor takes a latched interrupt before anything else.            *)
NoIrq   == irq = "none" /\ ~pend
NoSoft  == NoIrq /\ soft = "none"

(* An index write over one of a process. *)
Select(reg) == idx' = IF proc = "access" THEN reg ELSE "none"

(* A packet is counted and not yet in the transmit memory. *)
Sending == IF soft \in {"test", "stop", "send"} THEN 1 ELSE 0

(* tx_pkt_cnt is set to 0 while `owed' packets are on their way. *)
Zeroed(owed) == IF owed = 0 THEN mishap \ {"count"} ELSE mishap \cup {"count"}

(***************************************************************************)
(* The chip.                                                               *)
(***************************************************************************)
RxArrives ==
  /\ rxOn /\ rx < MaxRx
  /\ rx' = rx + 1 /\ Lines(isr \cup {"RX"}, imr)
  /\ UNCHANGED <<net, Speed, count, rxOn, cont_rx_pkt_cnt, idx, inIrq, soft, loaded, proc, phy>>
  /\ mishap' = mishap \ {"memory"}

(* Two status bits stand for the completions. *)
TxCompletes ==
  /\ flight > 0
  /\ flight' = flight - 1 /\ nsr' = IF nsr < 2 THEN nsr + 1 ELSE nsr
  /\ Lines(isr \cup {"TX"}, imr)
  /\ UNCHANGED <<net, Speed, tx_pkt_cnt, recv, idx, inIrq, soft, loaded, proc, phy, mishap>>

LinkChanges ==
  /\ phase # "down" /\ Lines(isr \cup {"LINK"}, imr)
  /\ UNCHANGED <<net, Speed, count, recv, idx, inIrq, soft, loaded, proc, phy, mishap>>

Chip == RxArrives \/ TxCompletes \/ LinkChanges

(* phy_read and phy_write of an open, a softirq or a handler replace what a *)
(* process has in the registers of the PHY.                                 *)
PhyUsed ==
  /\ held' = {} /\ step' = IF proc \in {"phy", "access"} THEN "lost" ELSE step
  /\ UNCHANGED cut

(* The chip is reset and set up, the PHY by set_PHY_mode. *)
dmfe_init_dm9000 ==
  /\ PhyUsed
  /\ Lines({}, Sources)
  /\ tx_pkt_cnt' = 0 /\ flight' = 0 /\ nsr' = 0
  /\ rx' = 0 /\ rxOn' = TRUE
  /\ mishap' = IF Sending = 1 THEN {"count"} ELSE {}

(***************************************************************************)
(* A process: open, stop, the filter, ethtool.                             *)
(***************************************************************************)
OpenIrq ==
  /\ NoSoft /\ phase = "down"
  /\ \/ phase' = "opening" /\ irqOn' = TRUE /\ proc' = "init"
     \/ UNCHANGED <<phase, irqOn, proc>>                       \* -EAGAIN
  /\ UNCHANGED <<queue, timer, Speed, count, line, recv, idx, inIrq, soft, loaded>>
  /\ UNCHANGED <<phy, mishap>>

OpenInit ==
  /\ NoSoft /\ proc = "init" /\ proc' = "zero"
  /\ dmfe_init_dm9000 /\ UNCHANGED idx
  /\ UNCHANGED <<net, Speed, cont_rx_pkt_cnt, inIrq, soft, loaded>>

(* Its interrupts are enabled; one may already have masked RX for the timer. *)
OpenZero ==
  /\ NoSoft /\ proc = "zero" /\ proc' = "speed"
  /\ cont_rx_pkt_cnt' = 0
  /\ mishap' = IF "RX" \in imr THEN mishap ELSE mishap \cup {"mask"}
  /\ UNCHANGED <<net, Speed, count, line, rx, rxOn, idx, inIrq, soft, loaded, phy>>

(* The speed is read with the status; dev_open then sets the filter. *)
OpenSpeed ==
  /\ NoSoft /\ proc = "speed" /\ proc' = "none"
  /\ Speed' \in Speeds /\ nsr' = 0
  /\ timer' = TRUE /\ queue' = "awake" /\ phase' = "up"
  /\ rxOn' = TRUE /\ UNCHANGED idx
  /\ UNCHANGED <<irqOn, tx_pkt_cnt, flight, line, rx, cont_rx_pkt_cnt, inIrq, soft, loaded>>
  /\ UNCHANGED <<phy, mishap>>

StopTimer ==
  /\ NoSoft /\ phase = "up" /\ proc = "none"
  /\ phase' = "stopping" /\ timer' = FALSE /\ proc' = "queue"
  /\ UNCHANGED <<queue, irqOn, Speed, count, line, recv, idx, inIrq, soft, loaded>>
  /\ UNCHANGED <<phy, mishap>>

(* A link interrupt may still wake it. *)
StopQueue ==
  /\ NoSoft /\ proc = "queue" /\ proc' = "free"
  /\ queue' = "stopped"
  /\ UNCHANGED <<phase, timer, irqOn, Speed, count, line, recv, idx, inIrq, soft, loaded>>
  /\ UNCHANGED <<phy, mishap>>

StopFree ==
  /\ NoSoft /\ proc = "free" /\ proc' = "quiet"
  /\ irqOn' = FALSE /\ pend' = FALSE
  /\ UNCHANGED <<phase, queue, timer, Speed, count, isr, imr, recv, idx, inIrq, soft, loaded>>
  /\ UNCHANGED <<phy, mishap>>

StopQuiet ==
  /\ NoSoft /\ proc = "quiet" /\ proc' = "none"
  /\ phase' = "down" /\ Lines(isr, {}) /\ rxOn' = FALSE /\ UNCHANGED idx
  /\ UNCHANGED <<queue, timer, irqOn, Speed, count, rx, cont_rx_pkt_cnt, inIrq>>
  /\ UNCHANGED <<soft, loaded, phy, mishap>>

(* ndo_set_rx_mode: the multicast table, and the filter with the receiver. *)
dm9000_hash_table ==
  /\ NoSoft /\ phase = "up" /\ proc = "none"
  /\ rxOn' = TRUE /\ UNCHANGED idx
  /\ UNCHANGED <<phase, queue, timer, irqOn, Speed, count, line, rx, cont_rx_pkt_cnt, inIrq>>
  /\ UNCHANGED <<soft, loaded, proc, phy, mishap>>

(* ioctl and settings hold the lock with interrupts off: all of it at once. *)
dmfe_do_ioctl ==
  /\ NoSoft /\ phase = "up" /\ proc = "none"
  /\ PhyUsed
  /\ UNCHANGED <<net, Speed, count, line, recv, idx, inIrq, soft, loaded, proc, mishap>>

(* get_link and nway_reset do not. An iow or ior of theirs to a register of *)
(* the PHY is an index write ...                                            *)
PhySelect ==
  /\ NoSoft /\ phase = "up"
  /\ \/ proc = "none" /\ (Again \/ mishap \subseteq {"memory"})
     \/ proc = "phy"
  /\ proc' = "access" /\ idx' = "PHY"
  /\ UNCHANGED <<net, Speed, count, line, recv, inIrq, soft, loaded, phy, mishap>>

(* ... and a data access, to whatever register the index selects by then: a *)
(* byte for the PHY that goes to the mask may have any of its bits, and one *)
(* that goes to the transmit command may send.                              *)
Stray ==
  CASE idx = "IMR" -> /\ \E m \in SUBSET Sources : Lines(isr, m)
                      /\ mishap' = mishap \cup {"mask"} /\ UNCHANGED flight
    [] idx = "TCR" -> /\ flight' \in {flight, IF flight < 3 THEN flight + 1 ELSE flight}
                      /\ mishap' = mishap \cup {"count"} /\ UNCHANGED line

(* A command is polled and the data are two bytes: so many accesses. After  *)
(* the last one the next transaction asks again.                            *)
After == [ask  |-> {"read", "low"}, read |-> {"read", "data"}, data  |-> {"data", "ask"},
          low  |-> {"high"},        high |-> {"write"},        write |-> {"write", "ask"},
          lost |-> {"lost", "ask"}]

(* The registers after the access of a step: a read command fills the data  *)
(* from the register that EPAR names.                                       *)
Filled == [ask |-> {"EPAR"}, read |-> IF "EPAR" \in held THEN PhyRegs ELSE {}, data |-> held,
           low |-> held \cup {"EPDRL"}, high |-> held \cup {"EPDRH"}, write |-> held,
           lost |-> {}]

PhyAccess ==
  /\ NoSoft /\ proc = "access"
  /\ IF idx = "PHY" THEN UNCHANGED <<line, flight, mishap>> ELSE Stray
  /\ step' \in After[step]
  /\ IF step' = "ask"
     THEN proc' = "none" /\ held' = {}
     ELSE proc' = "phy" /\ held' = IF idx = "PHY" THEN Filled[step] ELSE held
  /\ idx' = "none" /\ cut' = FALSE
  /\ UNCHANGED <<net, Speed, tx_pkt_cnt, nsr, recv, inIrq, soft, loaded>>

Process ==
  \/ OpenIrq \/ OpenInit \/ OpenZero \/ OpenSpeed
  \/ StopTimer \/ StopQueue \/ StopFree \/ StopQuiet
  \/ dm9000_hash_table \/ dmfe_do_ioctl \/ PhySelect \/ PhyAccess

(***************************************************************************)
(* Softirqs: dmfe_start_xmit, dmfe_timer, dmfe_timeout.                    *)
(***************************************************************************)
Limit == IF ~Revision1A /\ Speed = 10 THEN 1 ELSE 2

(* A softirq begins, on top of a process if one is in the driver. It leaves *)
(* the index port elsewhere.                                                *)
Begin(to) ==
  /\ NoSoft /\ phase = "up"
  /\ soft' = to
  /\ IF proc = "access" THEN cut' = TRUE /\ step' = "lost" /\ held' = {}
                        ELSE UNCHANGED phy

\* Mutant: the count is not looked at.
XmitLoad_NoLimit ==
  /\ queue = "awake"
  /\ Begin("store") /\ loaded' = tx_pkt_cnt
  /\ UNCHANGED <<net, Speed, count, line, recv, idx, inIrq, proc, mishap>>

(* Above the limit the packet goes back to the queue. The increment is a    *)
(* load and a store.                                                        *)
XmitLoad ==
  /\ queue = "awake" /\ tx_pkt_cnt < Limit
  /\ Begin("store") /\ loaded' = tx_pkt_cnt
  /\ UNCHANGED <<net, Speed, count, line, recv, idx, inIrq, proc, mishap>>

XmitStore ==
  /\ NoIrq /\ soft = "store" /\ soft' = "test"
  /\ tx_pkt_cnt' = loaded + 1 /\ loaded' = 0
  /\ UNCHANGED <<net, Speed, flight, nsr, line, recv, idx, inIrq, proc, phy, mishap>>

XmitTest ==
  /\ NoIrq /\ soft = "test"
  /\ soft' = IF tx_pkt_cnt >= Limit THEN "stop" ELSE "send"
  /\ UNCHANGED <<net, Speed, count, line, recv, idx, inIrq, loaded, proc, phy, mishap>>

XmitStop ==
  /\ NoIrq /\ soft = "stop" /\ soft' = "send"
  /\ queue' = "stopped"
  /\ UNCHANGED <<phase, timer, irqOn, Speed, count, line, recv, idx, inIrq, loaded>>
  /\ UNCHANGED <<proc, phy, mishap>>

(* With the interrupts masked the packet is copied and sent; a third one in *)
(* the memory overwrites another.                                           *)
XmitSend ==
  /\ NoIrq /\ soft = "send" /\ soft' = "none"
  /\ flight' = IF flight < 3 THEN flight + 1 ELSE flight
  /\ cont_rx_pkt_cnt' = 0
  /\ imr' = Sources /\ pend' = High(isr, Sources) /\ Select("IMR")
  /\ mishap' = mishap \ {"mask"}
  /\ UNCHANGED <<net, Speed, tx_pkt_cnt, nsr, isr, rx, rxOn, inIrq, loaded, proc, phy>>

(* dmfe_timer unmasks what the handler has masked. It is added again. *)
TimerZero ==
  /\ timer /\ cont_rx_pkt_cnt >= CONT_RX_PKT_CNT
  /\ Begin("unmask")
  /\ cont_rx_pkt_cnt' = 0
  /\ UNCHANGED <<net, Speed, count, line, rx, rxOn, idx, inIrq, loaded, proc, mishap>>

\* Mutant: the timer forgets to unmask.
TimerUnmask_Not ==
  /\ NoIrq /\ soft = "unmask" /\ soft' = "none"
  /\ UNCHANGED <<line, idx, mishap>>
  /\ UNCHANGED <<net, Speed, count, recv, inIrq, loaded, proc, phy>>

TimerUnmask ==
  /\ NoIrq /\ soft = "unmask" /\ soft' = "none"
  /\ Lines(isr, Sources) /\ Select("IMR")
  /\ mishap' = mishap \ {"mask"}
  /\ UNCHANGED <<net, Speed, count, recv, inIrq, loaded, proc, phy>>

(* dev_watchdog finds the queue stopped for five seconds. *)
Watchdog ==
  /\ queue = "stopped"
  /\ Begin("timeout") /\ Select("TCR")
  /\ UNCHANGED <<net, Speed, count, line, recv, inIrq, loaded, proc, mishap>>

\* Mutant: the transmitter is taken to be idle (as before V2.09).
WatchdogIdle_NoLook ==
  /\ NoIrq /\ soft = "timeout" /\ soft' = "none"
  /\ tx_pkt_cnt' = 0 /\ mishap' = Zeroed(nsr)
  /\ queue' = "awake"
  /\ UNCHANGED <<phase, timer, irqOn, Speed, flight, nsr, line, recv, idx, inIrq>>
  /\ UNCHANGED <<loaded, proc, phy>>

WatchdogIdle ==
  /\ NoIrq /\ soft = "timeout" /\ soft' = "none"
  /\ flight = 0
  /\ tx_pkt_cnt' = 0 /\ mishap' = Zeroed(nsr)
  /\ queue' = "awake"
  /\ UNCHANGED <<phase, timer, irqOn, Speed, flight, nsr, line, recv, idx, inIrq>>
  /\ UNCHANGED <<loaded, proc, phy>>

(* After 3 ms, whether or not the last look found the transmitter idle: dmfe_reset. *)
WatchdogReset ==
  /\ NoIrq /\ soft = "timeout" /\ soft' = "link"
  /\ queue' = "stopped" /\ dmfe_init_dm9000
  /\ UNCHANGED <<phase, timer, irqOn, Speed, cont_rx_pkt_cnt, idx, inIrq, loaded>>
  /\ UNCHANGED <<proc>>

\* Mutant: the reset leaves the queue stopped.
ResetLink_NoWake ==
  /\ NoIrq /\ soft = "link" /\ soft' = "none"
  /\ PhyUsed /\ Speed' \in Speeds
  /\ UNCHANGED <<net, count, line, recv, idx, inIrq, loaded, proc, mishap>>

ResetLink ==
  /\ NoIrq /\ soft = "link" /\ soft' = "none"
  /\ PhyUsed /\ Speed' \in Speeds /\ queue' = "awake"
  /\ UNCHANGED <<phase, timer, irqOn, count, line, recv, idx, inIrq, loaded, proc, mishap>>

Softirq ==
  \/ XmitLoad \/ XmitStore \/ XmitTest \/ XmitStop \/ XmitSend
  \/ TimerZero \/ TimerUnmask
  \/ Watchdog \/ WatchdogIdle \/ WatchdogReset \/ ResetLink

(***************************************************************************)
(* dmfe_interrupt, dmfe_packet_receive and dmfe_tx_done.                   *)
(***************************************************************************)
Handler(from, to) == irq = from /\ irq' = to /\ UNCHANGED <<int_status, reg_save>>

(* The same, and of int_status only `rest' is looked at from here on. *)
HandlerOn(from, to, rest) ==
  irq = from /\ irq' = to /\ int_status' = int_status \cap rest /\ UNCHANGED reg_save

\* Mutant: the interrupts are left unmasked.
IrqMask_Not ==
  /\ pend /\ irq = "none" /\ irq' = "status"
  /\ reg_save' = idx /\ Select("IMR")
  /\ int_status' = isr
  /\ pend' = FALSE /\ UNCHANGED <<isr, imr>>
  /\ UNCHANGED <<net, Speed, count, recv, soft, loaded, proc, phy, mishap>>

IrqMask ==
  /\ pend /\ irq = "none" /\ irq' = "status"
  /\ reg_save' = idx /\ Select("IMR")
  /\ int_status' = isr
  /\ imr' = {} /\ pend' = FALSE /\ UNCHANGED isr
  /\ UNCHANGED <<net, Speed, count, recv, soft, loaded, proc, phy, mishap>>

\* Mutant: every status bit is cleared, read or not.
IrqClear_All ==
  /\ HandlerOn("status", IF "LINK" \in int_status THEN "link" ELSE "receive", {"RX", "TX"})
  /\ Lines({}, imr)
  /\ UNCHANGED <<net, Speed, count, recv, idx, soft, loaded, proc, phy, mishap>>

(* The status bits that were read are cleared. *)
IrqClear ==
  /\ HandlerOn("status", IF "LINK" \in int_status THEN "link" ELSE "receive", {"RX", "TX"})
  /\ Lines(isr \ int_status, imr)
  /\ UNCHANGED <<net, Speed, count, recv, idx, soft, loaded, proc, phy, mishap>>

(* The link has changed: the new speed, or the old one if it stays down.    *)
IrqLink ==
  /\ Handler("link", "receive")
  /\ PhyUsed /\ Speed' \in Speeds /\ queue' = "awake"
  /\ UNCHANGED <<phase, timer, irqOn, count, line, recv, idx, soft, loaded, proc, mishap>>

AfterReceive == IF "TX" \in int_status THEN "done" ELSE "exit"

IrqReceive ==
  /\ HandlerOn("receive", IF "RX" \in int_status THEN "loop" ELSE AfterReceive, {"TX"})
  /\ cont_rx_pkt_cnt' = IF "RX" \in int_status THEN 0 ELSE cont_rx_pkt_cnt
  /\ UNCHANGED <<net, Speed, count, line, rx, rxOn, idx, soft, loaded, proc, phy, mishap>>

RxEmpty ==
  /\ Handler("loop", AfterReceive)
  /\ rx = 0
  /\ UNCHANGED <<net, Speed, count, line, recv, idx, soft, loaded, proc, phy, mishap>>

RxGood ==
  /\ rx > 0 /\ rx' = rx - 1
  /\ cont_rx_pkt_cnt' = cont_rx_pkt_cnt + 1
  /\ Handler("loop", IF cont_rx_pkt_cnt' >= CONT_RX_PKT_CNT THEN "contdone" ELSE "loop")
  /\ mishap' = mishap \ {"memory"}
  /\ UNCHANGED <<net, Speed, count, line, rxOn, idx, soft, loaded, proc, phy>>

(* A packet with an error in its status is read and dropped. *)
RxBad ==
  /\ Handler("loop", "loop")
  /\ rx > 0 /\ rx' = rx - 1
  /\ mishap' = mishap \ {"memory"}
  /\ UNCHANGED <<net, Speed, count, line, rxOn, cont_rx_pkt_cnt, idx, soft, loaded, proc, phy>>

(* No memory: the packet stays in the chip. *)
RxSqueeze ==
  /\ Handler("loop", AfterReceive)
  /\ rx > 0 /\ mishap' = mishap \cup {"memory"}
  /\ UNCHANGED <<net, Speed, count, line, recv, idx, soft, loaded, proc, phy>>

(* The first byte is neither 0 nor 1: dmfe_reset, inside the handler.       *)
RxReset ==
  /\ Handler("loop", AfterReceive)
  /\ dmfe_init_dm9000
  /\ Speed' \in Speeds /\ queue' = "awake"
  /\ UNCHANGED <<phase, timer, irqOn, cont_rx_pkt_cnt, idx, soft, loaded, proc>>

\* Mutant: the queue is not woken.
TxDone_NoWake(from, spin, to) ==
  /\ Handler(from, IF nsr = 0 \/ nsr > tx_pkt_cnt THEN spin ELSE to)
  /\ tx_pkt_cnt' = tx_pkt_cnt - nsr /\ nsr' = 0
  /\ UNCHANGED <<phase, queue, timer, irqOn, Speed, flight, line, recv, idx, soft>>
  /\ UNCHANGED <<loaded, proc, phy, mishap>>

(* The completions are read, and taken off the count. *)
TxDone(from, spin, to) ==
  /\ Handler(from, IF nsr = 0 \/ nsr > tx_pkt_cnt THEN spin ELSE to)
  /\ tx_pkt_cnt' = tx_pkt_cnt - nsr /\ nsr' = 0
  /\ queue' = IF nsr = 0 \/ nsr > tx_pkt_cnt THEN queue ELSE "awake"
  /\ UNCHANGED <<phase, timer, irqOn, Speed, flight, line, recv, idx, soft, loaded>>
  /\ UNCHANGED <<proc, phy, mishap>>

(* None, or too many: the handler waits for the transmitter to be idle.     *)
TxSpin(from, to) ==
  /\ Handler(from, to)
  /\ flight = 0
  /\ tx_pkt_cnt' = 0 /\ mishap' = Zeroed(nsr + Sending)
  /\ queue' = "awake"
  /\ UNCHANGED <<phase, timer, irqOn, Speed, flight, nsr, line, recv, idx, soft>>
  /\ UNCHANGED <<loaded, proc, phy>>

dmfe_tx_done ==
  \/ TxDone("contdone", "contspin", AfterReceive) \/ TxSpin("contspin", AfterReceive)
  \/ TxDone("done", "spin", "exit") \/ TxSpin("spin", "exit")

\* Mutant: the index port is left on the mask register.
IrqExit_NoRestore ==
  /\ irq = "exit" /\ irq' = "none"
  /\ Lines(isr, IF cont_rx_pkt_cnt >= CONT_RX_PKT_CNT THEN {"TX", "LINK"} ELSE Sources)
  /\ idx' = idx
  /\ int_status' = {} /\ reg_save' = "none"
  /\ mishap' = mishap \ {"mask"}
  /\ UNCHANGED <<net, Speed, count, recv, soft, loaded, proc, phy>>

(* RX stays masked after too many packets in a row, until the timer. *)
IrqExit ==
  /\ irq = "exit" /\ irq' = "none"
  /\ Lines(isr, IF cont_rx_pkt_cnt >= CONT_RX_PKT_CNT THEN {"TX", "LINK"} ELSE Sources)
  /\ idx' = reg_save
  /\ int_status' = {} /\ reg_save' = "none"
  /\ mishap' = mishap \ {"mask"}
  /\ UNCHANGED <<net, Speed, count, recv, soft, loaded, proc, phy>>

dmfe_interrupt ==
  \/ IrqMask \/ IrqClear \/ IrqLink \/ IrqReceive
  \/ RxEmpty \/ RxGood \/ RxBad \/ RxSqueeze \/ RxReset
  \/ dmfe_tx_done \/ IrqExit

Next == Chip \/ Process \/ Softirq \/ dmfe_interrupt

(* Handlers and softirqs that have begun go on when nothing runs on top of *)
(* them; the watchdog finds a queue that stays stopped; what is in the      *)
(* transmit memory is sent.                                                 *)
Fairness ==
  /\ WF_vars(dmfe_interrupt) /\ WF_vars(TxCompletes)
  /\ SF_vars(Softirq /\ soft # "none") /\ SF_vars(Watchdog)

Spec == Init /\ [][Next]_vars /\ Fairness

(***************************************************************************)
(* Properties.                                                             *)
(***************************************************************************)
(* An unmasked status bit has its interrupt latched: though the line is     *)
(* edge-triggered and new bits come while others are handled, no edge is    *)
(* missed.                                                                  *)
NoLostInterrupt == irqOn /\ irq = "none" /\ High(isr, imr) => pend

(* A packet in the receive memory has its status bit set, unless a handler  *)
(* is at it or left it for want of memory: clearing the status before       *)
(* reading, and the bound on packets in a row, forget none.                 *)
NoForgottenPacket ==
  phase = "up" /\ irq = "none" /\ rx > 0 /\ "memory" \notin mishap => "RX" \in isr

(* Between handlers everything is unmasked, or RX is not and the timer will *)
(* unmask it, unless an unlocked access or an open has spoiled it.          *)
MaskIsTimed ==
  phase = "up" /\ irq = "none" /\ soft # "unmask" /\ "mask" \notin mishap
    => imr = Sources \/ (timer /\ imr = {"TX", "LINK"} /\ cont_rx_pkt_cnt >= CONT_RX_PKT_CNT)

(* The count covers the packets on their way and exceeds them by at most    *)
(* one, the one that the unprotected increment can lose track of, so that   *)
(* the two places in the memory suffice; except after the count was zeroed  *)
(* under packets on their way or a stray access has sent something.         *)
CountCovers ==
  LET owed == flight + nsr + Sending
  IN  "count" \notin mishap => tx_pkt_cnt \in owed .. owed + 1 /\ owed <= 2

(* A stopped queue has a packet on its way whose completion will wake it.   *)
StoppedHasReason ==
  phase = "up" /\ queue = "stopped" /\ irq = "none" /\ soft \in {"none", "unmask"}
    => flight > 0 \/ "TX" \in isr

(* An access of get_link or nway_reset, which take no lock, goes to the     *)
(* register that the process selected, unless a softirq comes in between;   *)
(* and at each step of their phy_read and phy_write the registers of the    *)
(* PHY hold what its earlier steps put there, through packets, completions, *)
(* transmits and timers, unless it is lost: to a link interrupt, a reset or *)
(* a softirq within an access.                                              *)
IndexKept ==
  irq = "none" /\ soft = "none" =>
    /\ proc = "access" /\ ~cut => idx = "PHY"
    /\ proc \in {"phy", "access"} => Needs[step] \subseteq held

(* A stopped queue wakes, whatever the link, receive errors, lost counts    *)
(* and stray masks do, unless interrupts leave no time for anything else or *)
(* the interface is stopped.                                                *)
QueueWakes ==
  []<>NoIrq => (phase = "up" /\ queue = "stopped" ~> queue = "awake" \/ phase # "up")
===============================================================================
