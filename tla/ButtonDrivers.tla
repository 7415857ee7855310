----------------------------- MODULE ButtonDrivers -----------------------------
(***************************************************************************)
(* The key drivers that share one design: the interrupt, poll, fasync and  *)
(* mutex drivers of Button/, which read the pin in the interrupt handler,  *)
(* and Button/timer and device_tree/Button, which read it in a timer that  *)
(* every interrupt restarts. The driver that is loaded is chosen at the    *)
(* start. Processes, interrupts and the timer interleave at the statements *)
(* that touch what they share.                                             *)
(***************************************************************************)
EXTENDS Naturals, Sequences

CONSTANTS
  pins_desc,    \* the keys in order, each with its interrupt
  Procs,        \* the processes that use the device
  NonBlock,     \* those that open it with O_NONBLOCK
  NULL          \* no key yet

ASSUME PinsAssumption ==
  pins_desc \in Seq({pins_desc[i] : i \in DOMAIN pins_desc}) /\ Len(pins_desc) > 0
ASSUME NonBlockAssumption == NonBlock \subseteq Procs
ASSUME NullAssumption     == NULL \notin {pins_desc[i] : i \in DOMAIN pins_desc}

Buttons == {pins_desc[i] : i \in DOMAIN pins_desc}

(* What each driver has of the design. *)
Driver(features) ==
  [f \in {"event", "poll", "fasync", "lock", "timer", "nullcheck"} |-> f \in features]

InterruptDrv == Driver({"event"})
PollDrv      == Driver({"event", "poll"})
FasyncDrv    == Driver({"event", "poll", "fasync"})
MutexDrv     == Driver({"event", "poll", "fasync", "lock"})
TimerDrv     == Driver({"event", "poll", "fasync", "lock", "timer"})
TreeDrv      == Driver({"fasync", "timer", "nullcheck"})
Drivers      == {InterruptDrv, PollDrv, FasyncDrv, MutexDrv, TimerDrv, TreeDrv}

VARIABLES
  drv,          \* the driver that is loaded
  button_lock,  \* the count of the semaphore
  irqs,         \* the keys whose interrupts are requested
  irq_pd,       \* the key of the last interrupt, for the timer
  timer,        \* buttons_timer is pending
  key_val,      \* the key and the level last read
  ev_press,
  button_async, \* the processes that enabled SIGIO
  level,        \* each pin: TRUE when the key is released
  pend,         \* the keys whose edge interrupt is pending
  pc, sigio,
  at,           \* the index a process has reached in its open or close
  crashed,      \* the kernel dereferenced NULL
  \* history
  fresh,        \* key_val has not been copied to a reader yet
  missed,       \* keys that moved unseen: their interrupts were not requested
  shared        \* two processes have been in the driver since all had last left it

input   == <<irq_pd, timer, key_val, ev_press>>
driver  == <<drv, button_lock, irqs, input, button_async>>
history == <<fresh, missed, shared>>
vars    == <<driver, level, pend, pc, sigio, at, crashed, history>>

TypeOK ==
  /\ drv \in Drivers
  /\ button_lock \in {0, 1} /\ irqs \subseteq Buttons
  /\ irq_pd \in Buttons \cup {NULL} /\ timer \in BOOLEAN
  /\ key_val \in (Buttons \X BOOLEAN) \cup {NULL}
  /\ ev_press \in {0, 1}
  /\ button_async \subseteq Procs /\ sigio \subseteq Procs
  /\ level \in [Buttons -> BOOLEAN] /\ pend \subseteq Buttons
  /\ pc \in [Procs -> {"closed", "locked", "open", "wait", "sleep", "interrupted", "copy",
                       "clear", "poll", "pollsleep", "closing", "freed"}]
  /\ at \in [Procs -> DOMAIN pins_desc] /\ crashed \in BOOLEAN
  /\ fresh \in BOOLEAN /\ missed \subseteq Buttons /\ shared \in BOOLEAN

(* After insmod; a driver with a timer has queued it, with expires = 0. *)
Init ==
  /\ drv \in Drivers
  /\ button_lock = 1 /\ irqs = {} /\ irq_pd = NULL /\ timer = drv["timer"]
  /\ key_val = NULL /\ ev_press = 0 /\ button_async = {}
  /\ level = [b \in Buttons |-> TRUE] /\ pend = {}
  /\ pc = [p \in Procs |-> "closed"] /\ sigio = {} /\ at = [p \in Procs |-> 1]
  /\ crashed = FALSE /\ fresh = FALSE /\ missed = {} /\ shared = FALSE

Go(p, from, to) == pc[p] = from /\ pc' = [pc EXCEPT ![p] = to]

(* A process past its open and not yet in its close. *)
Inside(p) == pc[p] \notin {"closed", "locked", "closing", "freed"}

(***************************************************************************)
(* open and release, which go through the keys one after another.          *)
(***************************************************************************)
OthersIn(p) == \E q \in Procs \ {p} : pc[q] # "closed"

(* One round of the loop over pins_desc: from `during' to `then' at its end. *)
EachKey(p, during, then) ==
  LET last == at[p] = Len(pins_desc)
  IN  /\ pc' = [pc EXCEPT ![p] = IF last THEN then ELSE during]
      /\ at' = [at EXCEPT ![p] = IF last THEN 1 ELSE @ + 1]

\* Mutant: a semaphore that is not free is taken all the same.
Enter_Ignore(p) ==
  /\ Go(p, "closed", "locked")
  /\ button_lock' = IF drv["lock"] THEN 0 ELSE button_lock
  /\ shared' = (shared \/ OthersIn(p))
  /\ UNCHANGED <<drv, irqs, input, button_async, level, pend, sigio, at, fresh, missed>>

(* With a semaphore: down, or down_trylock, which fails without a trace. *)
Enter(p) ==
  /\ Go(p, "closed", "locked")
  /\ IF drv["lock"] THEN button_lock = 1 /\ button_lock' = 0 ELSE UNCHANGED button_lock
  /\ shared' = (shared \/ OthersIn(p))
  /\ UNCHANGED <<drv, irqs, input, button_async, level, pend, sigio, at, fresh, missed>>

(* request_irq: it fails if the interrupt is requested, and open goes on. *)
RequestIrq(p) ==
  /\ pc[p] = "locked"
  /\ EachKey(p, "locked", "open")
  /\ irqs' = irqs \cup {pins_desc[at[p]]}
  /\ UNCHANGED <<drv, button_lock, input, button_async, level, pend, sigio, history>>

\* Mutant: the last interrupt is left to be freed after the semaphore.
FreeIrq_UpFirst(p) ==
  /\ pc[p] \in {"open", "closing"}
  /\ EachKey(p, "closing", "freed")
  /\ LET b == pins_desc[at[p]]
     IN  irqs' = irqs \ {b} /\ pend' = pend \ {b} /\ missed' = missed \cup (pend \cap {b})
  /\ button_lock' = IF drv["lock"] THEN 1 ELSE button_lock
  /\ UNCHANGED <<drv, input, button_async, level, sigio, fresh, shared>>

(* free_irq: it frees the interrupt whoever requested it. *)
FreeIrq(p) ==
  /\ pc[p] \in {"open", "closing"}
  /\ EachKey(p, "closing", "freed")
  /\ LET b == pins_desc[at[p]]
     IN  irqs' = irqs \ {b} /\ pend' = pend \ {b} /\ missed' = missed \cup (pend \cap {b})
  /\ UNCHANGED <<drv, button_lock, input, button_async, level, sigio, fresh, shared>>

Leave(p) ==
  /\ Go(p, "freed", "closed")
  /\ button_lock' = IF drv["lock"] THEN 1 ELSE button_lock
  /\ shared' = (shared /\ OthersIn(p))
  /\ UNCHANGED <<drv, irqs, input, button_async, level, pend, sigio, at, fresh, missed>>

(***************************************************************************)
(* read, poll and fasync.                                                  *)
(***************************************************************************)
AsksOnce(p) == drv["lock"] /\ p \in NonBlock

(* A non-blocking read of a driver with a lock returns -EAGAIN without an event. *)
ReadBegin(p) ==
  /\ drv["event"]
  /\ AsksOnce(p) => ev_press = 1
  /\ Go(p, "open", IF AsksOnce(p) THEN "copy" ELSE "wait")
  /\ UNCHANGED <<driver, level, pend, sigio, at, history>>

(* wait_event_interruptible: on the queue first, then the condition. *)
WaitEvent(p) ==
  /\ Go(p, "wait", IF ev_press = 1 THEN "copy" ELSE "sleep")
  /\ UNCHANGED <<driver, level, pend, sigio, at, history>>

(* A signal ends the sleep, and the read goes on. *)
Interrupted(p) ==
  /\ Go(p, "sleep", "interrupted")
  /\ UNCHANGED <<driver, level, pend, sigio, at, history>>

CopyToUser(p) ==
  /\ \E from \in {"copy", "interrupted"} : Go(p, from, IF drv["event"] THEN "clear" ELSE "open")
  /\ fresh' = FALSE
  /\ UNCHANGED <<driver, level, pend, sigio, at, missed, shared>>

\* Mutant: ev_press is left set.
ClearEvent_Not(p) ==
  /\ Go(p, "clear", "open")
  /\ UNCHANGED <<driver, level, pend, sigio, at, history>>

ClearEvent(p) ==
  /\ Go(p, "clear", "open")
  /\ ev_press' = 0
  /\ UNCHANGED <<drv, button_lock, irqs, irq_pd, timer, key_val, button_async>>
  /\ UNCHANGED <<level, pend, sigio, at, history>>

(* The device-tree driver's read waits for nothing and clears nothing. *)
ReadKey(p) ==
  /\ ~drv["event"] /\ Go(p, "open", "copy")
  /\ UNCHANGED <<driver, level, pend, sigio, at, history>>

(* do_poll calls Button_poll, which joins the wait queue and looks at       *)
(* ev_press; it sleeps until it is woken, or until its timeout.             *)
PollBegin(p) ==
  /\ drv["poll"] /\ Go(p, "open", "poll")
  /\ UNCHANGED <<driver, level, pend, sigio, at, history>>

Button_poll(p) ==
  /\ Go(p, "poll", IF ev_press = 1 THEN "open" ELSE "pollsleep")
  /\ UNCHANGED <<driver, level, pend, sigio, at, history>>

PollTimeout(p) ==
  /\ Go(p, "pollsleep", "open")
  /\ UNCHANGED <<driver, level, pend, sigio, at, history>>

Button_drv_fasync(p) ==
  /\ drv["fasync"] /\ pc[p] = "open"
  /\ button_async' \in {button_async \cup {p}, button_async \ {p}}
  /\ UNCHANGED <<drv, button_lock, irqs, input, level, pend, pc, sigio, at, history>>

TakeSignal(p) ==
  /\ p \in sigio
  /\ sigio' = sigio \ {p}
  /\ UNCHANGED <<driver, level, pend, pc, at, history>>

(***************************************************************************)
(* The keys, the interrupt handlers and the timer.                         *)
(***************************************************************************)
Edge(b) ==
  /\ level' = [level EXCEPT ![b] = ~@]
  /\ pend' = IF b \in irqs THEN pend \cup {b} ELSE pend
  /\ missed' = IF b \in irqs THEN missed ELSE missed \cup {b}
  /\ UNCHANGED <<driver, pc, sigio, at, fresh, shared>>

Woken == [p \in Procs |-> CASE pc[p] = "sleep" -> "wait"
                            [] pc[p] = "pollsleep" -> "poll"
                            [] OTHER -> pc[p]]

\* Mutant: only readers are woken, not pollers.
Report_NoPoll(b) ==
  /\ key_val' = <<b, level[b]>>
  /\ sigio' = sigio \cup button_async
  /\ IF drv["event"]
     THEN ev_press' = 1 /\ pc' = [p \in Procs |-> IF pc[p] = "sleep" THEN "wait" ELSE pc[p]]
     ELSE UNCHANGED <<ev_press, pc>>
  /\ fresh' = TRUE /\ missed' = missed \ {b}

\* Mutant: the reported value lacks the level.
Report_NoPin(b) ==
  /\ key_val' = b
  /\ sigio' = sigio \cup button_async
  /\ IF drv["event"] THEN ev_press' = 1 /\ pc' = Woken ELSE UNCHANGED <<ev_press, pc>>
  /\ fresh' = TRUE /\ missed' = missed \ {b}

(* The pin is read and its key reported. *)
Report(b) ==
  /\ key_val' = <<b, level[b]>>
  /\ sigio' = sigio \cup button_async
  /\ IF drv["event"] THEN ev_press' = 1 /\ pc' = Woken ELSE UNCHANGED <<ev_press, pc>>
  /\ fresh' = TRUE /\ missed' = missed \ {b}

Button_handler(b) ==
  /\ ~drv["timer"] /\ b \in pend
  /\ pend' = pend \ {b}
  /\ Report(b)
  /\ UNCHANGED <<drv, button_lock, irqs, irq_pd, timer, button_async, level, at, shared>>

\* Mutant: an interrupt does not restart the timer.
buttons_irq_NoTimer(b) ==
  /\ drv["timer"] /\ b \in pend
  /\ pend' = pend \ {b}
  /\ irq_pd' = b
  /\ UNCHANGED <<drv, button_lock, irqs, timer, key_val, ev_press, button_async>>
  /\ UNCHANGED <<level, pc, sigio, at, history>>

buttons_irq(b) ==
  /\ drv["timer"] /\ b \in pend
  /\ pend' = pend \ {b}
  /\ irq_pd' = b /\ timer' = TRUE
  /\ UNCHANGED <<drv, button_lock, irqs, key_val, ev_press, button_async>>
  /\ UNCHANGED <<level, pc, sigio, at, history>>

(* Before the first interrupt there is no key: the device-tree driver's    *)
(* timer function returns, the other's does not look.                      *)
buttons_timer_function ==
  /\ timer /\ timer' = FALSE
  /\ irq_pd = NULL => drv["nullcheck"]
  /\ IF irq_pd = NULL THEN UNCHANGED <<key_val, ev_press, pc, sigio, fresh, missed>>
                      ELSE Report(irq_pd)
  /\ UNCHANGED <<drv, button_lock, irqs, irq_pd, button_async, level, pend, at, shared>>

Button_timer_handler_Null ==
  /\ timer /\ irq_pd = NULL /\ ~drv["nullcheck"]
  /\ crashed' = TRUE
  /\ UNCHANGED <<driver, level, pend, pc, sigio, at, history>>

Process(p) ==
  \/ Enter(p) \/ RequestIrq(p) \/ FreeIrq(p) \/ Leave(p)
  \/ ReadBegin(p) \/ WaitEvent(p) \/ Interrupted(p) \/ CopyToUser(p) \/ ClearEvent(p)
  \/ ReadKey(p)
  \/ PollBegin(p) \/ Button_poll(p) \/ PollTimeout(p)
  \/ Button_drv_fasync(p) \/ TakeSignal(p)

Step ==
  \/ \E p \in Procs : Process(p)
  \/ \E b \in Buttons : Edge(b) \/ Button_handler(b) \/ buttons_irq(b)
  \/ buttons_timer_function

Next ==
  /\ ~crashed
  /\ \/ Step /\ UNCHANGED crashed
     \/ Button_timer_handler_Null

Spec == Init /\ [][Next]_vars

(***************************************************************************)
(* Properties.                                                             *)
(***************************************************************************)
(* A driver with the lock admits one process at a time; the others need not. *)
OneHolder == drv["lock"] => ~shared

(* A process that has the device to itself has every interrupt of it: no   *)
(* close frees one that a later open requested. The lock guarantees it;    *)
(* without a lock it holds of a process that nobody met in the driver.     *)
HolderHasIrqs == \A p \in Procs : Inside(p) /\ (drv["lock"] \/ ~shared) => irqs = Buttons

(* No reader and no poller sleeps over a reported key, however many share   *)
(* the event flag.                                                          *)
NoLostWakeup == \A p \in Procs : pc[p] \in {"sleep", "pollsleep"} => ev_press = 0

(* In a driver with an event flag, a process that nobody met copies no value *)
(* twice, across its polls and closes and the reads of those before it: the  *)
(* value may be older than its open, but nobody has had it. A read whose     *)
(* sleep a signal ended copies what is there, and the device-tree driver,    *)
(* which has no flag, gives the same value to any number of reads.           *)
ReadIsFresh ==
  drv["event"] /\ ~shared => \A p \in Procs : pc[p] = "copy" => fresh

(* When nothing is pending, the value offered is the present level of its   *)
(* key, unless the key moved while its interrupts were free.                *)
SettledLevel ==
  key_val # NULL /\ ~timer /\ key_val[1] \notin pend \cup missed
    => key_val[2] = level[key_val[1]]

(* If a key event has come, ev_press is 1 and poll says so (Button/timer,   *)
(* line 145): as long as the event has not been copied to a reader.         *)
FlagMeansUnread == drv["poll"] /\ fresh => ev_press = 1
===============================================================================
