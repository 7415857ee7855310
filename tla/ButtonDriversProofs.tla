-------------------------- MODULE ButtonDriversProofs --------------------------
(***************************************************************************)
(* Proofs about ButtonDrivers for any number of keys and processes.        *)
(***************************************************************************)
EXTENDS ButtonDrivers, TLAPS

Steps == {"closed", "locked", "open", "wait", "sleep", "interrupted", "copy",
          "clear", "poll", "pollsleep", "closing", "freed"}

(* Whoever is in the driver while ~shared is alone in it. *)
Alone ==
  ~shared => \A p, q \in Procs : pc[p] # "closed" /\ pc[q] # "closed" => p = q

(* The lock keeps it so: it is free only when nobody is in the driver. *)
LockInv ==
  drv["lock"] => ~shared /\ (button_lock = 1 => \A p \in Procs : pc[p] = "closed")

(* In an open that nobody met, the keys before `at' have their interrupts. *)
Requested ==
  ~shared => \A p \in Procs :
    /\ pc[p] = "locked" => \A i \in 1 .. at[p] - 1 : pins_desc[i] \in irqs
    /\ Inside(p) => irqs = Buttons

(* `at' is past the first key only in the two loops. *)
LoopIndex == \A p \in Procs : pc[p] \notin {"locked", "closing"} => at[p] = 1

(* Only a driver with an event flag has sleepers. *)
SleepersWait ==
  \A p \in Procs : pc[p] \in {"wait", "sleep", "poll", "pollsleep"} => drv["event"]

(* A set ev_press stands for a value nobody has copied, except between the *)
(* copy and the clear of a read.                                           *)
FlagInv ==
  ev_press = 1 => drv["event"] /\ (fresh \/ \E p \in Procs : pc[p] = "clear")

(* Nothing is offered before the timer has found a key; without a timer    *)
(* none is pending.                                                        *)
TimerInv ==
  /\ timer => drv["timer"]
  /\ drv["timer"] /\ irq_pd = NULL => key_val = NULL

IInv ==
  /\ TypeOK
  /\ Alone
  /\ LockInv
  /\ Requested
  /\ LoopIndex
  /\ SleepersWait
  /\ NoLostWakeup
  /\ FlagInv
  /\ ReadIsFresh
  /\ TimerInv
  /\ SettledLevel

(* pins_desc is a non-empty sequence of keys. *)
LEMMA Pins ==
  /\ Len(pins_desc) \in Nat \ {0}
  /\ DOMAIN pins_desc = 1 .. Len(pins_desc)
  /\ \A i \in 1 .. Len(pins_desc) : pins_desc[i] \in Buttons
  /\ \A b \in Buttons : \E i \in 1 .. Len(pins_desc) : b = pins_desc[i]
BY PinsAssumption DEF Buttons

(* A driver with poll has an event flag. *)
LEMMA PollersWait == TypeOK /\ drv["poll"] => drv["event"]
BY DEF TypeOK, Drivers, InterruptDrv, PollDrv, FasyncDrv, MutexDrv, TimerDrv, TreeDrv, Driver

(* A feature is there or not. *)
LEMMA FeatureTypes ==
  ASSUME drv \in Drivers
  PROVE  drv["timer"] \in BOOLEAN
<1>1. ASSUME NEW F PROVE Driver(F)["timer"] \in BOOLEAN
  <2>1. Driver(F)["timer"] = ("timer" \in F)
    BY DEF Driver
  <2>2. ("timer" \in F) \in BOOLEAN
    OBVIOUS
  <2> QED BY <2>1, <2>2, Zenon
<1> QED BY <1>1, Zenon DEF Drivers, InterruptDrv, PollDrv, FasyncDrv, MutexDrv, TimerDrv, TreeDrv

LEMMA InitInv == Init => IInv
<1> SUFFICES ASSUME Init PROVE IInv
  OBVIOUS
<1>1. TypeOK
  <2>1. timer \in BOOLEAN
    BY FeatureTypes DEF Init
  <2>2. at \in [Procs -> DOMAIN pins_desc]
    BY Pins DEF Init
  <2>3. level \in [Buttons -> BOOLEAN]
    BY DEF Init
  <2> QED BY <2>1, <2>2, <2>3 DEF Init, TypeOK
<1>2. \A p \in Procs : pc[p] = "closed"
  BY DEF Init
<1>3. ~shared /\ ev_press = 0
  BY DEF Init
<1>4. \A p \in Procs : at[p] = 1
  BY DEF Init
<1>5. FlagInv /\ ReadIsFresh /\ SettledLevel
  BY <1>2, <1>3 DEF FlagInv, ReadIsFresh, SettledLevel, Init
<1>6. TimerInv
  BY DEF TimerInv, Init
<1> QED BY <1>1, <1>2, <1>3, <1>4, <1>5, <1>6 DEF IInv, Alone, LockInv, Requested, LoopIndex, SleepersWait, NoLostWakeup, Inside

-----------------------------------------------------------------------------
(***************************************************************************)
(* Types.                                                                  *)
(***************************************************************************)
LEMMA EachKeyTypes ==
  ASSUME TypeOK, NEW p \in Procs, NEW during \in Steps, NEW then \in Steps,
         EachKey(p, during, then)
  PROVE  pc' \in [Procs -> Steps] /\ at' \in [Procs -> DOMAIN pins_desc]
BY Pins DEF TypeOK, EachKey, Steps

LEMMA ProcessTypes ==
  ASSUME TypeOK, NEW p \in Procs, Process(p), UNCHANGED crashed
  PROVE  TypeOK'
<1> USE DEF TypeOK, Go, driver, input, history
<1>1. CASE Enter(p)
  <2>1. (shared \/ OthersIn(p)) \in BOOLEAN
    OBVIOUS
  <2> QED BY <1>1, <2>1 DEF Enter
<1>2. CASE RequestIrq(p)
  <2>1. pc' \in [Procs -> Steps] /\ at' \in [Procs -> DOMAIN pins_desc]
    BY <1>2, EachKeyTypes DEF RequestIrq, Steps
  <2>2. pins_desc[at[p]] \in Buttons
    BY Pins
  <2> QED BY <1>2, <2>1, <2>2 DEF RequestIrq, Steps
<1>3. CASE FreeIrq(p)
  <2>1. pc' \in [Procs -> Steps] /\ at' \in [Procs -> DOMAIN pins_desc]
    BY <1>3, EachKeyTypes DEF FreeIrq, Steps
  <2> QED BY <1>3, <2>1 DEF FreeIrq, Steps
<1>4. CASE Leave(p)
  <2>1. (shared /\ OthersIn(p)) \in BOOLEAN
    OBVIOUS
  <2> QED BY <1>4, <2>1 DEF Leave
<1>5. CASE ReadBegin(p)
  BY <1>5 DEF ReadBegin
<1>6. CASE WaitEvent(p)
  BY <1>6 DEF WaitEvent
<1>7. CASE Interrupted(p)
  BY <1>7 DEF Interrupted
<1>8. CASE CopyToUser(p)
  BY <1>8 DEF CopyToUser
<1>9. CASE ClearEvent(p)
  BY <1>9 DEF ClearEvent
<1>10. CASE ReadKey(p)
  BY <1>10 DEF ReadKey
<1>11. CASE PollBegin(p)
  BY <1>11 DEF PollBegin
<1>12. CASE Button_poll(p)
  BY <1>12 DEF Button_poll
<1>13. CASE PollTimeout(p)
  BY <1>13 DEF PollTimeout
<1>14. CASE Button_drv_fasync(p)
  BY <1>14 DEF Button_drv_fasync
<1>15. CASE TakeSignal(p)
  BY <1>15 DEF TakeSignal
<1> QED BY <1>1, <1>2, <1>3, <1>4, <1>5, <1>6, <1>7, <1>8, <1>9, <1>10, <1>11, <1>12,
           <1>13, <1>14, <1>15 DEF Process

LEMMA ReportTypes ==
  ASSUME TypeOK, NEW b \in Buttons, Report(b)
  PROVE  /\ key_val' \in (Buttons \X BOOLEAN) \cup {NULL} /\ ev_press' \in {0, 1}
         /\ pc' \in [Procs -> Steps] /\ sigio' \subseteq Procs
         /\ fresh' \in BOOLEAN /\ missed' \subseteq Buttons
<1>1. Woken \in [Procs -> Steps]
  BY DEF Woken, TypeOK, Steps
<1> QED BY <1>1 DEF Report, TypeOK, Steps

LEMMA NextTypes ==
  ASSUME TypeOK, [Next]_vars
  PROVE  TypeOK'
<1>1. ASSUME NEW p \in Procs, Process(p), UNCHANGED crashed PROVE TypeOK'
  BY <1>1, ProcessTypes
<1>2. ASSUME NEW b \in Buttons, Edge(b), UNCHANGED crashed PROVE TypeOK'
  BY <1>2 DEF Edge, TypeOK, driver, input
<1>3. ASSUME NEW b \in Buttons, Button_handler(b), UNCHANGED crashed PROVE TypeOK'
  BY <1>3, ReportTypes DEF Button_handler, TypeOK, Steps
<1>4. ASSUME NEW b \in Buttons, buttons_irq(b), UNCHANGED crashed PROVE TypeOK'
  BY <1>4 DEF buttons_irq, TypeOK, history
<1>5. ASSUME buttons_timer_function, UNCHANGED crashed PROVE TypeOK'
  <2>1. CASE irq_pd = NULL
    BY <1>5, <2>1 DEF buttons_timer_function, TypeOK
  <2>2. CASE irq_pd # NULL
    BY <1>5, <2>2, ReportTypes DEF buttons_timer_function, TypeOK, Steps
  <2> QED BY <2>1, <2>2
<1>6. CASE Button_timer_handler_Null
  BY <1>6 DEF Button_timer_handler_Null, TypeOK, driver, input, history
<1>7. CASE UNCHANGED vars
  BY <1>7 DEF vars, TypeOK, driver, input, history
<1> QED BY <1>1, <1>2, <1>3, <1>4, <1>5, <1>6, <1>7 DEF Next, Step

-----------------------------------------------------------------------------
(***************************************************************************)
(* open and release: who is in the driver, and with which interrupts.      *)
(***************************************************************************)
Rest == Alone /\ LockInv /\ Requested /\ LoopIndex /\ SleepersWait /\ NoLostWakeup

LEMMA EnterInv ==
  ASSUME IInv, NEW p \in Procs, Enter(p)
  PROVE  Rest'
<1> USE DEF IInv, Enter, Go, input
<1>1. pc[p] = "closed" /\ pc' = [pc EXCEPT ![p] = "locked"] /\ UNCHANGED <<drv, irqs, at, ev_press>>
  OBVIOUS
<1>2. ~shared' => ~shared /\ \A q \in Procs \ {p} : pc[q] = "closed"
  BY DEF OthersIn
<1>3. Alone'
  BY <1>1, <1>2 DEF Alone, TypeOK
<1>4. LockInv'
  <2> SUFFICES ASSUME drv["lock"] PROVE ~shared' /\ button_lock' # 1
    BY <1>1 DEF LockInv
  <2>1. button_lock = 1 /\ button_lock' = 0
    OBVIOUS
  <2>2. ~shared /\ \A q \in Procs : pc[q] = "closed"
    BY <2>1 DEF LockInv
  <2>3. ~(shared \/ OthersIn(p))
    BY <2>2 DEF OthersIn
  <2>4. shared' = (shared \/ OthersIn(p))
    OBVIOUS
  <2>5. ~shared'
    BY <2>3, <2>4, Zenon
  <2> QED BY <2>1, <2>5
<1>5. Requested'
  <2> SUFFICES ASSUME ~shared', NEW q \in Procs
               PROVE  /\ pc'[q] = "locked" => \A i \in 1 .. at[q] - 1 : pins_desc[i] \in irqs
                      /\ ~Inside(q)'
                      /\ pc'[q] # "open"
    BY <1>1 DEF Requested
  <2>1. CASE q = p
    BY <1>1, <2>1 DEF Inside, TypeOK, LoopIndex
  <2>2. CASE q # p
    BY <1>1, <1>2, <2>2 DEF Inside, TypeOK
  <2> QED BY <2>1, <2>2
<1>6. SleepersWait'
  BY <1>1 DEF SleepersWait, TypeOK
<1>7. NoLostWakeup'
  BY <1>1 DEF NoLostWakeup, TypeOK
<1>8. LoopIndex'
  BY <1>1 DEF LoopIndex, TypeOK
<1> QED BY <1>3, <1>4, <1>5, <1>6, <1>7, <1>8 DEF Rest

(* One round of a loop over the keys, which moves only p. *)
LEMMA EachKeyMoves ==
  ASSUME IInv, NEW p \in Procs, NEW during \in Steps, NEW then \in Steps,
         during \in {"locked", "closing"}, then \in {"open", "freed"},
         EachKey(p, during, then)
  PROVE  /\ \A q \in Procs \ {p} : pc'[q] = pc[q] /\ at'[q] = at[q]
         /\ LoopIndex'
         /\ IF at[p] = Len(pins_desc) THEN pc'[p] = then
                                      ELSE pc'[p] = during /\ at'[p] = at[p] + 1
BY Pins DEF IInv, TypeOK, EachKey, LoopIndex

LEMMA RequestIrqInv ==
  ASSUME IInv, NEW p \in Procs, RequestIrq(p)
  PROVE  Rest'
<1> USE DEF IInv, RequestIrq, history, input
<1>1. /\ pc[p] = "locked" /\ irqs' = irqs \cup {pins_desc[at[p]]}
      /\ UNCHANGED <<drv, button_lock, ev_press, shared>>
  OBVIOUS
<1>2. /\ \A q \in Procs \ {p} : pc'[q] = pc[q] /\ at'[q] = at[q]
      /\ LoopIndex'
      /\ IF at[p] = Len(pins_desc) THEN pc'[p] = "open"
                                   ELSE pc'[p] = "locked" /\ at'[p] = at[p] + 1
  BY EachKeyMoves DEF Steps
<1>3. \A q \in Procs : pc[q] = "closed" <=> pc'[q] = "closed"
  BY <1>1, <1>2
<1>4. Alone' /\ LockInv'
  BY <1>1, <1>3 DEF Alone, LockInv
<1>5. Requested'
  <2> SUFFICES ASSUME ~shared, NEW q \in Procs
               PROVE  /\ pc'[q] = "locked" => \A i \in 1 .. at'[q] - 1 : pins_desc[i] \in irqs'
                      /\ Inside(q)' => irqs' = Buttons
    BY <1>1 DEF Requested
  <2>1. CASE q # p
    <3>1. pc[q] = "closed"
      BY <1>1, <2>1 DEF Alone
    <3> QED BY <1>2, <2>1, <3>1 DEF Inside
  <2>2. CASE q = p
    <3>1. at[p] \in 1 .. Len(pins_desc) /\ \A i \in 1 .. at[p] - 1 : pins_desc[i] \in irqs
      BY <1>1, Pins DEF Requested, TypeOK
    <3>2. \A i \in 1 .. at[p] : pins_desc[i] \in irqs'
      BY <1>1, <3>1
    <3>3. CASE at[p] = Len(pins_desc)
      <4>1. Buttons \subseteq irqs'
        BY <3>2, <3>3, Pins
      <4>2. irqs' \subseteq Buttons
        BY <1>1, <3>1, Pins DEF TypeOK
      <4> QED BY <1>2, <2>2, <3>3, <4>1, <4>2
    <3>4. CASE at[p] # Len(pins_desc)
      BY <1>2, <2>2, <3>1, <3>2, <3>4 DEF Inside
    <3> QED BY <3>3, <3>4
  <2> QED BY <2>1, <2>2
<1>6. SleepersWait' /\ NoLostWakeup'
  BY <1>1, <1>2 DEF SleepersWait, NoLostWakeup
<1> QED BY <1>2, <1>4, <1>5, <1>6 DEF Rest

LEMMA FreeIrqInv ==
  ASSUME IInv, NEW p \in Procs, FreeIrq(p)
  PROVE  Rest'
<1> USE DEF IInv, FreeIrq, input
<1>1. /\ pc[p] \in {"open", "closing"}
      /\ UNCHANGED <<drv, button_lock, ev_press, shared>>
  OBVIOUS
<1>2. /\ \A q \in Procs \ {p} : pc'[q] = pc[q] /\ at'[q] = at[q]
      /\ LoopIndex'
      /\ pc'[p] \in {"closing", "freed"}
  BY EachKeyMoves DEF Steps
<1>3. \A q \in Procs : pc[q] = "closed" <=> pc'[q] = "closed"
  BY <1>1, <1>2
<1>4. Alone' /\ LockInv'
  BY <1>1, <1>3 DEF Alone, LockInv
<1>5. Requested'
  <2> SUFFICES ASSUME ~shared, NEW q \in Procs
               PROVE  pc'[q] # "locked" /\ ~Inside(q)'
    BY <1>1 DEF Requested
  <2>1. CASE q # p
    <3>1. pc[q] = "closed"
      BY <1>1, <2>1 DEF Alone
    <3> QED BY <1>2, <2>1, <3>1 DEF Inside
  <2>2. CASE q = p
    BY <1>2, <2>2 DEF Inside
  <2> QED BY <2>1, <2>2
<1>6. SleepersWait' /\ NoLostWakeup'
  BY <1>1, <1>2 DEF SleepersWait, NoLostWakeup
<1> QED BY <1>2, <1>4, <1>5, <1>6 DEF Rest

LEMMA LeaveInv ==
  ASSUME IInv, NEW p \in Procs, Leave(p)
  PROVE  Rest'
<1> USE DEF IInv, Leave, Go, input
<1>1. /\ pc[p] = "freed" /\ pc' = [pc EXCEPT ![p] = "closed"]
      /\ UNCHANGED <<drv, irqs, at, ev_press>>
  OBVIOUS
<1>2. \A q \in Procs : pc'[q] = IF q = p THEN "closed" ELSE pc[q]
  BY <1>1 DEF TypeOK
<1>3. ~shared' => ~shared \/ \A q \in Procs : pc'[q] = "closed"
  BY <1>2 DEF OthersIn
<1>4. Alone' /\ Requested'
  BY <1>1, <1>2, <1>3 DEF Alone, Requested, Inside
<1>5. LockInv'
  <2> SUFFICES ASSUME drv["lock"]
               PROVE  ~shared' /\ \A q \in Procs : pc'[q] = "closed"
    BY <1>1 DEF LockInv
  <2>1. ~shared
    BY DEF LockInv
  <2>2. \A q \in Procs \ {p} : pc[q] = "closed"
    BY <1>1, <2>1 DEF Alone
  <2>3. shared' = (shared /\ OthersIn(p))
    OBVIOUS
  <2>4. ~shared'
    BY <2>1, <2>3, Zenon
  <2> QED BY <1>2, <2>2, <2>4
<1>6. SleepersWait' /\ LoopIndex'
  BY <1>1, <1>2 DEF SleepersWait, LoopIndex
<1>7. NoLostWakeup'
  BY <1>1, <1>2 DEF NoLostWakeup
<1> QED BY <1>4, <1>5, <1>6, <1>7 DEF Rest

-----------------------------------------------------------------------------
(***************************************************************************)
(* Everything else leaves open, release and the interrupts alone.          *)
(***************************************************************************)
LEMMA NobodyEntersOrLeaves ==
  ASSUME IInv, UNCHANGED <<drv, button_lock, irqs, at, shared>>,
         \A q \in Procs : pc'[q] = pc[q] \/ (Inside(q) /\ Inside(q)')
  PROVE  Alone' /\ LockInv' /\ Requested' /\ LoopIndex'
<1>1. \A q \in Procs : /\ pc[q] = "closed" <=> pc'[q] = "closed"
                       /\ pc[q] = "locked" <=> pc'[q] = "locked"
                       /\ pc[q] = "closing" <=> pc'[q] = "closing"
                       /\ Inside(q) <=> Inside(q)'
  BY DEF Inside
<1>2. Alone' /\ LockInv'
  BY <1>1 DEF IInv, Alone, LockInv
<1>3. Requested'
  BY <1>1 DEF IInv, Requested
<1>4. LoopIndex'
  BY <1>1 DEF IInv, LoopIndex
<1> QED BY <1>2, <1>3, <1>4

(* read, poll and fasync: who sleeps has looked at ev_press. *)
LEMMA ProcessInside ==
  ASSUME IInv, NEW p \in Procs,
         \/ ReadBegin(p) \/ WaitEvent(p) \/ Interrupted(p) \/ CopyToUser(p) \/ ClearEvent(p)
         \/ ReadKey(p) \/ PollBegin(p) \/ Button_poll(p) \/ PollTimeout(p)
         \/ Button_drv_fasync(p) \/ TakeSignal(p)
  PROVE  Rest'
<1> USE DEF IInv, Go, driver, input, history, TypeOK
<1>1. /\ UNCHANGED <<drv, button_lock, irqs, at, shared>>
      /\ \A q \in Procs \ {p} : pc'[q] = pc[q]
  BY DEF ReadBegin, WaitEvent, Interrupted, CopyToUser, ClearEvent, ReadKey, PollBegin,
         Button_poll, PollTimeout, Button_drv_fasync, TakeSignal
<1>2. pc'[p] = pc[p] \/ (Inside(p) /\ Inside(p)')
  BY DEF ReadBegin, WaitEvent, Interrupted, CopyToUser, ClearEvent, ReadKey, PollBegin,
         Button_poll, PollTimeout, Button_drv_fasync, TakeSignal, Inside
<1>3. Alone' /\ LockInv' /\ Requested' /\ LoopIndex'
  BY <1>1, <1>2, NobodyEntersOrLeaves
<1>4. \/ pc'[p] \notin {"wait", "sleep", "poll", "pollsleep"}
      \/ drv["event"]
  BY PollersWait DEF SleepersWait, ReadBegin, WaitEvent, Interrupted, CopyToUser, ClearEvent,
         ReadKey, PollBegin, Button_poll, PollTimeout, Button_drv_fasync, TakeSignal
<1>5. SleepersWait'
  BY <1>1, <1>4 DEF SleepersWait
<1>6. ev_press' = ev_press \/ ev_press' = 0
  BY DEF ReadBegin, WaitEvent, Interrupted, CopyToUser, ClearEvent, ReadKey, PollBegin,
         Button_poll, PollTimeout, Button_drv_fasync, TakeSignal
<1>7. pc'[p] \in {"sleep", "pollsleep"} => ev_press' = 0
  BY DEF NoLostWakeup, ReadBegin, WaitEvent, Interrupted, CopyToUser, ClearEvent, ReadKey,
         PollBegin, Button_poll, PollTimeout, Button_drv_fasync, TakeSignal
<1>8. NoLostWakeup'
  BY <1>1, <1>6, <1>7 DEF NoLostWakeup
<1> QED BY <1>3, <1>5, <1>8 DEF Rest

(* A report wakes every sleeper, and without an event flag there are none. *)
LEMMA ReportWakes ==
  ASSUME IInv, NEW b \in Buttons, Report(b),
         UNCHANGED <<drv, button_lock, irqs, at, shared>>
  PROVE  Rest'
<1> USE DEF IInv
<1>1. CASE drv["event"]
  <2>1. pc' = Woken
    BY <1>1 DEF Report
  <2>2. \A q \in Procs : /\ pc'[q] \notin {"sleep", "pollsleep"}
                         /\ pc'[q] = pc[q] \/ (Inside(q) /\ Inside(q)')
    BY <2>1 DEF Woken, Inside
  <2>3. Alone' /\ LockInv' /\ Requested' /\ LoopIndex'
    BY <2>2, NobodyEntersOrLeaves
  <2>4. SleepersWait' /\ NoLostWakeup'
    BY <1>1, <2>2 DEF SleepersWait, NoLostWakeup
  <2> QED BY <2>3, <2>4 DEF Rest
<1>2. CASE ~drv["event"]
  <2>1. UNCHANGED <<ev_press, pc>>
    BY <1>2 DEF Report
  <2>2. Alone' /\ LockInv' /\ Requested' /\ LoopIndex'
    BY <2>1, NobodyEntersOrLeaves
  <2>3. SleepersWait' /\ NoLostWakeup'
    BY <2>1 DEF SleepersWait, NoLostWakeup
  <2> QED BY <2>2, <2>3 DEF Rest
<1> QED BY <1>1, <1>2

(* A step that moves no process and clears no flag. *)
LEMMA Elsewhere ==
  ASSUME IInv, UNCHANGED <<drv, button_lock, irqs, at, shared, pc, ev_press>>
  PROVE  Rest'
<1>1. Alone' /\ LockInv' /\ Requested' /\ LoopIndex'
  BY NobodyEntersOrLeaves
<1> QED BY <1>1 DEF Rest, IInv, SleepersWait, NoLostWakeup

-----------------------------------------------------------------------------
(***************************************************************************)
(* What is offered to readers: whether it was copied, and whether it is    *)
(* the present level of its key.                                           *)
(***************************************************************************)
Offered == FlagInv /\ ReadIsFresh /\ TimerInv /\ SettledLevel

(* A step that leaves the offered value, its flag and its copiers alone.    *)
LEMMA OfferKept ==
  ASSUME IInv, UNCHANGED <<drv, irq_pd, timer, key_val, ev_press, level, fresh>>,
         pend' \cup missed' = pend \cup missed,
         \A q \in Procs : /\ drv["event"] /\ pc'[q] = "copy" => pc[q] = "copy" \/ fresh
                          /\ pc[q] = "clear" => pc'[q] = "clear",
         ~shared' => ~shared \/ \A q \in Procs : pc'[q] # "copy"
  PROVE  Offered'
<1>1. FlagInv'
  <2> SUFFICES ASSUME ev_press' = 1
               PROVE  drv'["event"] /\ (fresh' \/ \E p \in Procs : pc'[p] = "clear")
    BY DEF FlagInv
  <2>1. ev_press = 1
    OBVIOUS
  <2>2. drv["event"] /\ (fresh \/ \E p \in Procs : pc[p] = "clear")
    BY <2>1 DEF IInv, FlagInv
  <2>3. drv' = drv /\ (fresh' <=> fresh)
    OBVIOUS
  <2> QED BY <2>2, <2>3, Zenon
<1>2. ReadIsFresh'
  <2> SUFFICES ASSUME NEW p \in Procs, drv'["event"], pc'[p] = "copy", ~shared'
               PROVE  fresh'
    BY DEF ReadIsFresh
  <2>1. pc[p] = "copy" \/ fresh
    OBVIOUS
  <2>2. ~shared
    OBVIOUS
  <2>3. fresh
    BY <2>1, <2>2 DEF IInv, ReadIsFresh
  <2>4. (fresh' <=> fresh)
    OBVIOUS
  <2> QED BY <2>3, <2>4, Zenon
<1>3. TimerInv'
  BY DEF IInv, TimerInv
<1>4. SettledLevel'
  <2>1. \A x : x \in pend' \cup missed' <=> x \in pend \cup missed
    OBVIOUS
  <2> QED BY <2>1 DEF IInv, SettledLevel
<1> QED BY <1>1, <1>2, <1>3, <1>4 DEF Offered

LEMMA OpenCloseOffer ==
  ASSUME IInv, NEW p \in Procs, Enter(p) \/ RequestIrq(p) \/ FreeIrq(p) \/ Leave(p)
  PROVE  Offered'
<1> USE DEF IInv, TypeOK, input
<1>1. CASE Enter(p)
  <2>1. ~shared' => ~shared
    BY <1>1 DEF Enter
  <2> QED BY <1>1, <2>1, OfferKept DEF Enter, Go
<1>2. CASE RequestIrq(p)
  <2>1. /\ \A q \in Procs \ {p} : pc'[q] = pc[q]
        /\ pc[p] = "locked" /\ pc'[p] \in {"locked", "open"}
    BY <1>2, EachKeyMoves DEF RequestIrq, Steps
  <2> QED BY <1>2, <2>1, OfferKept DEF RequestIrq, history
<1>3. CASE FreeIrq(p)
  <2>1. /\ \A q \in Procs \ {p} : pc'[q] = pc[q]
        /\ pc[p] \in {"open", "closing"} /\ pc'[p] \in {"closing", "freed"}
    BY <1>3, EachKeyMoves DEF FreeIrq, Steps
  <2>2. pend' \cup missed' = pend \cup missed
    BY <1>3 DEF FreeIrq
  <2> QED BY <1>3, <2>1, <2>2, OfferKept DEF FreeIrq
<1>4. CASE Leave(p)
  <2>1. \A q \in Procs : pc'[q] = IF q = p THEN "closed" ELSE pc[q]
    BY <1>4 DEF Leave, Go
  <2>2. ~shared' => ~shared \/ \A q \in Procs : pc'[q] # "copy"
    BY <1>4, <2>1 DEF Leave, OthersIn
  <2> QED BY <1>4, <2>1, <2>2, OfferKept DEF Leave, Go
<1> QED BY <1>1, <1>2, <1>3, <1>4

(* A reader that sees the flag while it is alone sees a fresh value.        *)
LEMMA ReaderOffer ==
  ASSUME IInv, NEW p \in Procs,
         \/ ReadBegin(p) \/ WaitEvent(p) \/ Interrupted(p) \/ CopyToUser(p) \/ ClearEvent(p)
         \/ ReadKey(p) \/ PollBegin(p) \/ Button_poll(p) \/ PollTimeout(p)
         \/ Button_drv_fasync(p) \/ TakeSignal(p)
  PROVE  Offered'
<1> USE DEF IInv, TypeOK, Go, driver, input, history
<1>1. ~shared /\ pc[p] # "closed" => \A q \in Procs \ {p} : pc[q] = "closed"
  BY DEF Alone
<1>2. CASE ReadBegin(p) \/ WaitEvent(p) \/ Interrupted(p) \/ PollBegin(p) \/ Button_poll(p)
           \/ PollTimeout(p) \/ Button_drv_fasync(p) \/ TakeSignal(p)
  <2>1. /\ UNCHANGED <<drv, irq_pd, timer, key_val, ev_press, level, pend, fresh, missed, shared>>
        /\ \A q \in Procs \ {p} : pc'[q] = pc[q]
    BY <1>2 DEF ReadBegin, WaitEvent, Interrupted, PollBegin, Button_poll, PollTimeout,
                Button_drv_fasync, TakeSignal
  <2>2. /\ pc[p] = "clear" => pc'[p] = "clear"
        /\ pc'[p] = "copy" => pc[p] = "copy" \/ (pc[p] \in {"open", "wait"} /\ ev_press = 1)
    BY <1>2 DEF ReadBegin, WaitEvent, Interrupted, PollBegin, Button_poll, PollTimeout,
                Button_drv_fasync, TakeSignal
  <2>3. FlagInv' /\ TimerInv' /\ SettledLevel'
    BY <2>1, <2>2 DEF FlagInv, TimerInv, SettledLevel
  <2>4. ReadIsFresh'
    <3> SUFFICES ASSUME NEW q \in Procs, drv["event"], pc'[q] = "copy", ~shared PROVE fresh
      BY <2>1 DEF ReadIsFresh
    <3>1. CASE pc[q] = "copy"
      BY <3>1 DEF ReadIsFresh
    <3>2. CASE pc[q] # "copy"
      <4>1. q = p /\ pc[p] \in {"open", "wait"} /\ ev_press = 1
        BY <2>1, <2>2, <3>2
      <4>2. \A o \in Procs : pc[o] # "clear"
        BY <1>1, <4>1
      <4> QED BY <4>1, <4>2 DEF FlagInv
    <3> QED BY <3>1, <3>2
  <2> QED BY <2>3, <2>4 DEF Offered
<1>3. CASE CopyToUser(p)
  <2>1. \A q \in Procs :
          pc'[q] = IF q = p THEN IF drv["event"] THEN "clear" ELSE "open" ELSE pc[q]
    BY <1>3 DEF CopyToUser
  <2>2. FlagInv' /\ TimerInv' /\ SettledLevel'
    BY <1>3, <2>1 DEF CopyToUser, FlagInv, TimerInv, SettledLevel
  <2>3. ReadIsFresh'
    BY <1>1, <1>3, <2>1 DEF CopyToUser, ReadIsFresh
  <2> QED BY <2>2, <2>3 DEF Offered
<1>4. CASE ClearEvent(p)
  <2>1. \A q \in Procs : pc'[q] = IF q = p THEN "open" ELSE pc[q]
    BY <1>4 DEF ClearEvent
  <2> QED BY <1>4, <2>1 DEF ClearEvent, Offered, FlagInv, TimerInv, SettledLevel, ReadIsFresh
<1>5. CASE ReadKey(p)
  <2>1. FlagInv' /\ TimerInv' /\ SettledLevel'
    BY <1>5 DEF ReadKey, FlagInv, TimerInv, SettledLevel
  <2>2. ReadIsFresh'
    BY <1>5 DEF ReadKey, ReadIsFresh
  <2> QED BY <2>1, <2>2 DEF Offered
<1> QED BY <1>2, <1>3, <1>4, <1>5

(* A report offers the present level of its key.                            *)
LEMMA ReportOffer ==
  ASSUME IInv, NEW b \in Buttons, Report(b), UNCHANGED <<drv, level, irq_pd, shared>>,
         drv["timer"] => irq_pd = b, timer' => drv["timer"]
  PROVE  Offered'
<1> USE DEF IInv
<1>1. key_val' = <<b, level[b]>> /\ fresh'
  BY DEF Report
<1>2. ev_press' = 1 => drv["event"]
  BY DEF Report, FlagInv
<1>3. FlagInv' /\ ReadIsFresh'
  BY <1>1, <1>2 DEF FlagInv, ReadIsFresh
<1>4. SettledLevel'
  BY <1>1 DEF SettledLevel
<1>5. TimerInv'
  BY NullAssumption DEF TimerInv, Buttons
<1> QED BY <1>3, <1>4, <1>5 DEF Offered

LEMMA HardwareOffer ==
  ASSUME IInv, NEW b \in Buttons, Edge(b) \/ Button_handler(b) \/ buttons_irq(b)
  PROVE  Offered'
<1> USE DEF IInv, TypeOK
<1>1. CASE Edge(b)
  <2>1. \A c \in Buttons \ (pend' \cup missed') : level'[c] = level[c]
    BY <1>1 DEF Edge
  <2>2. pend \cup missed \subseteq pend' \cup missed'
    BY <1>1 DEF Edge
  <2>3. SettledLevel'
    BY <1>1, <2>1, <2>2 DEF Edge, SettledLevel, driver, input
  <2> QED BY <1>1, <2>3 DEF Edge, Offered, FlagInv, ReadIsFresh, TimerInv, driver, input
<1>2. CASE Button_handler(b)
  BY <1>2, ReportOffer DEF Button_handler, TimerInv
<1>3. CASE buttons_irq(b)
  <2>1. FlagInv' /\ ReadIsFresh'
    BY <1>3 DEF buttons_irq, history, FlagInv, ReadIsFresh
  <2>2. SettledLevel' /\ TimerInv'
    BY <1>3, NullAssumption DEF buttons_irq, SettledLevel, TimerInv, Buttons
  <2> QED BY <2>1, <2>2 DEF Offered
<1> QED BY <1>1, <1>2, <1>3

LEMMA TimerOffer ==
  ASSUME IInv, buttons_timer_function
  PROVE  Offered'
<1> USE DEF IInv, TypeOK
<1>1. CASE irq_pd = NULL
  BY <1>1 DEF buttons_timer_function, Offered, FlagInv, ReadIsFresh, TimerInv, SettledLevel
<1>2. CASE irq_pd # NULL
  BY <1>2, ReportOffer DEF buttons_timer_function
<1> QED BY <1>1, <1>2

LEMMA NextOffer ==
  ASSUME IInv, [Next]_vars
  PROVE  Offered'
<1>1. ASSUME NEW p \in Procs, Process(p) PROVE Offered'
  BY <1>1, OpenCloseOffer, ReaderOffer DEF Process
<1>2. CASE UNCHANGED vars \/ Button_timer_handler_Null
  BY <1>2 DEF IInv, Offered, FlagInv, ReadIsFresh, TimerInv, SettledLevel,
              Button_timer_handler_Null, vars, driver, input, history
<1> QED BY <1>1, <1>2, HardwareOffer, TimerOffer DEF Next, Step

LEMMA NextInv ==
  ASSUME IInv, [Next]_vars
  PROVE  IInv'
<1>1. TypeOK'
  BY NextTypes DEF IInv
<1>2. ASSUME NEW p \in Procs, Process(p) PROVE Rest'
  BY <1>2, EnterInv, RequestIrqInv, FreeIrqInv, LeaveInv, ProcessInside DEF Process
<1>3. ASSUME NEW b \in Buttons, Edge(b) PROVE Rest'
  BY <1>3, Elsewhere DEF Edge, driver, input
<1>4. ASSUME NEW b \in Buttons, Button_handler(b) PROVE Rest'
  BY <1>4, ReportWakes DEF Button_handler
<1>5. ASSUME NEW b \in Buttons, buttons_irq(b) PROVE Rest'
  BY <1>5, Elsewhere DEF buttons_irq, history
<1>6. ASSUME buttons_timer_function PROVE Rest'
  <2>1. CASE irq_pd = NULL
    BY <1>6, <2>1, Elsewhere DEF buttons_timer_function
  <2>2. CASE irq_pd # NULL
    BY <1>6, <2>2, ReportWakes DEF buttons_timer_function, IInv, TypeOK
  <2> QED BY <2>1, <2>2
<1>7. ASSUME UNCHANGED vars \/ Button_timer_handler_Null PROVE Rest'
  BY <1>7, Elsewhere DEF vars, driver, input, history, Button_timer_handler_Null
<1>8. Rest'
  BY <1>2, <1>3, <1>4, <1>5, <1>6, <1>7 DEF Next, Step
<1>9. Offered'
  BY NextOffer
<1> QED BY <1>1, <1>8, <1>9 DEF IInv, Rest, Offered

-----------------------------------------------------------------------------
(* The inductive invariant holds in every reachable state of every driver. *)
THEOREM Inductive == Spec => []IInv
BY InitInv, NextInv, PTL DEF Spec

(* Every variable of the six drivers stays within its type.                *)
THEOREM TypeCorrect == Spec => []TypeOK
<1>1. IInv => TypeOK
  BY DEF IInv
<1> QED BY <1>1, Inductive, PTL

(* The semaphore of a driver that has one admits one process, however      *)
(* opens and closes interleave.                                            *)
THEOREM OneHolderHolds == Spec => []OneHolder
<1>1. IInv => OneHolder
  BY DEF IInv, LockInv, OneHolder
<1> QED BY <1>1, Inductive, PTL

(* A process that has the device to itself has every interrupt requested:  *)
(* no close, which frees them one by one, overtakes a later open.          *)
THEOREM HolderHasIrqsHolds == Spec => []HolderHasIrqs
<1>1. IInv => HolderHasIrqs
  BY DEF IInv, LockInv, Requested, HolderHasIrqs
<1> QED BY <1>1, Inductive, PTL

(* No reader and no poller sleeps over a reported key.                     *)
THEOREM NoLostWakeupHolds == Spec => []NoLostWakeup
<1>1. IInv => NoLostWakeup
  BY DEF IInv
<1> QED BY <1>1, Inductive, PTL

(* In a driver with an event flag, a process that nobody met copies no     *)
(* value twice, unless a signal ended its sleep: a set flag stands for a   *)
(* value nobody has copied. Of the device-tree driver it says nothing.     *)
THEOREM ReadIsFreshHolds == Spec => []ReadIsFresh
<1>1. IInv => ReadIsFresh
  BY DEF IInv
<1> QED BY <1>1, Inductive, PTL

(* When nothing is pending, the value offered is the level of its key, in  *)
(* every driver and however many keys share irq_pd and the timer.          *)
THEOREM SettledLevelHolds == Spec => []SettledLevel
<1>1. IInv => SettledLevel
  BY DEF IInv
<1> QED BY <1>1, Inductive, PTL
===============================================================================
