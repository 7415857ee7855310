---------------------------- MODULE TouchScreen ----------------------------
(* The touch screen driver of the S3C2440, TouchScreen/s3c_touch_screen.c,  *)
(* and its port to the device tree, device_tree/ts/s3c_ts.c.  A pen-down    *)
(* interrupt starts a chain of four A/D conversions; the fourth reports a   *)
(* filtered mean and arms a timer, which either reports the release or      *)
(* starts the next chain.  The timer function is a softirq: the two         *)
(* interrupts can run in the middle of it, and it can run between two       *)
(* statements of the module's init and exit.                                *)
EXTENDS Integers, Sequences

CONSTANTS
  Points,          \* the pairs <<x, y>> the converter may deliver
  ReportsRelease   \* s3c_ts.c reports the release when a conversion finds the pen up

ASSUME PointsAssumption == Points \subseteq (0 .. 1023) \X (0 .. 1023)
ASSUME VersionAssumption == ReportsRelease \in BOOLEAN

VARIABLES
  pen,      \* "up" or "down": bit 15 of adcdat0
  mode,     \* what adctsc selects
  tcPend,   \* IRQ_TC is pending
  busy,     \* a conversion runs
  adcPend,  \* IRQ_ADC is pending
  buf,      \* x[], y[] and cnt: the samples of this chain
  armed,    \* s3c_ts_timer is pending
  timer,    \* "idle", or the pen as the running timer function read it
  touch,    \* the last BTN_TOUCH reported
  phase,    \* how far s3c_ts_init or s3c_ts_exit is
  fault,    \* a register was accessed after iounmap
  lifted    \* history: the pen left the screen since the first sample of buf, for
            \* longer than the conversion under way

hw   == <<pen, mode, tcPend, busy, adcPend>>
vars == <<pen, mode, tcPend, busy, adcPend, buf, armed, timer, touch, phase, fault, lifted>>

Phases == {"init", "timer", "on", "notc", "noirq", "unmapped", "freed", "gone"}

TypeOK ==
  /\ pen \in {"up", "down"}
  /\ mode \in {"off", "waitDown", "waitUp", "measure"}
  /\ tcPend \in BOOLEAN /\ busy \in BOOLEAN /\ adcPend \in BOOLEAN
  /\ buf \in Seq(Points) /\ Len(buf) < 4
  /\ armed \in BOOLEAN
  /\ timer \in {"idle", "up", "down"}
  /\ touch \in BOOLEAN
  /\ phase \in Phases
  /\ fault \in BOOLEAN
  /\ lifted \in BOOLEAN

(* After ioremap and request_irq, before add_timer. *)
Init ==
  /\ pen \in {"up", "down"}
  /\ mode = "off"
  /\ tcPend = FALSE /\ busy = FALSE /\ adcPend = FALSE
  /\ buf = << >>
  /\ armed = FALSE
  /\ timer = "idle"
  /\ touch = FALSE
  /\ phase = "init"
  /\ fault = FALSE
  /\ lifted = FALSE

----------------------------------------------------------------------------
(* The registers.  A wait mode raises IRQ_TC when the pen moves its way; an *)
(* adctsc write that finds the pen there already may raise it or not.       *)

Awaits(m, p) == \/ m = "waitDown" /\ p = "down"
                \/ m = "waitUp" /\ p = "up"

(* Write mode m, with IRQ_TC pending or not beforehand. *)
Enter(m, pending) ==
  /\ mode' = m
  /\ tcPend' \in IF Awaits(m, pen) THEN {pending, TRUE} ELSE {pending}

enter_wait_pen_down_mode(pending) == Enter("waitDown", pending)

enter_wait_pen_up_mode(pending) == Enter("waitUp", pending)

enter_measure_xy_mode(pending) == Enter("measure", pending)

(* Both interrupts are requested; or IRQ_ADC alone, once exit freed IRQ_TC.  *)
IrqsOn == ~fault /\ phase \in {"init", "timer", "on", "notc"}

start_adc == busy' = TRUE

PenMoves ==
  /\ pen' = IF pen = "up" THEN "down" ELSE "up"
  /\ tcPend' = (tcPend \/ Awaits(mode, pen'))
  /\ lifted' = IF pen = "down" THEN buf # << >> ELSE lifted /\ ~(busy \/ adcPend)
  /\ UNCHANGED <<mode, busy, adcPend, buf, armed, timer, touch, phase, fault>>

ConversionEnds ==
  /\ busy
  /\ busy' = FALSE
  /\ adcPend' = TRUE
  /\ UNCHANGED <<pen, mode, tcPend, buf, armed, timer, touch, phase, fault, lifted>>

----------------------------------------------------------------------------
(* The interrupt handlers. *)

(* input_report_abs, input_report_key and input_sync of a release *)
ReportUp == touch' = FALSE

pen_down_up_irq ==
  /\ IrqsOn /\ phase # "notc" /\ tcPend
  /\ \/ /\ pen = "up"
        /\ ReportUp
        /\ enter_wait_pen_down_mode(FALSE)
        /\ UNCHANGED busy
     \/ /\ pen = "down"
        /\ enter_measure_xy_mode(FALSE)
        /\ start_adc
        /\ UNCHANGED touch
  /\ UNCHANGED <<pen, adcPend, buf, armed, timer, phase, fault, lifted>>

ERR_LIMIT == 10

Abs(n) == IF n < 0 THEN -n ELSE n

(* Each of the last two samples is near the mean of the two before it. *)
s3c_filter_ts(s) ==
  \A i \in 3 .. 4, c \in 1 .. 2 :
    Abs(s[i][c] - (s[i - 2][c] + s[i - 1][c]) \div 2) <= ERR_LIMIT

(* Mutant: cnt is not reset. *)
AdcPenUp_KeepCnt ==
  /\ pen = "up"
  /\ UNCHANGED <<buf, lifted>>
  /\ IF ReportsRelease THEN ReportUp ELSE UNCHANGED touch
  /\ enter_wait_pen_down_mode(tcPend)
  /\ UNCHANGED <<busy, armed>>

(* The pen left: drop the chain; only s3c_ts.c reports the release. *)
AdcPenUp ==
  /\ pen = "up"
  /\ buf' = << >> /\ lifted' = FALSE
  /\ IF ReportsRelease THEN ReportUp ELSE UNCHANGED touch
  /\ enter_wait_pen_down_mode(tcPend)
  /\ UNCHANGED <<busy, armed>>

(* Mutant: one sample too many before the chain is complete. *)
AdcNext_OneMore ==
  /\ pen = "down" /\ Len(buf) < 4
  /\ \E p \in Points : buf' = Append(buf, p)
  /\ enter_measure_xy_mode(tcPend)
  /\ start_adc
  /\ UNCHANGED <<armed, touch, lifted>>

(* Mutant: the next conversion is not started. *)
AdcNext_NoStart ==
  /\ pen = "down" /\ Len(buf) < 3
  /\ \E p \in Points : buf' = Append(buf, p)
  /\ enter_measure_xy_mode(tcPend)
  /\ UNCHANGED <<busy, armed, touch, lifted>>

(* Fewer than four samples: keep this one and measure again. *)
AdcNext ==
  /\ pen = "down" /\ Len(buf) < 3
  /\ \E p \in Points : buf' = Append(buf, p)
  /\ enter_measure_xy_mode(tcPend)
  /\ start_adc
  /\ UNCHANGED <<armed, touch, lifted>>

(* Mutant: the timer is armed only when the filter took no point. *)
AdcLast_ArmOnReport ==
  /\ pen = "down" /\ Len(buf) = 3
  /\ \E p \in Points :
       IF s3c_filter_ts(Append(buf, p)) THEN touch' = TRUE /\ UNCHANGED armed
                                        ELSE UNCHANGED touch /\ armed' = TRUE
  /\ buf' = << >> /\ lifted' = FALSE
  /\ enter_wait_pen_up_mode(tcPend)
  /\ UNCHANGED busy

(* The fourth sample: report the mean if the filter takes it; arm the timer. *)
AdcLast ==
  /\ pen = "down" /\ Len(buf) = 3
  /\ \E p \in Points :
       IF s3c_filter_ts(Append(buf, p)) THEN touch' = TRUE ELSE UNCHANGED touch
  /\ buf' = << >> /\ lifted' = FALSE
  /\ enter_wait_pen_up_mode(tcPend)
  /\ armed' = TRUE
  /\ UNCHANGED busy

adc_irq ==
  /\ IrqsOn /\ adcPend
  /\ adcPend' = FALSE
  /\ AdcPenUp \/ AdcNext \/ AdcLast
  /\ UNCHANGED <<pen, timer, phase, fault>>

----------------------------------------------------------------------------
(* s3c_ts_timer_function: it reads bit 15, and acts on what it read. *)

TimerReads ==
  /\ ~fault /\ armed /\ timer = "idle"
  /\ armed' = FALSE
  /\ IF phase \in {"unmapped", "freed", "gone"}
     THEN fault' = TRUE /\ UNCHANGED timer
     ELSE timer' = pen /\ UNCHANGED fault
  /\ UNCHANGED <<hw, buf, touch, phase, lifted>>

(* Mutant: the mode is set, the release is not reported. *)
TimerReportsUp_Silent ==
  /\ timer = "up"
  /\ UNCHANGED touch
  /\ enter_wait_pen_down_mode(tcPend)
  /\ timer' = "idle"
  /\ UNCHANGED <<pen, busy, adcPend, buf, armed, phase, fault, lifted>>

TimerReportsUp ==
  /\ timer = "up"
  /\ ReportUp
  /\ enter_wait_pen_down_mode(tcPend)
  /\ timer' = "idle"
  /\ UNCHANGED <<pen, busy, adcPend, buf, armed, phase, fault, lifted>>

TimerMeasures ==
  /\ timer = "down"
  /\ enter_measure_xy_mode(tcPend)
  /\ start_adc
  /\ timer' = "idle"
  /\ UNCHANGED <<pen, adcPend, buf, armed, touch, phase, fault, lifted>>

s3c_ts_timer_function == TimerReads \/ TimerReportsUp \/ TimerMeasures

----------------------------------------------------------------------------
(* Loading and unloading the module: process context, which never runs in   *)
(* the middle of the timer function.                                        *)

Goto(from, to) == ~fault /\ timer = "idle" /\ phase = from /\ phase' = to

(* add_timer with no expiry set: the timer may run at once. *)
AddTimer ==
  /\ Goto("init", "timer")
  /\ armed' = TRUE
  /\ UNCHANGED <<hw, buf, timer, touch, fault, lifted>>

FirstWait ==
  /\ Goto("timer", "on")
  /\ enter_wait_pen_down_mode(tcPend)
  /\ UNCHANGED <<pen, busy, adcPend, buf, armed, timer, touch, fault, lifted>>

s3c_ts_init == AddTimer \/ FirstWait

FreeTc ==
  /\ Goto("on", "notc")
  /\ UNCHANGED <<hw, buf, armed, timer, touch, fault, lifted>>

FreeAdc ==
  /\ Goto("notc", "noirq")
  /\ UNCHANGED <<hw, buf, armed, timer, touch, fault, lifted>>

Unmap ==
  /\ Goto("noirq", "unmapped")
  /\ UNCHANGED <<hw, buf, armed, timer, touch, fault, lifted>>

Unregister ==
  /\ Goto("unmapped", "freed")
  /\ UNCHANGED <<hw, buf, armed, timer, touch, fault, lifted>>

(* Mutant: the timer outlives the module. *)
DelTimer_Not ==
  /\ Goto("freed", "gone")
  /\ UNCHANGED <<hw, buf, armed, timer, touch, fault, lifted>>

DelTimer ==
  /\ Goto("freed", "gone")
  /\ armed' = FALSE
  /\ UNCHANGED <<hw, buf, timer, touch, fault, lifted>>

s3c_ts_exit == FreeTc \/ FreeAdc \/ Unmap \/ Unregister \/ DelTimer

Next ==
  \/ PenMoves \/ ConversionEnds
  \/ pen_down_up_irq \/ adc_irq
  \/ s3c_ts_timer_function
  \/ s3c_ts_init \/ s3c_ts_exit

Spec == Init /\ [][Next]_vars

(* A conversion ends, a pending interrupt is taken, an armed timer expires   *)
(* and its function returns.                                                 *)
Fairness ==
  /\ WF_vars(ConversionEnds)
  /\ WF_vars(pen_down_up_irq)
  /\ WF_vars(adc_irq)
  /\ WF_vars(s3c_ts_timer_function)

FairSpec == Spec /\ Fairness

----------------------------------------------------------------------------
(* A chain is never abandoned half way: as long as it holds samples, a      *)
(* conversion or its interrupt is outstanding, so the next four samples     *)
(* never begin with the leftovers of an earlier chain.  The timer, the pen  *)
(* interrupt and the conversions all start or stop measuring.               *)
ChainIsAlive == IrqsOn /\ buf # << >> => busy \/ adcPend

(* A touch that was reported stays under observation until its release is   *)
(* reported: something that will look at the pen again is outstanding.      *)
TouchIsWatched ==
  IrqsOn /\ touch => busy \/ adcPend \/ armed \/ timer # "idle"

(* The timer touches the registers after iounmap only in the window that    *)
(* s3c_ts_exit leaves before del_timer, never once the module is gone.      *)
FaultOnlyInExit == fault => phase \in {"unmapped", "freed"}

(* The samples of a chain that can still be reported belong to one stroke,   *)
(* unless the pen left and came back within a single conversion: the reset   *)
(* of cnt in the pen-up branch of adc_irq separates the strokes.             *)
OneStroke == IrqsOn /\ pen = "down" => ~lifted

(* The release of a reported touch is reported, unless the pen comes back   *)
(* or the module is unloaded first.                                         *)
ReleaseReported ==
  (touch /\ pen = "up" /\ phase = "on") ~> (~touch \/ pen = "down" \/ phase # "on")

(* s3c_touch_screen.c:255, "the timer handles the long press and the slide":  *)
(* when all is quiet again after a press, it was also reported as ended.      *)
LongPressEnds ==
  phase = "on" /\ pen = "up" /\ ~(busy \/ adcPend \/ armed \/ tcPend) /\ timer = "idle"
    => ~touch
============================================================================
