------------------------- MODULE TouchScreenProofs -------------------------
(* The invariants of TouchScreen, for every set of points and both versions  *)
(* of the driver.                                                            *)
EXTENDS TouchScreen, SequenceTheorems, TLAPS

(* A lift within a chain is still on: when the pen comes back after it, the   *)
(* pen-up branch has dropped the chain.                                       *)
LiftIsOn == IrqsOn /\ lifted => pen = "up" /\ buf # << >>

WatchedInNew == ReportsRelease => TouchIsWatched

(* The interrupts are freed before the timer is deleted: nothing arms it again. *)
GoneIsQuiet == phase = "gone" => ~armed

Inv ==
  /\ TypeOK
  /\ ChainIsAlive
  /\ WatchedInNew
  /\ LiftIsOn
  /\ FaultOnlyInExit
  /\ GoneIsQuiet

(* Writing adctsc selects a mode and leaves IRQ_TC pending or not. *)
LEMMA EnterType ==
  ASSUME NEW m \in {"waitDown", "waitUp", "measure"}, NEW pending \in BOOLEAN,
         Enter(m, pending)
  PROVE  mode' \in {"waitDown", "waitUp", "measure"} /\ tcPend' \in BOOLEAN
BY DEF Enter

(* The empty chain is a sequence of samples. *)
LEMMA EmptyChain == << >> \in Seq(Points) /\ Len(<< >>) = 0
OBVIOUS

(* The module begins with no chain, no touch and no timer. *)
LEMMA InitInv == Init => Inv
<1> SUFFICES ASSUME Init PROVE Inv
  OBVIOUS
<1>1. buf \in Seq(Points) /\ Len(buf) < 4
  BY EmptyChain DEF Init
<1>2. TypeOK
  BY <1>1 DEF Init, TypeOK, Phases
<1>3. QED
  BY <1>2 DEF Init, Inv, ChainIsAlive, WatchedInNew, TouchIsWatched, LiftIsOn,
              FaultOnlyInExit, GoneIsQuiet

(* The pen and the converter. *)
LEMMA PenMovesInv == ASSUME Inv, PenMoves PROVE Inv'
<1> USE DEF Inv, PenMoves
<1>1. TypeOK'
  BY DEF TypeOK
<1>2. ChainIsAlive' /\ WatchedInNew' /\ FaultOnlyInExit' /\ GoneIsQuiet'
  BY DEF ChainIsAlive, WatchedInNew, TouchIsWatched, FaultOnlyInExit, GoneIsQuiet, IrqsOn
<1>3. LiftIsOn'
  BY DEF TypeOK, LiftIsOn, ChainIsAlive, IrqsOn
<1>4. QED BY <1>1, <1>2, <1>3

LEMMA ConversionInv == ASSUME Inv, ConversionEnds PROVE Inv'
BY DEF Inv, ConversionEnds, TypeOK, ChainIsAlive, WatchedInNew, TouchIsWatched,
       LiftIsOn, FaultOnlyInExit, GoneIsQuiet, IrqsOn

(* The pen interrupt: it reports the release, or starts the converter. *)
LEMMA PenIrqInv == ASSUME Inv, pen_down_up_irq PROVE Inv'
<1> USE DEF Inv, pen_down_up_irq
<1>1. /\ mode' \in {"waitDown", "waitUp", "measure"} /\ tcPend' \in BOOLEAN
      /\ \/ pen = "up" /\ touch' = FALSE /\ busy' = busy
         \/ pen = "down" /\ busy' = TRUE /\ touch' = touch
  BY EnterType DEF enter_wait_pen_down_mode, enter_measure_xy_mode, start_adc, ReportUp
<1>2. TypeOK'
  <2>1. busy' \in BOOLEAN /\ touch' \in BOOLEAN
    BY <1>1 DEF TypeOK
  <2>2. tcPend /\ UNCHANGED <<pen, adcPend, buf, armed, timer, phase, fault, lifted>>
    OBVIOUS
  <2>3. QED BY <1>1, <2>1, <2>2, Zenon DEF TypeOK
<1>3. ChainIsAlive' /\ WatchedInNew' /\ LiftIsOn' /\ FaultOnlyInExit' /\ GoneIsQuiet'
  BY <1>1 DEF TypeOK, ChainIsAlive, WatchedInNew, TouchIsWatched, LiftIsOn, FaultOnlyInExit,
              GoneIsQuiet, IrqsOn
<1>4. QED BY <1>2, <1>3

(* The converter's interrupt: the chain is dropped, longer, or complete. *)
LEMMA AdcIrqInv == ASSUME Inv, adc_irq PROVE Inv'
<1> USE DEF Inv, adc_irq
<1>1. ASSUME AdcPenUp PROVE Inv'
  <2>1. /\ mode' \in {"waitDown", "waitUp", "measure"} /\ tcPend' \in BOOLEAN
        /\ ReportsRelease => ~touch'
        /\ touch' \in BOOLEAN
    BY <1>1, EnterType, VersionAssumption
       DEF AdcPenUp, enter_wait_pen_down_mode, ReportUp, TypeOK
  <2>2. TypeOK'
    <3>1. buf' \in Seq(Points) /\ Len(buf') < 4
      BY <1>1, EmptyChain DEF AdcPenUp
    <3>2. /\ lifted' = FALSE /\ adcPend' = FALSE
          /\ UNCHANGED <<pen, timer, phase, fault, busy, armed>>
      BY <1>1 DEF AdcPenUp
    <3>3. QED BY <3>1, <3>2, <2>1 DEF TypeOK
  <2>3. ChainIsAlive' /\ WatchedInNew' /\ LiftIsOn' /\ FaultOnlyInExit' /\ GoneIsQuiet'
    BY <1>1, <2>1 DEF AdcPenUp, ChainIsAlive, WatchedInNew, TouchIsWatched, LiftIsOn,
                      FaultOnlyInExit, GoneIsQuiet, IrqsOn
  <2>4. QED BY <2>2, <2>3
<1>2. ASSUME AdcNext PROVE Inv'
  <2>1. mode' \in {"waitDown", "waitUp", "measure"} /\ tcPend' \in BOOLEAN /\ busy'
    BY <1>2, EnterType DEF AdcNext, enter_measure_xy_mode, start_adc, TypeOK
  <2>2. PICK p \in Points : buf' = Append(buf, p)
    BY <1>2 DEF AdcNext
  <2>3. TypeOK'
    <3>1. buf' \in Seq(Points) /\ Len(buf') < 4
      BY <1>2, <2>2, AppendProperties DEF AdcNext, TypeOK
    <3>2. /\ busy' = TRUE
          /\ UNCHANGED <<pen, timer, phase, fault, armed, touch, lifted>> /\ adcPend' = FALSE
      BY <1>2 DEF AdcNext, start_adc
    <3>3. QED BY <3>1, <3>2, <2>1 DEF TypeOK
  <2>4. ChainIsAlive' /\ WatchedInNew' /\ FaultOnlyInExit' /\ GoneIsQuiet'
    BY <1>2, <2>1 DEF AdcNext, ChainIsAlive, WatchedInNew, TouchIsWatched,
                      FaultOnlyInExit, GoneIsQuiet, IrqsOn
  <2>5. LiftIsOn'
    BY <1>2, <2>2 DEF AdcNext, LiftIsOn, IrqsOn
  <2>6. QED BY <2>3, <2>4, <2>5
<1>3. ASSUME AdcLast PROVE Inv'
  <2>1. /\ mode' \in {"waitDown", "waitUp", "measure"} /\ tcPend' \in BOOLEAN
        /\ touch' \in BOOLEAN
    BY <1>3, EnterType DEF AdcLast, enter_wait_pen_up_mode, TypeOK
  <2>2. TypeOK'
    <3>1. buf' \in Seq(Points) /\ Len(buf') < 4
      BY <1>3, EmptyChain DEF AdcLast
    <3>2. /\ lifted' = FALSE /\ armed' = TRUE /\ adcPend' = FALSE
          /\ UNCHANGED <<pen, timer, phase, fault, busy>>
      BY <1>3 DEF AdcLast
    <3>3. QED BY <3>1, <3>2, <2>1 DEF TypeOK
  <2>3. ChainIsAlive' /\ WatchedInNew' /\ LiftIsOn' /\ FaultOnlyInExit' /\ GoneIsQuiet'
    BY <1>3 DEF AdcLast, ChainIsAlive, WatchedInNew, TouchIsWatched, LiftIsOn,
                FaultOnlyInExit, GoneIsQuiet, IrqsOn
  <2>4. QED BY <2>2, <2>3
<1>4. QED BY <1>1, <1>2, <1>3

(* The timer function hands its watch over: to the converter, or to nobody  *)
(* once it has reported the release.                                        *)
LEMMA TimerInv == ASSUME Inv, s3c_ts_timer_function PROVE Inv'
<1> USE DEF Inv, s3c_ts_timer_function
<1>1. ASSUME TimerReads PROVE Inv'
  BY <1>1 DEF TimerReads, hw, TypeOK, ChainIsAlive, WatchedInNew, TouchIsWatched, LiftIsOn,
              FaultOnlyInExit, GoneIsQuiet, IrqsOn
<1>2. ASSUME TimerReportsUp PROVE Inv'
  <2>1. mode' \in {"waitDown", "waitUp", "measure"} /\ tcPend' \in BOOLEAN
    BY <1>2, EnterType DEF TimerReportsUp, enter_wait_pen_down_mode, TypeOK
  <2>2. QED
    BY <1>2, <2>1 DEF TimerReportsUp, ReportUp, TypeOK, ChainIsAlive, WatchedInNew,
                      TouchIsWatched, LiftIsOn, FaultOnlyInExit, GoneIsQuiet, IrqsOn
<1>3. ASSUME TimerMeasures PROVE Inv'
  <2>1. mode' \in {"waitDown", "waitUp", "measure"} /\ tcPend' \in BOOLEAN
    BY <1>3, EnterType DEF TimerMeasures, enter_measure_xy_mode, TypeOK
  <2>2. QED
    BY <1>3, <2>1 DEF TimerMeasures, start_adc, TypeOK, ChainIsAlive, WatchedInNew,
                      TouchIsWatched, LiftIsOn, FaultOnlyInExit, GoneIsQuiet, IrqsOn
<1>4. QED BY <1>1, <1>2, <1>3

(* Loading and unloading: the interrupts stop before the timer does. *)
LEMMA ModuleInv == ASSUME Inv, s3c_ts_init \/ s3c_ts_exit PROVE Inv'
<1> USE DEF Inv, Goto, TypeOK, Phases, ChainIsAlive, WatchedInNew, TouchIsWatched, LiftIsOn,
            FaultOnlyInExit, GoneIsQuiet, IrqsOn
<1>1. ASSUME AddTimer PROVE Inv'
  BY <1>1 DEF AddTimer, hw
<1>2. ASSUME FirstWait PROVE Inv'
  <2>1. mode' \in {"waitDown", "waitUp", "measure"} /\ tcPend' \in BOOLEAN
    BY <1>2, EnterType DEF FirstWait, enter_wait_pen_down_mode
  <2>2. QED BY <1>2, <2>1 DEF FirstWait
<1>3. ASSUME FreeTc \/ FreeAdc \/ Unmap \/ Unregister \/ DelTimer PROVE Inv'
  <2>1. CASE FreeTc \/ FreeAdc   BY <2>1 DEF FreeTc, FreeAdc, hw
  <2>2. CASE Unmap      BY <2>2 DEF Unmap, hw
  <2>3. CASE Unregister BY <2>3 DEF Unregister, hw
  <2>4. CASE DelTimer   BY <2>4 DEF DelTimer, hw
  <2>5. QED BY <1>3, <2>1, <2>2, <2>3, <2>4
<1>4. QED BY <1>1, <1>2, <1>3 DEF s3c_ts_init, s3c_ts_exit

(* Every step of the pen, the handlers, the timer and the module keeps Inv. *)
LEMMA NextInv == Inv /\ [Next]_vars => Inv'
<1> SUFFICES ASSUME Inv, [Next]_vars PROVE Inv'
  OBVIOUS
<1>1. CASE UNCHANGED vars
  BY <1>1 DEF vars, Inv, TypeOK, ChainIsAlive, WatchedInNew, TouchIsWatched, LiftIsOn,
              FaultOnlyInExit, GoneIsQuiet, IrqsOn
<1>2. CASE Next
  BY <1>2, PenMovesInv, ConversionInv, PenIrqInv, AdcIrqInv, TimerInv, ModuleInv DEF Next
<1>3. QED BY <1>1, <1>2

(* Inv holds in every reachable state. *)
THEOREM Inductive == Spec => []Inv
<1>1. QED BY InitInv, NextInv, PTL DEF Spec

(* Every variable of both drivers stays within its type: a chain never keeps   *)
(* more samples than it takes to report them.                                  *)
THEOREM TypeCorrect == Spec => []TypeOK
<1>1. Inv => TypeOK
  BY DEF Inv
<1>2. QED BY <1>1, Inductive, PTL

(* A chain that holds samples has a conversion or its interrupt outstanding:  *)
(* adc_irq never starts from the leftovers of an earlier chain.               *)
THEOREM ChainIsAliveHolds == Spec => []ChainIsAlive
<1>1. Inv => ChainIsAlive
  BY DEF Inv
<1>2. QED BY <1>1, Inductive, PTL

(* In s3c_ts.c a reported touch is watched until its release is reported. *)
THEOREM TouchIsWatchedHolds ==
  ASSUME ReportsRelease
  PROVE  Spec => []TouchIsWatched
<1>1. Inv => TouchIsWatched
  BY ReportsRelease DEF Inv, WatchedInNew
<1>2. QED BY <1>1, Inductive, PTL

(* The samples that can be reported belong to one stroke. *)
THEOREM OneStrokeHolds == Spec => []OneStroke
<1>1. Inv => OneStroke
  BY DEF Inv, LiftIsOn, OneStroke
<1>2. QED BY <1>1, Inductive, PTL

(* s3c_ts_exit faults only between iounmap and del_timer. *)
THEOREM FaultOnlyInExitHolds == Spec => []FaultOnlyInExit
<1>1. Inv => FaultOnlyInExit
  BY DEF Inv
<1>2. QED BY <1>1, Inductive, PTL
============================================================================
