------------------------------- MODULE Drive -------------------------------
(***************************************************************************)
(* The power stage and who may switch it on: the state machine task_fsm,   *)
(* which holds the gate-driver enable pin, task_current_control, which     *)
(* runs the PI controller and writes the PWM timer, and the parameters the *)
(* host writes between them.  The tasks share this state without locks;    *)
(* they run to completion on one core, so a task is one step, and the      *)
(* scheduler may run them in any order.                                    *)
(*                                                                         *)
(* Of a current, a voltage and an integral only what decides a branch is   *)
(* kept: whether the supply reads 0, whether the integral is 0, and the    *)
(* controller's output at its two limits and at 0.                         *)
(***************************************************************************)
EXTENDS Integers

CONSTANTS Gains,       \* the values the host writes to current_kp, current_ki
          BootGain,    \* what init_current_controller sets (0.9, 600)
          Freqs,       \* the values the host writes to fsw
          BootFreq,    \* PWM_SWITCHING_FREQUENCY_HZ
          MaxReset     \* bound: presses of the reset button

CoreClock == 48000000   \* FUNCONF_SYSTEM_CORE_CLOCK
TimerRange == 65536     \* ATRLR and CHxCVR hold 16 bits
FixMinimum == -32768    \* fix16_minimum
MaxFreq == 1073741823   \* bound: 2U * frequency_hz does not wrap

\* 0 is among both, as parameters_init sets every parameter to 0.
ASSUME DriveAssumption ==
  /\ 0 \in Gains
  /\ 0 \in Freqs /\ Freqs \subseteq 0..MaxFreq
  /\ BootFreq \in 1..MaxFreq
  /\ MaxReset \in Nat

VARIABLES
  state,       \* state of fsm.c
  gate,        \* the level of PIN_GD_EN
  param,       \* the parameter values the host writes
  ctl,         \* what current_control.c holds: gains, their cached copies,
               \* whether integral_k1 and v_meas differ from 0
  pwm,         \* pwm_switching_frequency_hz, TIM1->ATRLR, CH1CVR, CH2CVR
  resetLeft,   \* what is left of the bound
  fsmSince,    \* runs of task_fsm since enable was last written, up to 2
  ccSince      \* whether task_current_control ran after the first of them

vars == <<state, gate, param, ctl, pwm, resetLeft, fsmSince, ccSince>>

-----------------------------------------------------------------------------
(* The PWM timer. *)

\* pwm_frequency_to_period_ticks: above 24 MHz it is 0 - 1, in 32 bits
PeriodTicks(f) == IF f = 0 THEN 0 ELSE (CoreClock \div (2 * f)) - 1

\* apply_pwm_switching_frequency: a period of 0 leaves the timer alone, any
\* other one loses its upper bits in ATRLR.
Applied(f, arr) == IF PeriodTicks(f) = 0 THEN arr ELSE PeriodTicks(f) % TimerRange

\* current_control_duty_to_ticks of d/2: clamped to [0, 1], rounded; a
\* period of 2^15 or more is a negative fix16, so that the product, taken
\* as unsigned, is cut to the period.
Ticks_Unclamped(d, period) ==
  IF 2 * period >= TimerRange /\ d > 0 THEN period ELSE (d * period + 1) \div 2
Ticks(d, period) ==
  LET duty == IF d < 0 THEN 0 ELSE IF d > 2 THEN 2 ELSE d
  IN  IF 2 * period >= TimerRange /\ duty > 0 THEN period
      ELSE (duty * period + 1) \div 2

\* fix16_div of an output of out times the supply: out, and the most
\* negative number when the supply reads 0.
Modulation(out, supply) == IF supply THEN out ELSE FixMinimum

-----------------------------------------------------------------------------
(* What the program holds after a reset: static initialisers, the          *)
(* init_pins functions and parameters_init.                                *)

BootParam == [enable |-> 0, kp |-> 0, ki |-> 0, fsw |-> 0]
BootCtl == [kp |-> BootGain, ki |-> BootGain, cachedKp |-> 0, cachedKi |-> 0,
            integral |-> FALSE, vMeas |-> FALSE]
BootPwm == [hz |-> 0, arr |-> PeriodTicks(BootFreq) % TimerRange, ch1 |-> 0, ch2 |-> 0]

Init == /\ state = "init" /\ gate = FALSE
        /\ param = BootParam /\ ctl = BootCtl /\ pwm = BootPwm
        /\ resetLeft = MaxReset
        /\ fsmSince = 0 /\ ccSince = FALSE

-----------------------------------------------------------------------------
(* task_fsm.  parameters_fetch of PARAM_ID_ENABLE cannot fail, as the      *)
(* parameter exists and fits its buffer: FSM_FAULT is not entered.         *)

\* The reset button, from any state: NVIC_SystemReset in the same call.
FsmReset == /\ resetLeft > 0
            /\ resetLeft' = resetLeft - 1
            /\ state' = "init" /\ gate' = FALSE
            /\ param' = BootParam /\ ctl' = BootCtl /\ pwm' = BootPwm
            /\ fsmSince' = 0 /\ ccSince' = FALSE

FsmTick == /\ fsmSince' = IF fsmSince < 2 THEN fsmSince + 1 ELSE 2
           /\ UNCHANGED <<param, ctl, pwm, resetLeft, ccSince>>

FsmInit == /\ state = "init"
           /\ state' = "idle"
           /\ UNCHANGED gate
           /\ FsmTick

FsmIdle_LeavesGate == /\ state = "idle"
                      /\ state' = IF param.enable # 0 THEN "current_control" ELSE "idle"
                      /\ UNCHANGED gate
                      /\ FsmTick
FsmIdle == /\ state = "idle"
           /\ gate' = FALSE
           /\ state' = IF param.enable # 0 THEN "current_control" ELSE "idle"
           /\ FsmTick

FsmControl == /\ state = "current_control"
              /\ IF param.enable = 0
                   THEN state' = "idle" /\ UNCHANGED gate
                   ELSE gate' = TRUE /\ UNCHANGED state
              /\ FsmTick

TaskFsm == FsmInit \/ FsmIdle \/ FsmControl

-----------------------------------------------------------------------------
(* task_current_control: drain_adc_dma brings a new supply measurement, or *)
(* none, and update_current_controller_parameters the gains and fsw, in    *)
(* every state.                                                            *)

\* A gain is copied only when the parameter differs from the value copied
\* last, which is then the parameter.
Gain_SkipsController(value, cached, gain) == gain
Gain(value, cached, gain) == IF value # cached THEN value ELSE gain

Period == IF param.fsw # pwm.hz THEN Applied(param.fsw, pwm.arr) ELSE pwm.arr

Updated(integral, supply) ==
  [kp |-> Gain(param.kp, ctl.cachedKp, ctl.kp), cachedKp |-> param.kp,
   ki |-> Gain(param.ki, ctl.cachedKi, ctl.ki), cachedKi |-> param.ki,
   integral |-> integral, vMeas |-> supply]

CcTick == /\ ccSince' = (ccSince \/ fsmSince > 0)
          /\ UNCHANGED <<state, gate, param, resetLeft, fsmSince>>

\* pid_f16_run: the integral moves only if its gain is not 0; the output
\* lies within the supply, and is 0 if neither term gives anything.
Outputs(c) == IF ~c.vMeas \/ (c.kp = 0 /\ ~c.integral) THEN {0} ELSE {-1, 0, 1}

\* The closed loop: new parameters first, then the duty cycles on the
\* period they left.
ControlLoop_OldPeriod ==
  /\ state = "current_control"
  /\ \E integral, supply \in BOOLEAN :
       /\ ctl' = Updated(integral, supply)
       /\ ctl'.ki = 0 => integral = ctl.integral
  /\ \E out \in Outputs(ctl') :
       LET a == Modulation(out, ctl'.vMeas) + 1
       IN  pwm' = [hz |-> param.fsw, arr |-> Period,
                   ch1 |-> Ticks(a, pwm.arr), ch2 |-> Ticks(2 - a, pwm.arr)]
  /\ CcTick
ControlLoop ==
  /\ state = "current_control"
  /\ \E integral, supply \in BOOLEAN :
       /\ ctl' = Updated(integral, supply)
       /\ ctl'.ki = 0 => integral = ctl.integral
  /\ \E out \in Outputs(ctl') :
       LET a == Modulation(out, ctl'.vMeas) + 1    \* duty_a in halves
       IN  pwm' = [hz |-> param.fsw, arr |-> Period,
                   ch1 |-> Ticks(a, Period), ch2 |-> Ticks(2 - a, Period)]
  /\ CcTick

\* In any other state both outputs are forced to 0 and the integral cleared.
ControlOff_KeepsIntegral ==
  /\ state # "current_control"
  /\ \E supply \in BOOLEAN : ctl' = Updated(ctl.integral, supply)
  /\ pwm' = [hz |-> param.fsw, arr |-> Period, ch1 |-> 0, ch2 |-> 0]
  /\ CcTick
ControlOff ==
  /\ state # "current_control"
  /\ \E supply \in BOOLEAN : ctl' = Updated(FALSE, supply)
  /\ pwm' = [hz |-> param.fsw, arr |-> Period, ch1 |-> 0, ch2 |-> 0]
  /\ CcTick

TaskCurrentControl == ControlLoop \/ ControlOff

-----------------------------------------------------------------------------
(* Parameter writes of the host, which task_usb_cdc executes: write_value  *)
(* and parameters_publish store the value and nothing else.                *)

HostEnable == \E e \in {0, 1} :
                /\ e # param.enable
                /\ param' = [param EXCEPT !.enable = e]
                /\ fsmSince' = 0 /\ ccSince' = FALSE
                /\ UNCHANGED <<state, gate, ctl, pwm, resetLeft>>

HostTune == /\ \/ \E g \in Gains : param' = [param EXCEPT !.kp = g]
               \/ \E g \in Gains : param' = [param EXCEPT !.ki = g]
               \/ \E f \in Freqs : param' = [param EXCEPT !.fsw = f]
            /\ UNCHANGED <<state, gate, ctl, pwm, resetLeft, fsmSince, ccSince>>

Next == FsmReset \/ TaskFsm \/ TaskCurrentControl \/ HostEnable \/ HostTune

Spec == Init /\ [][Next]_vars

\* scheduler_run takes a due task on every turn, and the two tasks and
\* those before them leave the core idle for some of the time, so that each
\* is run again and again.  Nothing is assumed of the host or the button.
FairSpec == Spec /\ WF_vars(TaskFsm) /\ WF_vars(TaskCurrentControl)

-----------------------------------------------------------------------------
(* Properties. *)

TypeOK ==
  /\ state \in {"init", "idle", "current_control"} /\ gate \in BOOLEAN
  /\ param \in [enable : {0, 1}, kp : Gains, ki : Gains, fsw : Freqs]
  /\ ctl \in [kp : Gains \cup {BootGain}, ki : Gains \cup {BootGain},
              cachedKp : Gains, cachedKi : Gains, integral : BOOLEAN, vMeas : BOOLEAN]
  /\ pwm \in [hz : Freqs, arr : 0..(TimerRange - 1),
              ch1 : 0..(TimerRange - 1), ch2 : 0..(TimerRange - 1)]
  /\ resetLeft \in 0..MaxReset
  /\ fsmSince \in 0..2 /\ ccSince \in BOOLEAN

\* Two runs of task_fsm after the host takes enable away, and not one, the
\* gate driver is off, whatever the other tasks and the host's other writes
\* did in between; and two runs after it gives enable, the state machine is
\* in current control, even if the program was only just starting.
GateLatency ==
  fsmSince = 2 => IF param.enable = 0 THEN ~gate /\ state = "idle"
                                      ELSE state = "current_control"

\* Once task_fsm has seen enable taken away and task_current_control has run
\* after it, the bridge is driven no more and the integral of the last use
\* cannot act in the next.
BridgeLatency == param.enable = 0 /\ ccSince => pwm.ch1 = 0 /\ pwm.ch2 = 0 /\ ~ctl.integral

\* The compare values never exceed the timer's period, whatever frequency
\* the host selects and whenever: they were computed on that same period.
CompareInRange == pwm.ch1 <= pwm.arr /\ pwm.ch2 <= pwm.arr

\* A gain that has once reached the controller is the one it runs with, whatever
\* is written after it; until then it runs with the one it was built with, even
\* when the host has written 0, which is taken for no change.
GainsTracked ==
  /\ ctl.kp = ctl.cachedKp \/ (ctl.kp = BootGain /\ ctl.cachedKp = 0)
  /\ ctl.ki = ctl.cachedKi \/ (ctl.ki = BootGain /\ ctl.cachedKi = 0)

\* If the host leaves enable off, the gate driver and the bridge go off for
\* good; if it leaves it on, the gate driver goes on for good.
EnableHonoured ==
  /\ <>[](param.enable = 0) => <>[](~gate /\ pwm.ch1 = 0 /\ pwm.ch2 = 0)
  /\ <>[](param.enable = 1) => <>[]gate

\* What the comment on the duty cycle says, "duty = 0.5 gives zero output
\* voltage", "duty = 0.0 gives -v_meas": an output that is limited to 0,
\* because the supply reads 0, drives both legs alike.
ZeroCommandZeroVoltage == [][ControlLoop /\ ~ctl'.vMeas => pwm'.ch1 = pwm'.ch2]_vars

=============================================================================
