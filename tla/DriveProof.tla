---------------------------- MODULE DriveProof ----------------------------
(* Theorems about Drive: its types and its safety invariants hold for every *)
(* set of gains and frequencies and any number of resets.                   *)
EXTENDS Drive, TLAPS

-----------------------------------------------------------------------------
(* The timer. *)

\* The provers need of these numbers only this.
LEMMA Numbers ==
  /\ CoreClock \in Nat /\ MaxFreq \in Nat
  /\ TimerRange \in Nat /\ TimerRange > 0
  /\ FixMinimum \in Int
BY SMT DEF CoreClock, MaxFreq, TimerRange, FixMinimum

\* A period is a number, and what is left of it in ATRLR fits.
LEMMA PeriodType ==
  ASSUME NEW f \in 0..MaxFreq
  PROVE  /\ PeriodTicks(f) \in Int
         /\ PeriodTicks(f) % TimerRange \in 0..(TimerRange - 1)
<1>1. PeriodTicks(f) \in Int
  <2>1. CASE f = 0
    BY <2>1 DEF PeriodTicks
  <2>2. CASE f # 0
    <3>1. 2 * f \in Int /\ 2 * f > 0
      BY <2>2, Numbers
    <3>2. CoreClock \div (2 * f) \in Int
      BY <3>1, Numbers
    <3> QED
      BY <2>2, <3>2 DEF PeriodTicks
  <2> QED
    BY <2>1, <2>2
<1>2. PeriodTicks(f) % TimerRange \in 0..(TimerRange - 1)
  BY <1>1, Numbers
<1> QED
  BY <1>1, <1>2

\* A frequency leaves in ATRLR a value that fits in it.
LEMMA AppliedType ==
  ASSUME NEW f \in 0..MaxFreq, NEW arr \in 0..(TimerRange - 1)
  PROVE  Applied(f, arr) \in 0..(TimerRange - 1)
BY PeriodType DEF Applied

\* current_control_duty_to_ticks stays within the period it is given.
LEMMA TicksInPeriod ==
  ASSUME NEW d \in Int, NEW period \in 0..(TimerRange - 1)
  PROVE  Ticks(d, period) \in 0..period
<1> DEFINE duty == IF d < 0 THEN 0 ELSE IF d > 2 THEN 2 ELSE d
<1>1. period \in Nat
  BY Numbers
<1>2. duty = 0 \/ duty = 1 \/ duty = 2
  OBVIOUS
<1>3. (duty * period + 1) \div 2 \in 0..period
  <2>1. CASE duty = 0
    <3>1. (0 * period + 1) \div 2 = 0
      BY <1>1
    <3> QED
      BY <1>1, <2>1, <3>1
  <2>2. CASE duty = 1
    <3>1. (1 * period + 1) \div 2 \in 0..period
      BY <1>1
    <3> QED
      BY <2>2, <3>1
  <2>3. CASE duty = 2
    <3>1. (2 * period + 1) \div 2 = period
      BY <1>1
    <3> QED
      BY <1>1, <2>3, <3>1
  <2> QED
    BY <1>2, <2>1, <2>2, <2>3
<1>4. Ticks(d, period) = period \/ Ticks(d, period) = (duty * period + 1) \div 2
  BY DEF Ticks
<1> QED
  BY <1>1, <1>3, <1>4

-----------------------------------------------------------------------------
(* The inductive invariant.  GateLatency and BridgeLatency rest on where    *)
(* task_fsm stands one run after enable was written, and on the order of    *)
(* the two tasks since.                                                     *)

GateInv ==
  /\ state = "init" => ~gate /\ fsmSince = 0
  /\ fsmSince > 0 /\ param.enable = 0 => state = "idle"
  /\ GateLatency

BridgeInv ==
  /\ ccSince => fsmSince > 0
  /\ BridgeLatency

IInv == TypeOK /\ GateInv /\ BridgeInv /\ CompareInRange /\ GainsTracked

\* The values after a reset.
LEMMA BootType ==
  /\ BootParam \in [enable : {0, 1}, kp : Gains, ki : Gains, fsw : Freqs]
  /\ BootCtl \in [kp : Gains \cup {BootGain}, ki : Gains \cup {BootGain},
                  cachedKp : Gains, cachedKi : Gains, integral : BOOLEAN, vMeas : BOOLEAN]
  /\ BootPwm \in [hz : Freqs, arr : 0..(TimerRange - 1),
                  ch1 : 0..(TimerRange - 1), ch2 : 0..(TimerRange - 1)]
  /\ BootPwm.ch1 = 0 /\ BootPwm.ch2 = 0 /\ BootPwm.arr >= 0
<1>1. BootPwm.arr \in 0..(TimerRange - 1)
  <2>1. BootFreq \in 0..MaxFreq
    BY Numbers, DriveAssumption
  <2> QED
    BY <2>1, PeriodType DEF BootPwm
<1>2. BootParam \in [enable : {0, 1}, kp : Gains, ki : Gains, fsw : Freqs]
  BY DriveAssumption DEF BootParam
<1>3. BootCtl \in [kp : Gains \cup {BootGain}, ki : Gains \cup {BootGain},
                   cachedKp : Gains, cachedKi : Gains, integral : BOOLEAN, vMeas : BOOLEAN]
  BY DriveAssumption DEF BootCtl
<1>4. BootPwm \in [hz : Freqs, arr : 0..(TimerRange - 1),
                   ch1 : 0..(TimerRange - 1), ch2 : 0..(TimerRange - 1)]
  BY <1>1, Numbers, DriveAssumption DEF BootPwm
<1>5. BootPwm.ch1 = 0 /\ BootPwm.ch2 = 0 /\ BootPwm.arr >= 0
  BY <1>1, Numbers DEF BootPwm
<1> QED
  BY <1>2, <1>3, <1>4, <1>5

LEMMA InitInv == Init => IInv
<1> SUFFICES ASSUME Init PROVE IInv
  OBVIOUS
<1>1. TypeOK
  <2>1. resetLeft \in 0..MaxReset /\ fsmSince \in 0..2
    BY DriveAssumption DEF Init
  <2> QED
    BY <2>1, BootType DEF Init, TypeOK
<1>2. GateInv /\ BridgeInv
  BY DEF Init, GateInv, GateLatency, BridgeInv, BridgeLatency
<1>3. CompareInRange
  BY BootType DEF Init, CompareInRange
<1>4. GainsTracked
  BY DEF Init, GainsTracked, BootCtl
<1> QED
  BY <1>1, <1>2, <1>3, <1>4 DEF IInv

\* What task_current_control leaves in the controller: the parameters, or
\* the gains it was built with as long as none was written.
LEMMA UpdatedType ==
  ASSUME TypeOK, GainsTracked, NEW integral \in BOOLEAN, NEW supply \in BOOLEAN,
         ctl' = Updated(integral, supply)
  PROVE  /\ ctl' \in [kp : Gains \cup {BootGain}, ki : Gains \cup {BootGain},
                      cachedKp : Gains, cachedKi : Gains,
                      integral : BOOLEAN, vMeas : BOOLEAN]
         /\ GainsTracked'
<1>1. Gain(param.kp, ctl.cachedKp, ctl.kp) \in Gains \cup {BootGain}
  BY DEF TypeOK, Gain
<1>2. Gain(param.ki, ctl.cachedKi, ctl.ki) \in Gains \cup {BootGain}
  BY DEF TypeOK, Gain
<1>3. param.kp \in Gains /\ param.ki \in Gains
  BY DEF TypeOK
<1>4. GainsTracked'
  BY DEF GainsTracked, Updated, Gain
<1> QED
  BY <1>1, <1>2, <1>3, <1>4 DEF Updated

\* What it leaves in the timer, when the compare values lie in the period.
LEMMA TimerType ==
  ASSUME TypeOK, NEW a \in 0..Period, NEW b \in 0..Period,
         pwm' = [hz |-> param.fsw, arr |-> Period, ch1 |-> a, ch2 |-> b]
  PROVE  /\ Period \in 0..(TimerRange - 1)
         /\ pwm' \in [hz : Freqs, arr : 0..(TimerRange - 1),
                      ch1 : 0..(TimerRange - 1), ch2 : 0..(TimerRange - 1)]
         /\ CompareInRange'
<1>1. param.fsw \in Freqs /\ param.fsw \in 0..MaxFreq
  BY DriveAssumption DEF TypeOK
<1>2. pwm.arr \in 0..(TimerRange - 1)
  BY DEF TypeOK
<1>3. Period \in 0..(TimerRange - 1)
  BY <1>1, <1>2, AppliedType DEF Period
<1>4. a \in 0..(TimerRange - 1) /\ b \in 0..(TimerRange - 1)
  BY <1>3, Numbers
<1>5. CompareInRange'
  BY <1>3, Numbers DEF CompareInRange
<1> QED
  BY <1>1, <1>3, <1>4, <1>5

-----------------------------------------------------------------------------
(* Every step keeps the invariant. *)

LEMMA NextInv == IInv /\ [Next]_vars => IInv'
<1> SUFFICES ASSUME IInv, [Next]_vars PROVE IInv'
  OBVIOUS
<1> USE DEF IInv
<1>1. CASE FsmReset
  <2>1. TypeOK'
    <3>1. resetLeft' \in 0..MaxReset /\ fsmSince' \in 0..2
      BY <1>1, DriveAssumption DEF FsmReset, TypeOK
    <3> QED
      BY <1>1, <3>1, BootType DEF FsmReset, TypeOK
  <2>2. GateInv' /\ BridgeInv'
    BY <1>1 DEF FsmReset, GateInv, GateLatency, BridgeInv, BridgeLatency
  <2>3. CompareInRange'
    BY <1>1, BootType DEF FsmReset, CompareInRange
  <2>4. GainsTracked'
    BY <1>1 DEF FsmReset, GainsTracked, BootCtl
  <2> QED
    BY <2>1, <2>2, <2>3, <2>4
<1>2. CASE TaskFsm
  <2> USE <1>2 DEF TaskFsm, FsmTick
  <2>1. TypeOK'
    <3>1. fsmSince' \in 0..2
      BY DEF FsmInit, FsmIdle, FsmControl, TypeOK
    <3>2. /\ state' \in {"init", "idle", "current_control"} /\ gate' \in BOOLEAN
          /\ UNCHANGED <<param, ctl, pwm, resetLeft, ccSince>>
      BY DEF FsmInit, FsmIdle, FsmControl, TypeOK
    <3> QED
      BY <3>1, <3>2 DEF TypeOK
  <2>2. GateInv'
    <3>1. CASE FsmInit
      BY <3>1 DEF FsmInit, GateInv, GateLatency, TypeOK
    <3>2. CASE FsmIdle
      BY <3>2 DEF FsmIdle, GateInv, GateLatency, TypeOK
    <3>3. CASE FsmControl
      BY <3>3 DEF FsmControl, GateInv, GateLatency, TypeOK
    <3> QED
      BY <3>1, <3>2, <3>3
  <2>3. BridgeInv'
    BY DEF FsmInit, FsmIdle, FsmControl, BridgeInv, BridgeLatency, TypeOK
  <2>4. CompareInRange' /\ GainsTracked'
    BY DEF FsmInit, FsmIdle, FsmControl, CompareInRange, GainsTracked
  <2> QED
    BY <2>1, <2>2, <2>3, <2>4
<1>3. CASE ControlLoop
  <2>1. PICK integral \in BOOLEAN, supply \in BOOLEAN : ctl' = Updated(integral, supply)
    BY <1>3 DEF ControlLoop
  <2>2. PICK out \in Outputs(ctl') :
          pwm' = [hz |-> param.fsw, arr |-> Period,
                  ch1 |-> Ticks(Modulation(out, ctl'.vMeas) + 1, Period),
                  ch2 |-> Ticks(2 - (Modulation(out, ctl'.vMeas) + 1), Period)]
    BY <1>3 DEF ControlLoop
  <2> DEFINE a == Modulation(out, ctl'.vMeas) + 1
  <2>3. a \in Int /\ 2 - a \in Int
    BY Numbers DEF Outputs, Modulation
  <2>4. Period \in 0..(TimerRange - 1)
    BY AppliedType, DriveAssumption DEF Period, TypeOK
  <2>5. Ticks(a, Period) \in 0..Period /\ Ticks(2 - a, Period) \in 0..Period
    BY <2>3, <2>4, TicksInPeriod
  <2>6. /\ pwm' \in [hz : Freqs, arr : 0..(TimerRange - 1),
                     ch1 : 0..(TimerRange - 1), ch2 : 0..(TimerRange - 1)]
        /\ CompareInRange'
    BY <2>2, <2>5, TimerType
  <2>7. TypeOK' /\ GainsTracked'
    BY <1>3, <2>1, <2>6, UpdatedType DEF ControlLoop, CcTick, TypeOK
  <2>8. GateInv' /\ BridgeInv'
    BY <1>3 DEF ControlLoop, CcTick, GateInv, GateLatency, BridgeInv, BridgeLatency, TypeOK
  <2> QED
    BY <2>6, <2>7, <2>8
<1>4. CASE ControlOff
  <2>1. PICK supply \in BOOLEAN : ctl' = Updated(FALSE, supply)
    BY <1>4 DEF ControlOff
  <2>2. pwm' = [hz |-> param.fsw, arr |-> Period, ch1 |-> 0, ch2 |-> 0]
    BY <1>4 DEF ControlOff
  <2>3. 0 \in 0..Period
    <3>1. Period \in 0..(TimerRange - 1)
      BY AppliedType, DriveAssumption DEF Period, TypeOK
    <3> QED
      BY <3>1, Numbers
  <2>4. /\ pwm' \in [hz : Freqs, arr : 0..(TimerRange - 1),
                     ch1 : 0..(TimerRange - 1), ch2 : 0..(TimerRange - 1)]
        /\ CompareInRange'
    BY <2>2, <2>3, TimerType
  <2>5. TypeOK' /\ GainsTracked'
    BY <1>4, <2>1, <2>4, UpdatedType DEF ControlOff, CcTick, TypeOK
  <2>6. GateInv'
    BY <1>4 DEF ControlOff, CcTick, GateInv, GateLatency
  <2>7. BridgeInv'
    BY <1>4, <2>1, <2>2 DEF ControlOff, CcTick, BridgeInv, BridgeLatency, Updated, TypeOK
  <2> QED
    BY <2>4, <2>5, <2>6, <2>7
<1>5. CASE HostEnable
  <2>1. PICK e \in {0, 1} : param' = [param EXCEPT !.enable = e]
    BY <1>5 DEF HostEnable
  <2>2. TypeOK'
    <3>1. param' \in [enable : {0, 1}, kp : Gains, ki : Gains, fsw : Freqs]
      BY <2>1 DEF TypeOK
    <3>2. fsmSince' = 0 /\ ccSince' = FALSE
      BY <1>5 DEF HostEnable
    <3>3. UNCHANGED <<state, gate, ctl, pwm, resetLeft>>
      BY <1>5 DEF HostEnable
    <3>4. fsmSince' \in 0..2
      BY <3>2
    <3> QED
      BY <3>1, <3>2, <3>3, <3>4 DEF TypeOK
  <2>3. GateInv' /\ BridgeInv'
    BY <1>5 DEF HostEnable, GateInv, GateLatency, BridgeInv, BridgeLatency
  <2>4. CompareInRange' /\ GainsTracked'
    BY <1>5 DEF HostEnable, CompareInRange, GainsTracked
  <2> QED
    BY <2>2, <2>3, <2>4
<1>6. CASE HostTune
  <2>1. TypeOK'
    BY <1>6 DEF HostTune, TypeOK
  <2>2. param'.enable = param.enable
    BY <1>6 DEF HostTune, TypeOK
  <2>3. GateInv' /\ BridgeInv'
    BY <1>6, <2>2 DEF HostTune, GateInv, GateLatency, BridgeInv, BridgeLatency
  <2>4. CompareInRange' /\ GainsTracked'
    BY <1>6 DEF HostTune, CompareInRange, GainsTracked
  <2> QED
    BY <2>1, <2>3, <2>4
<1>7. CASE UNCHANGED vars
  BY <1>7 DEF vars, TypeOK, GateInv, GateLatency, BridgeInv, BridgeLatency,
              CompareInRange, GainsTracked
<1> QED
  BY <1>1, <1>2, <1>3, <1>4, <1>5, <1>6, <1>7 DEF Next, TaskCurrentControl

-----------------------------------------------------------------------------
(* The theorems. *)

LEMMA Invariant == Spec => []IInv
BY InitInv, NextInv, PTL DEF Spec

\* The types of Drive: frequencies, wrapped periods and compare values fit
\* the timer's registers after every write and every task.
THEOREM TypeCorrect == Spec => []TypeOK
BY Invariant, PTL DEF IInv

\* task_fsm turns the gate driver off at the second of its runs after enable
\* is taken away, and enters current control within two when it is given.
THEOREM GateLatencyCorrect == Spec => []GateLatency
BY Invariant, PTL DEF IInv, GateInv

\* The bridge is off and the integral cleared once task_current_control has
\* run after a task_fsm that saw enable taken away.
THEOREM BridgeLatencyCorrect == Spec => []BridgeLatency
BY Invariant, PTL DEF IInv, BridgeInv

\* Compare values lie within the period for every frequency.
THEOREM CompareCorrect == Spec => []CompareInRange
BY Invariant, PTL DEF IInv

\* A gain that was ever taken over is the gain in use.
THEOREM GainsCorrect == Spec => []GainsTracked
BY Invariant, PTL DEF IInv

=============================================================================
