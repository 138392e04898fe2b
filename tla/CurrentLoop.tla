---------------------------- MODULE CurrentLoop -----------------------------
(***************************************************************************)
(* From the current sense amplifier to the output voltage: the ADC and its *)
(* DMA channel fill a ring of frames, drain_adc_dma averages the new ones  *)
(* while the DMA goes on writing, and pid_f16_run computes the output.     *)
(* task_setpoint makes a temperature of one of the averages.               *)
(*                                                                         *)
(* The ring holds the number of each sample since power-up instead of its  *)
(* value, which Reading gives.  The host may change a gain, to any sign,   *)
(* between two runs of the controller, which it then reaches; when it does *)
(* not, because of the copy kept of the last one, is the subject of Drive. *)
(***************************************************************************)
EXTENDS Integers, Sequences

CONSTANTS FrameCount,  \* ADC_DMA_FRAME_COUNT
          Reading,     \* bound: the frames the ADC converts, again and again:
                       \* supply, reference, current, position, temperature
          Highest,     \* bound: the highest value of each of the five
          One,         \* fix16_one
          Word,        \* 2^31: a fix16_t lies between -Word and Word - 1
          VGain, IGain,\* ADC_V_MEAS_GAIN, ADC_I_MEAS_GAIN
          BootKp, BootKi, Ts,  \* the controller's first gains and its period
          Gains,       \* bound: the gains the host may write
          Setpoints,   \* bound: what the host may ask for
          Lut,         \* ntc_lut_q16
          Spacing,     \* 2^6 raw values from one entry of it to the next
          MaxFrames    \* bound: frames the ADC converts

L == 5                 \* ADC_SEQUENCE_LENGTH
N == FrameCount * L    \* ADC_DMA_SAMPLE_COUNT

ASSUME LoopAssumption ==
  /\ FrameCount \in Nat \ {0, 1}
  /\ Reading \in Seq([1..L -> Nat]) /\ Reading # <<>> /\ Highest \in [1..L -> Nat]
  /\ \A k \in 1..Len(Reading) : \A i \in 1..L : Reading[k][i] <= Highest[i]
  /\ One \in Nat /\ One > 1 /\ One % 2 = 0 /\ Word \in Nat /\ Word > One
  /\ {VGain, IGain, Ts} \subseteq 0..(Word - 1)
  /\ Gains \cup {BootKp, BootKi} \subseteq (-Word)..(Word - 1)
  /\ \A i \in 1..3 : Highest[i] * One < Word
  /\ Highest[1] * VGain < Word /\ Highest[2] * IGain < Word /\ Highest[3] * IGain < Word
  /\ Setpoints \subseteq (-Word)..(Word - 1) /\ 0 \in Setpoints
  /\ MaxFrames \in Nat

\* The entries of the table never fall.
ASSUME LutAssumption ==
  /\ Lut \in Seq(Int) /\ Len(Lut) > 1 /\ Spacing \in Nat \ {0}
  /\ \A k \in 1..(Len(Lut) - 1) : Lut[k] <= Lut[k + 1]

VARIABLES
  buffer,     \* adc_dma_buffer
  written,    \* samples the DMA has written; CNTR counts the rest of the ring
  readFrame,  \* adc_dma_read_frame
  pc,         \* "idle", or "drain" inside drain_adc_dma
  writeFrame, \* its local variables: write_frame, frame_count, the sample
  frameCount, \* it reads next, and the five sums
  slot,
  sums,
  vMeas,      \* v_meas, i_fb, adc_mag_raw and adc_temp_raw
  fb,
  magRaw,
  tempRaw,
  sp,         \* the value of PARAM_ID_I_SP
  kp,         \* current_controller.kp and ki, as the next run takes them
  ki,
  on,         \* whether fsm_state() is FSM_CURRENT_CONTROL
  integral,   \* current_controller.integral_k1
  out,        \* current_controller.out
  temp,       \* the value of PARAM_ID_TEMP
  \* An account, of which the program knows nothing:
  snap,       \* whole frames the DMA had written when the last drain began
  base,       \* the first of them that this drain reads
  overrun,    \* the DMA has overwritten one of them before it was read
  right,      \* every sample read was the one of its frame and place
  opposed     \* the integral comes from a run with gains of opposite signs

dmaVars == <<buffer, written>>
drainVars == <<readFrame, pc, writeFrame, frameCount, slot, sums>>
measureVars == <<vMeas, fb, magRaw, tempRaw>>
inputVars == <<sp, kp, ki, on>>
controlVars == <<integral, out, opposed>>
accountVars == <<snap, base, overrun, right>>
vars == <<dmaVars, drainVars, measureVars, inputVars, controlVars, temp, accountVars>>

-----------------------------------------------------------------------------
(* Fixed-point arithmetic with a word of any size. *)

Overflow == -Word      \* fix16_overflow

\* What an int32_t makes of a sum.
Wrap(x) == ((x + Word) % (2 * Word)) - Word

Fits(x) == x \in (-Word)..(Word - 1)
FixAdd(a, b) == IF Fits(a + b) THEN a + b ELSE Overflow
FixSub(a, b) == IF Fits(a - b) THEN a - b ELSE Overflow

\* The product rounded to the nearest, halves away from zero.
Rounded_Down(product) == product \div One
Rounded(product) ==
  ((IF product < 0 THEN product - 1 ELSE product) + One \div 2) \div One

FitsTwice(product) == -(Word * One) <= product /\ product < Word * One
FixMul(a, b) == IF FitsTwice(a * b) THEN Wrap(Rounded(a * b)) ELSE Overflow

-----------------------------------------------------------------------------
(* pid_f16_run, of which kd is 0: the new integral and the output. *)

Freeze_Never(unsat, iTerm, lim) == FALSE

\* The integral stops where the output is limited and it would go on.
Freeze(unsat, iTerm, lim) == \/ unsat > lim /\ iTerm > 0
                             \/ unsat < -lim /\ iTerm < 0

Limited(x, lim) == IF x > lim THEN lim ELSE IF x < -lim THEN -lim ELSE x

PTerm(e) == FixMul(kp, e)
ITerm(e) == FixMul(ki, FixMul(e, Ts))

NewIntegral(e, lim) ==
  LET tentative == FixAdd(integral, ITerm(e))
  IN  IF Freeze(Wrap(PTerm(e) + tentative), ITerm(e), lim) THEN integral ELSE tentative

NewOut(e, lim) == Limited(Wrap(PTerm(e) + NewIntegral(e, lim)), lim)

-----------------------------------------------------------------------------
(* temp_c_q16_from_raw *)

RawMax == (Len(Lut) - 1) * Spacing - 1    \* NTC_ADC_MAX_RAW

Temperature_Swapped(raw) ==
  LET r == IF raw >= RawMax THEN RawMax ELSE raw
      index == r \div Spacing
      fract == r % Spacing
  IN  (Lut[index + 1] * fract + Lut[index + 2] * (Spacing - fract)) \div Spacing
Temperature(raw) ==
  LET r == IF raw >= RawMax THEN RawMax ELSE raw
      index == r \div Spacing
      fract == r % Spacing
  IN  (Lut[index + 1] * (Spacing - fract) + Lut[index + 2] * fract) \div Spacing

-----------------------------------------------------------------------------
Init ==
  /\ buffer = [i \in 0..(N - 1) |-> -1] /\ written = 0
  /\ readFrame = 0 /\ pc = "idle" /\ writeFrame = 0 /\ frameCount = 0
  /\ slot = 0 /\ sums = [i \in 1..L |-> 0]
  /\ vMeas = 0 /\ fb = 0 /\ magRaw = 0 /\ tempRaw = 0
  /\ sp = 0 /\ kp = BootKp /\ ki = BootKi /\ on = FALSE
  /\ integral = 0 /\ out = 0 /\ opposed = FALSE /\ temp = 0
  /\ snap = 0 /\ base = 0 /\ overrun = FALSE /\ right = TRUE

\* A conversion ends, at any time, and the DMA stores it.
DmaWrites ==
  /\ written < MaxFrames * L
  /\ buffer' = [buffer EXCEPT ![written % N] = written]
  /\ written' = written + 1
  /\ overrun' = \/ overrun
                \/ /\ pc = "drain"
                   /\ written - N \in ((base + frameCount) * L + slot)..(snap * L - 1)
  /\ UNCHANGED <<drainVars, measureVars, inputVars, controlVars, temp, snap, base, right>>

\* What a sample says: the place of its frame in Reading, and its own in it.
Value(sample) ==
  IF sample < 0 THEN 0
  ELSE Reading[((sample \div L) % Len(Reading)) + 1][(sample % L) + 1]

Complete_Rounded(samples) == (samples + L - 1) \div L
Complete(samples) == samples \div L

\* The write position is read once.
DrainBegin ==
  /\ pc = "idle"
  /\ pc' = "drain"
  /\ writeFrame' = Complete(written % N) % FrameCount
  /\ frameCount' = 0 /\ slot' = 0 /\ sums' = [i \in 1..L |-> 0]
  /\ snap' = written \div L
  /\ base' = snap' - ((writeFrame' - readFrame) % FrameCount)
  /\ overrun' = FALSE /\ right' = TRUE
  /\ UNCHANGED <<dmaVars, readFrame, measureVars, inputVars, controlVars, temp>>

Budget_Half == FrameCount \div 2
Budget == FrameCount

More == readFrame # writeFrame /\ frameCount < Budget

NextFrame_Unwrapped(f) == f + 1
NextFrame(f) == (f + 1) % FrameCount

\* One sample of a frame; the DMA may write between any two.
DrainSample ==
  /\ pc = "drain"
  /\ slot > 0 \/ More
  /\ LET sample == buffer[readFrame * L + slot]
     IN  /\ sums' = [sums EXCEPT ![slot + 1] = @ + Value(sample)]
         /\ right' = (right /\ sample = (base + frameCount) * L + slot)
  /\ slot' = (slot + 1) % L
  /\ IF slot = L - 1
       THEN readFrame' = NextFrame(readFrame) /\ frameCount' = frameCount + 1
       ELSE UNCHANGED <<readFrame, frameCount>>
  /\ UNCHANGED <<dmaVars, pc, writeFrame, measureVars, inputVars, controlVars, temp,
                 snap, base, overrun>>

Averages ==
  IF frameCount = 0
    THEN UNCHANGED measureVars
    ELSE LET average(i) == sums[i] \div frameCount
         IN  /\ vMeas' = FixMul(average(1) * One, VGain)
             /\ fb' = FixMul((average(3) - average(2)) * One, IGain)
             /\ magRaw' = average(4)
             /\ tempRaw' = average(5)

Opposite == (kp < 0 /\ ki > 0) \/ (kp > 0 /\ ki < 0)

\* The rest of task_current_control.
Control ==
  /\ pc = "drain" /\ slot = 0 /\ ~More
  /\ pc' = "idle"
  /\ Averages
  /\ IF on THEN LET e == FixSub(sp, fb')
                IN  integral' = NewIntegral(e, vMeas') /\ out' = NewOut(e, vMeas')
           ELSE integral' = 0 /\ out' = 0
  /\ opposed' = (on /\ (opposed \/ Opposite))
  /\ UNCHANGED <<dmaVars, readFrame, writeFrame, frameCount, slot, sums, inputVars,
                 temp, accountVars>>

-----------------------------------------------------------------------------
(* The other tasks run between two runs of this one. *)

TaskSetpoint ==
  /\ pc = "idle"
  /\ temp' = Temperature(tempRaw)
  /\ UNCHANGED <<dmaVars, drainVars, measureVars, inputVars, controlVars, accountVars>>

HostSetpoint ==
  /\ pc = "idle"
  /\ sp' \in Setpoints
  /\ UNCHANGED <<dmaVars, drainVars, measureVars, kp, ki, on, controlVars, temp, accountVars>>

\* update_current_controller_parameters, which reads what the host wrote, is
\* part of Control and does nothing else: the write stands for both.
HostGains ==
  /\ pc = "idle"
  /\ \/ kp' \in Gains /\ UNCHANGED ki
     \/ ki' \in Gains /\ UNCHANGED kp
  /\ UNCHANGED <<dmaVars, drainVars, measureVars, sp, on, controlVars, temp, accountVars>>

FsmSwitches ==
  /\ pc = "idle"
  /\ on' = ~on
  /\ UNCHANGED <<dmaVars, drainVars, measureVars, sp, kp, ki, controlVars, temp, accountVars>>

Next == \/ DmaWrites \/ DrainBegin \/ DrainSample \/ Control
        \/ TaskSetpoint \/ HostSetpoint \/ HostGains \/ FsmSwitches

Spec == Init /\ [][Next]_vars

-----------------------------------------------------------------------------
(* Properties. *)

TypeOK ==
  /\ buffer \in [0..(N - 1) -> -1..(MaxFrames * L - 1)]
  /\ written \in 0..(MaxFrames * L)
  /\ readFrame \in 0..(FrameCount - 1) /\ writeFrame \in 0..(FrameCount - 1)
  /\ pc \in {"idle", "drain"} /\ frameCount \in 0..(FrameCount - 1) /\ slot \in 0..(L - 1)
  /\ sums \in [1..L -> Nat]
  /\ Fits(vMeas) /\ Fits(fb) /\ magRaw \in Nat /\ tempRaw \in Nat
  /\ sp \in Setpoints /\ Fits(kp) /\ Fits(ki) /\ on \in BOOLEAN
  /\ opposed \in BOOLEAN /\ Fits(integral) /\ Fits(out)
  /\ snap \in 0..MaxFrames /\ base \in 0..snap
  /\ overrun \in BOOLEAN /\ right \in BOOLEAN

\* Every sample that is averaged belongs to the place and to the frame it is
\* taken for, whole frames that follow one another, up to the last one that was
\* there; unless the DMA laps the drain while it reads.
WholeFrames == overrun \/ right

\* A drain goes on where the last one ended, however often the ring has turned,
\* unless the ring was full.
NoneSkipped ==
  [][pc = "idle" /\ pc' = "drain" /\ snap' - snap < FrameCount => base' = snap]_vars

\* The integral never exceeds what the supply allows, however long the output
\* is limited and however the host changes set point and gains in between,
\* unless the controller has run with gains of opposite signs since the integral
\* was last cleared: then it stops only where the other term gives way.
VMax == FixMul(Highest[1] * One, VGain)
NoWindup == opposed \/ (-VMax <= integral /\ integral <= VMax)

\* No sum and no product leaves the word for any setpoint, any current, any gain
\* and any integral within the supply: what NoWindup and Integrates rest on,
\* because what fix16_overflow stands for is a large negative number.
InRange ==
  \A s \in Setpoints : \A f \in (-(Highest[2] * IGain))..(Highest[3] * IGain) :
  \A p \in Gains \cup {BootKp} : \A i \in Gains \cup {BootKi} :
    LET e == s - f
        t == FixMul(e, Ts)
    IN  /\ Fits(e) /\ FitsTwice(p * e) /\ FitsTwice(e * Ts) /\ FitsTwice(i * t)
        /\ Fits(Rounded(p * e)) /\ Fits(Rounded(e * Ts)) /\ Fits(Rounded(i * t))
        /\ \A x \in (-VMax)..VMax :
             Fits(x + Rounded(i * t)) /\ Fits(Rounded(p * e) + x + Rounded(i * t))

\* An error that is not below the resolution of the period moves the integral
\* its own way, unless that would take the output out of its limits: for an
\* integral that gains of opposite signs have not wound.
Integrates ==
  [][(pc = "drain" /\ pc' = "idle" /\ on /\ ki >= One /\ ~opposed) =>
       LET e == FixSub(sp, fb')
       IN  /\ 2 * e * Ts >= One /\ PTerm(e) + integral + ITerm(e) <= vMeas'
                => integral' > integral
           /\ 2 * e * Ts <= -One /\ PTerm(e) + integral + ITerm(e) >= -vMeas'
                => integral' < integral]_vars

\* The temperature published is never above what a higher reading would give, nor
\* below what a lower one would, up to the next entry of the table on either side
\* and at both of its ends.
TemperatureRises ==
  [][temp' # temp =>
       /\ \A raw \in (tempRaw - Spacing)..(tempRaw - 1) :
            raw >= 0 => Temperature(raw) <= temp'
       /\ \A raw \in tempRaw..(tempRaw + Spacing) :
            raw <= RawMax + 1 => temp' <= Temperature(raw)]_temp
=============================================================================
