--------------------------- MODULE SchedulerProof ---------------------------
(***************************************************************************)
(* Theorems about Scheduler, for every number of tasks, frequency, cost    *)
(* and width of the tick counter.                                          *)
(***************************************************************************)
EXTENDS Scheduler, BasicFacts

-----------------------------------------------------------------------------
(* Arithmetic on the counter. *)

LEMMA WrapIs == Wrap \in Nat \ {0}
  BY TickAssumption

LEMMA WrapType == ASSUME NEW a \in Int PROVE a % Wrap \in 0..(Wrap - 1)
  BY WrapIs, DivMod

LEMMA WrapSmall == ASSUME NEW a \in 0..(Wrap - 1) PROVE a % Wrap = a
  BY WrapIs, ModSmall

LEMMA WrapLess == ASSUME NEW a \in Nat PROVE a % Wrap <= a
  BY WrapIs, ModLess

\* Numbers a whole number of wraps apart read the same on the counter.
LEMMA Congruent ==
  ASSUME NEW a \in Int, NEW b \in Int, NEW k \in Int, a = b + Wrap * k
  PROVE  a % Wrap = b % Wrap
  BY WrapIs, ModTurns

\* Every number is some wraps away from what the counter shows of it.
LEMMA Wraps == ASSUME NEW a \in Int PROVE \E k \in Int : a % Wrap = a + Wrap * k
<1> DEFINE q == a \div Wrap
<1>1. q \in Int /\ a = Wrap * q + (a % Wrap) /\ a % Wrap \in Int
  BY WrapIs, DivMod
<1> HIDE DEF q
<1>2. Wrap * (-q) = -(Wrap * q)
  BY <1>1, WrapIs
<1>3. a % Wrap = a + Wrap * (-q)
  BY <1>1, <1>2, WrapIs
<1> QED BY <1>1, <1>3

\* What the counter shows of a number.
Shown(a) == a % Wrap
\* The counter, or a last_tick, goes from a on by b and shows c.
Moves(a, b, c) == c = (a + b) % Wrap

\* The account goes on being right when both hands of the clock move.
LEMMA Account ==
  ASSUME NEW n \in Int, NEW l \in Int, NEW o \in Int, NEW d \in Int, NEW p \in Int,
         NEW n2 \in Int, NEW l2 \in Int, NEW o2 \in Int,
         Elapsed(n, l) = Shown(o),
         Moves(n, d, n2), Moves(l, p, l2), o2 = o + d - p
  PROVE  Elapsed(n2, l2) = Shown(o2)
<1> SUFFICES (n2 - l2) % Wrap = o2 % Wrap
  BY DEF Elapsed, Shown
<1>1. PICK i \in Int : n2 = n + d + Wrap * i
  BY Wraps, n + d \in Int DEF Moves
<1>2. PICK j \in Int : l2 = l + p + Wrap * j
  BY Wraps, l + p \in Int DEF Moves
<1>3. PICK e \in Int : (n - l) % Wrap = n - l + Wrap * e
  BY Wraps, n - l \in Int
<1>4. PICK f \in Int : o % Wrap = o + Wrap * f
  BY Wraps
<1>5. n - l = o + Wrap * (f - e)
  BY <1>3, <1>4, TickAssumption DEF Elapsed, Shown
<1>6. n2 - l2 = o2 + Wrap * (f - e + i - j)
  <2>1. Wrap * (f - e + i - j) = Wrap * (f - e) + Wrap * i - Wrap * j
    BY TickAssumption
  <2> DEFINE x == Wrap * (f - e)  y == Wrap * i  z == Wrap * j
  <2>2. x \in Int /\ y \in Int /\ z \in Int
    BY TickAssumption
  <2>3. Wrap * (f - e + i - j) = x + y - z /\ n - l = o + x
    BY <2>1, <1>5
  <2>4. n2 = n + d + y /\ l2 = l + p + z
    BY <1>1, <1>2
  <2> HIDE DEF x, y, z
  <2> QED BY <2>2, <2>3, <2>4
<1> QED BY <1>6, Congruent, n2 - l2 \in Int, f - e + i - j \in Int

\* The same for a task that does not run.
LEMMA Passing ==
  ASSUME NEW n \in Int, NEW l \in Int, NEW o \in Int, NEW d \in Int,
         NEW n2 \in Int, NEW o2 \in Int,
         Elapsed(n, l) = Shown(o), Moves(n, d, n2), o2 = o + d
  PROVE  Elapsed(n2, l) = Shown(o2)
<1> SUFFICES (n2 - l) % Wrap = o2 % Wrap
  BY DEF Elapsed, Shown
<1>1. PICK i \in Int : n2 = n + d + Wrap * i
  BY Wraps, n + d \in Int DEF Moves
<1>2. PICK e \in Int : (n - l) % Wrap = n - l + Wrap * e
  BY Wraps, n - l \in Int
<1>3. PICK f \in Int : o % Wrap = o + Wrap * f
  BY Wraps
<1>4. n - l = o + Wrap * (f - e)
  BY <1>2, <1>3, TickAssumption DEF Elapsed, Shown
<1>5. n2 - l = o2 + Wrap * (f - e + i)
  <2>1. Wrap * (f - e + i) = Wrap * (f - e) + Wrap * i
    BY TickAssumption
  <2> DEFINE x == Wrap * (f - e)  y == Wrap * i
  <2>2. x \in Int /\ y \in Int
    BY TickAssumption
  <2>3. Wrap * (f - e + i) = x + y /\ n - l = o + x /\ n2 = n + d + y
    BY <1>1, <1>4, <2>1
  <2> HIDE DEF x, y
  <2> QED BY <2>2, <2>3
<1> QED BY <1>5, Congruent, n2 - l \in Int, f - e + i \in Int

-----------------------------------------------------------------------------
(* Types. *)

LEMMA Percent == ASSUME NEW m \in Nat, m > 0, NEW x \in 0..m
                 PROVE  (x * 100) \div m \in 0..100
<1> DEFINE q == (x * 100) \div m
<1>1. q \in Int /\ m * q <= x * 100 /\ x * 100 < m * q + m
  OBVIOUS
<1> HIDE DEF q
<1>2. ~ (q >= 101)
  <2> SUFFICES ASSUME q >= 101 PROVE FALSE
    OBVIOUS
  <2>1. m * q >= m * 101
    BY <1>1
  <2> QED BY <1>1, <2>1
<1>3. ~ (q + 1 <= 0)
  <2> SUFFICES ASSUME q + 1 <= 0 PROVE FALSE
    OBVIOUS
  <2>1. m * (q + 1) <= 0
    BY <1>1
  <2>2. m * (q + 1) = m * q + m
    BY <1>1
  <2> QED BY <1>1, <2>1, <2>2
<1> QED BY <1>1, <1>2, <1>3 DEF q

LEMMA PeriodOfType == ASSUME NEW freq \in Nat \ {0} PROVE PeriodOf(freq) \in Nat \ {0}
<1>1. TicksPerSec \div freq \in Nat
  BY TickAssumption
<1> QED BY <1>1 DEF PeriodOf

LEMMA ElapsedType == ASSUME NEW b \in Int, NEW a \in Int
                     PROVE  Elapsed(b, a) \in 0..(Wrap - 1)
  BY WrapType, b - a \in Int DEF Elapsed

LEMMA OwingType ==
  ASSUME NEW before \in Int, NEW ticks \in Nat, NEW less \in Nat
  PROVE  /\ Owing(before, ticks, less) \in Int
         /\ Owing(before, ticks, less) <= MaxOwed
         /\ Owing(before, ticks, less) # MaxOwed =>
              /\ before # MaxOwed
              /\ Owing(before, ticks, less) = before + ticks - less
  BY TickAssumption DEF Owing

LEMMA OwingMost ==
  ASSUME NEW before \in Int, before # MaxOwed, NEW ticks \in Nat, NEW less \in Nat
  PROVE  Owing(before, ticks, less) <= before + ticks - less
  BY TickAssumption DEF Owing

LEMMA ExecType == ASSUME NEW ticks \in Nat PROVE ExecUs(ticks) \in Nat
<1>1. ticks * Micros \in Int
  BY TickAssumption
<1>2. (ticks * Micros) % Wrap \in Nat
  BY <1>1, WrapType, TickAssumption
<1> QED BY <1>2, TickAssumption DEF ExecUs

LEMMA InitType == Init => TypeOK
<1> SUFFICES ASSUME Init PROVE TypeOK
  OBVIOUS
<1>1. last \in [Task -> 0..(Wrap - 1)] /\ now \in 0..(Wrap - 1)
  BY TaskAssumption, TickAssumption DEF Init
<1>2. period \in [Task -> Nat \ {0}]
  BY PeriodOfType, TaskAssumption DEF Init
<1>3. owed \in [Task -> Int] /\ \A t \in Task : owed[t] <= MaxOwed
  <2>1. \A t \in Task : last[t] \in 0..AddTicks
    BY DEF Init
  <2>2. \A t \in Task : AddTicks - last[t] \in 0..AddTicks
    BY <2>1, TaskAssumption
  <2>3. AddTicks <= MaxOwed
    BY TaskAssumption, TickAssumption
  <2> QED BY <2>2, <2>3, TaskAssumption, TickAssumption DEF Init
<1>4. ran \in 0..NTask
  BY TaskAssumption DEF Init
<1> QED BY <1>1, <1>2, <1>3, <1>4, TaskAssumption, TickAssumption DEF Init, TypeOK

\* The end of a turn keeps the types of the window.
LEMMA WindowType ==
  ASSUME TypeOK, NEW idle \in 0..(totalLoops + 1), CloseTurn(idle)
  PROVE  /\ windowStart' \in 0..(Wrap - 1)
         /\ totalLoops' \in Nat /\ idleLoops' \in 0..totalLoops'
         /\ cpuPct' \in 0..100
<1>1. /\ totalLoops + 1 \in Nat /\ totalLoops + 1 > 0
      /\ totalLoops + 1 - idle \in 0..(totalLoops + 1)
  BY DEF TypeOK
<1>2. ((totalLoops + 1 - idle) * 100) \div (totalLoops + 1) \in 0..100
  BY <1>1, Percent
<1>3. CASE Elapsed(now, windowStart) >= TicksPerSec
  <2>1. totalLoops' = 0 /\ idleLoops' = 0 /\ windowStart' = now
    BY <1>3 DEF CloseTurn
  <2>2. cpuPct' \in 0..100
    BY <1>2, <1>3 DEF CloseTurn
  <2> QED BY <2>1, <2>2 DEF TypeOK
<1>4. CASE ~ (Elapsed(now, windowStart) >= TicksPerSec)
  <2>1. totalLoops' = totalLoops + 1 /\ idleLoops' = idle
        /\ windowStart' = windowStart /\ cpuPct' = cpuPct
    BY <1>4 DEF CloseTurn
  <2> QED BY <2>1 DEF TypeOK
<1> QED BY <1>3, <1>4

\* What a task calls keeps the types, and its own period where tasks may
\* not call for themselves.
LEMMA CallsType ==
  ASSUME TypeOK, NEW by \in Task, Calls(by)
  PROVE  /\ period' \in [Task -> Nat \ {0}]
         /\ enabled' \in [Task -> BOOLEAN]
         /\ callsLeft' \in 0..MaxCalls
         /\ ~OwnCalls \/ callsLeft = 0 => period'[by] = period[by]
<1>1. CASE UNCHANGED <<period, enabled, callsLeft>>
  BY <1>1 DEF TypeOK
<1>2. CASE /\ callsLeft > 0
           /\ callsLeft' = callsLeft - 1
           /\ \E t \in Task : /\ t # by \/ OwnCalls
                              /\ \/ \E freq \in NewFreqs : SetTaskFrequency(t, freq)
                                 \/ StopTask(t)
                                 \/ StartTask(t)
  <2>1. callsLeft' \in 0..MaxCalls
    BY <1>2, TaskAssumption DEF TypeOK
  <2>2. PICK t \in Task : /\ t # by \/ OwnCalls
                          /\ \/ \E freq \in NewFreqs : SetTaskFrequency(t, freq)
                             \/ StopTask(t)
                             \/ StartTask(t)
    BY <1>2
  <2>3. CASE \E freq \in NewFreqs : SetTaskFrequency(t, freq)
    <3>1. PICK freq \in NewFreqs : SetTaskFrequency(t, freq)
      BY <2>3
    <3>2. PeriodOf(freq) \in Nat \ {0}
      BY PeriodOfType, TaskAssumption
    <3>3. ~OwnCalls \/ callsLeft = 0 => t # by
      <4>1. callsLeft # 0
        BY <1>2 DEF TypeOK
      <4> QED BY <2>2, <4>1
    <3>4. t # by => period'[by] = period[by]
      BY <3>1 DEF SetTaskFrequency, TypeOK
    <3>5. period' \in [Task -> Nat \ {0}] /\ enabled' \in [Task -> BOOLEAN]
      BY <3>1, <3>2 DEF SetTaskFrequency, TypeOK
    <3> QED BY <2>1, <3>3, <3>4, <3>5
  <2>4. CASE StopTask(t) \/ StartTask(t)
    BY <2>1, <2>4 DEF StopTask, StartTask, TypeOK
  <2> QED BY <2>2, <2>3, <2>4
<1> QED BY <1>1, <1>2 DEF Calls

LEMMA StepType == TypeOK /\ [Turn]_vars => TypeOK'
<1> SUFFICES ASSUME TypeOK, [Turn]_vars PROVE TypeOK'
  OBVIOUS
<1>1. CASE IdleTurn
  <2>1. PICK d \in 1..IdleCost :
          /\ now' = (now + d) % Wrap
          /\ owed' = [u \in Task |-> IF ~enabled[u] THEN 0 ELSE Owing(owed[u], d, 0)]
          /\ ran' = 0
    BY <1>1 DEF IdleTurn
  <2>2. CloseTurn(idleLoops + 1) /\ UNCHANGED <<period, last, enabled, execUs, callsLeft>>
    BY <1>1 DEF IdleTurn
  <2>3. now' \in 0..(Wrap - 1)
    BY <2>1, WrapType, now + d \in Int, TaskAssumption, TickAssumption DEF TypeOK
  <2>4. idleLoops + 1 \in 0..(totalLoops + 1)
    BY DEF TypeOK
  <2>5. owed' \in [Task -> Int] /\ \A u \in Task : owed'[u] <= MaxOwed
    <3> SUFFICES ASSUME NEW u \in Task PROVE owed'[u] \in Int /\ owed'[u] <= MaxOwed
      BY <2>1
    <3>1. owed[u] \in Int /\ d \in Nat /\ 0 \in Nat
      BY TaskAssumption DEF TypeOK
    <3>2. Owing(owed[u], d, 0) \in Int /\ Owing(owed[u], d, 0) <= MaxOwed
      BY <3>1, OwingType
    <3>3. owed'[u] = IF ~enabled[u] THEN 0 ELSE Owing(owed[u], d, 0)
      BY <2>1
    <3> QED BY <3>2, <3>3, TickAssumption
  <2>6. ran' \in 0..NTask
    BY <2>1, TaskAssumption
  <2>7. /\ windowStart' \in 0..(Wrap - 1)
        /\ totalLoops' \in Nat /\ idleLoops' \in 0..totalLoops'
        /\ cpuPct' \in 0..100
    BY <2>2, <2>4, WindowType
  <2> QED BY <2>2, <2>3, <2>5, <2>6, <2>7 DEF TypeOK
<1>2. ASSUME NEW t \in Task, RunTask(t) PROVE TypeOK'
  <2>1. PICK d \in 1..Cost[t] :
          /\ now' = (now + d) % Wrap
          /\ execUs' = [execUs EXCEPT ![t] = ExecUs(d)]
          /\ owed' = [u \in Task |->
               IF ~enabled'[u] THEN 0
               ELSE IF ~enabled[u] THEN Elapsed(now', last[u])
               ELSE Owing(owed[u], d, IF u = t THEN period'[t] ELSE 0)]
          /\ ran' = t
    BY <1>2 DEF RunTask
  <2>2. /\ Calls(t)
        /\ last' = [last EXCEPT ![t] = (last[t] + period'[t]) % Wrap]
        /\ CloseTurn(idleLoops)
    BY <1>2 DEF RunTask, NextLast
  <2>3. d \in Nat
    BY TaskAssumption
  <2>4. now' \in 0..(Wrap - 1)
    BY <2>1, <2>3, WrapType, now + d \in Int, TickAssumption DEF TypeOK
  <2>5. /\ period' \in [Task -> Nat \ {0}]
        /\ enabled' \in [Task -> BOOLEAN]
        /\ callsLeft' \in 0..MaxCalls
    BY <2>2, CallsType
  <2>6. last' \in [Task -> 0..(Wrap - 1)]
    <3>1. (last[t] + period'[t]) % Wrap \in 0..(Wrap - 1)
      BY <2>5, WrapType, last[t] + period'[t] \in Int, TickAssumption DEF TypeOK
    <3> QED BY <2>2, <3>1 DEF TypeOK
  <2>7. execUs' \in [Task -> Nat]
    <3>1. ExecUs(d) \in Nat
      BY <2>3, ExecType
    <3> QED BY <2>1, <3>1 DEF TypeOK
  <2>8. owed' \in [Task -> Int] /\ \A u \in Task : owed'[u] <= MaxOwed
    <3> SUFFICES ASSUME NEW u \in Task PROVE owed'[u] \in Int /\ owed'[u] <= MaxOwed
      BY <2>1
    <3> DEFINE less == IF u = t THEN period'[t] ELSE 0
    <3>1. less \in Nat
      BY <2>5
    <3>2. owed[u] \in Int /\ last[u] \in Int /\ now' \in Int
      BY <2>4, TickAssumption DEF TypeOK
    <3>3. Elapsed(now', last[u]) \in 0..(Wrap - 1)
      BY <3>2, ElapsedType
    <3>4. Owing(owed[u], d, less) \in Int /\ Owing(owed[u], d, less) <= MaxOwed
      BY <2>3, <3>1, <3>2, OwingType
    <3>5. owed'[u] = IF ~enabled'[u] THEN 0
                     ELSE IF ~enabled[u] THEN Elapsed(now', last[u])
                     ELSE Owing(owed[u], d, less)
      BY <2>1
    <3> HIDE DEF less
    <3> QED BY <3>3, <3>4, <3>5, TickAssumption
  <2>9. ran' \in 0..NTask
    BY <2>1, <2>3, TaskAssumption DEF Task
  <2>10. /\ windowStart' \in 0..(Wrap - 1)
         /\ totalLoops' \in Nat /\ idleLoops' \in 0..totalLoops'
         /\ cpuPct' \in 0..100
    BY <2>2, WindowType, idleLoops \in 0..(totalLoops + 1) DEF TypeOK
  <2> QED BY <2>4, <2>5, <2>6, <2>7, <2>8, <2>9, <2>10 DEF TypeOK
<1>3. CASE UNCHANGED vars
  BY <1>3 DEF vars, windowVars, TypeOK
<1> QED BY <1>1, <1>2, <1>3 DEF Turn

\* The counter and every last_tick stay numbers of 32 bits, the share of
\* busy turns a percentage, whatever the tasks call.
THEOREM TypeCorrect == Spec => []TypeOK
<1>1. Init => TypeOK
  BY InitType
<1>2. TypeOK /\ [Turn]_vars => TypeOK'
  BY StepType
<1> QED BY <1>1, <1>2, PTL DEF Spec

-----------------------------------------------------------------------------
(* What the tick counter says is what really went by. *)

LEMMA InitNeverAhead == Init => NeverAhead
<1> SUFFICES ASSUME Init, NEW t \in Task
             PROVE  owed[t] >= 0 /\ Elapsed(now, last[t]) = owed[t] % Wrap
  BY DEF NeverAhead
<1>1. last[t] \in 0..AddTicks /\ now = AddTicks /\ owed[t] = AddTicks - last[t]
  BY DEF Init
<1> QED BY <1>1, TaskAssumption DEF Elapsed

\* A task is due when its period has really gone by.
LEMMA DueOwes ==
  ASSUME TypeOK, NeverAhead, NEW t \in Task, Due(t), owed[t] # MaxOwed
  PROVE  owed[t] >= period[t]
<1>1. owed[t] \in Nat /\ Elapsed(now, last[t]) = owed[t] % Wrap
  BY DEF TypeOK, NeverAhead, Due
<1>2. owed[t] % Wrap <= owed[t] /\ owed[t] % Wrap \in Int
  BY <1>1, WrapLess, WrapType, TickAssumption
<1>3. Elapsed(now, last[t]) >= period[t] /\ period[t] \in Int
  BY DEF Due, TypeOK
<1> QED BY <1>1, <1>2, <1>3

LEMMA StepNeverAhead ==
  (~OwnCalls \/ callsLeft = 0) /\ TypeOK /\ NeverAhead /\ [Turn]_vars => NeverAhead'
<1> SUFFICES ASSUME ~OwnCalls \/ callsLeft = 0, TypeOK, NeverAhead, [Turn]_vars PROVE NeverAhead'
  OBVIOUS
<1>1. CASE IdleTurn
  <2> SUFFICES ASSUME NEW u \in Task, enabled'[u], owed'[u] # MaxOwed
               PROVE  owed'[u] >= 0 /\ Elapsed(now', last'[u]) = owed'[u] % Wrap
    BY DEF NeverAhead
  <2>1. PICK d \in Nat :
          /\ now' = (now + d) % Wrap
          /\ owed' = [v \in Task |-> IF ~enabled[v] THEN 0 ELSE Owing(owed[v], d, 0)]
    BY <1>1, TaskAssumption DEF IdleTurn
  <2>2. enabled[u] /\ last'[u] = last[u]
    BY <1>1 DEF IdleTurn
  <2>3. d \in Nat /\ owed[u] \in Int /\ now \in Int /\ last[u] \in 0..(Wrap - 1) /\ 0 \in Nat
    BY TaskAssumption, TickAssumption DEF TypeOK
  <2>4. owed[u] # MaxOwed /\ owed'[u] = owed[u] + d - 0
    BY <2>1, <2>2, <2>3, OwingType
  <2>5. owed[u] >= 0 /\ Elapsed(now, last[u]) = Shown(owed[u])
    BY <2>2, <2>4 DEF NeverAhead, Shown
  <2>6. Moves(now, d, now') /\ now' \in Int /\ owed'[u] \in Int /\ d \in Int
    BY <2>1, <2>3, <2>4, WrapType, now + d \in Int, TickAssumption DEF Moves
  <2>7. Elapsed(now', last'[u]) = Shown(owed'[u])
    BY <2>2, <2>3, <2>4, <2>5, <2>6, last[u] \in Int, owed'[u] = owed[u] + d, Passing
  <2> QED BY <2>3, <2>4, <2>5, <2>7 DEF Shown
<1>2. ASSUME NEW t \in Task, RunTask(t) PROVE NeverAhead'
  <2> SUFFICES ASSUME NEW u \in Task, enabled'[u], owed'[u] # MaxOwed
               PROVE  owed'[u] >= 0 /\ Elapsed(now', last'[u]) = owed'[u] % Wrap
    BY DEF NeverAhead
  <2>1. PICK d \in Nat :
          /\ now' = (now + d) % Wrap
          /\ owed' = [v \in Task |->
               IF ~enabled'[v] THEN 0
               ELSE IF ~enabled[v] THEN Elapsed(now', last[v])
               ELSE Owing(owed[v], d, IF v = t THEN period'[t] ELSE 0)]
    BY <1>2, TaskAssumption DEF RunTask
  <2>2. /\ Picked(t) /\ Calls(t)
        /\ last' = [last EXCEPT ![t] = (last[t] + period'[t]) % Wrap]
    BY <1>2 DEF RunTask, NextLast
  <2>3. period'[t] = period[t] /\ period[t] \in Nat
    BY <2>2, CallsType DEF TypeOK
  <2>4. d \in Nat /\ owed[u] \in Int /\ now \in Int /\ now + d \in Int
        /\ last[u] \in 0..(Wrap - 1) /\ last[u] \in Int
    BY TaskAssumption, TickAssumption DEF TypeOK
  <2>5. now' \in 0..(Wrap - 1)
    BY <2>1, <2>4, WrapType
  <2>6. CASE ~enabled[u]
    <3>1. u # t
      BY <2>2, <2>6 DEF Picked, Due
    <3>2. last'[u] = last[u] /\ owed'[u] = Elapsed(now', last[u])
      BY <2>1, <2>2, <2>6, <3>1 DEF TypeOK
    <3>3. Elapsed(now', last[u]) \in 0..(Wrap - 1)
      BY <2>4, <2>5, ElapsedType, now' \in Int, TickAssumption
    <3> QED BY <3>2, <3>3, WrapSmall, TickAssumption
  <2>7. CASE enabled[u]
    <3> DEFINE p == IF u = t THEN period'[t] ELSE 0
    <3>1. p \in Nat
      BY <2>3
    <3>2. owed'[u] = Owing(owed[u], d, p)
      BY <2>1, <2>7
    <3>3. last'[u] = (last[u] + p) % Wrap
      <4>1. CASE u = t
        BY <2>2, <4>1 DEF TypeOK
      <4>2. CASE u # t
        BY <2>2, <2>4, <4>2, WrapSmall DEF TypeOK
      <4> QED BY <4>1, <4>2
    <3>4. u = t /\ owed[u] # MaxOwed => owed[u] >= p
      BY <2>2, <2>3, DueOwes DEF Picked
    <3>5. u # t => p = 0
      OBVIOUS
    <3> HIDE DEF p
    <3>6. owed[u] # MaxOwed /\ owed'[u] = owed[u] + d - p
      BY <2>4, <3>1, <3>2, OwingType
    <3>7. owed[u] >= 0 /\ Elapsed(now, last[u]) = Shown(owed[u])
      BY <2>7, <3>6 DEF NeverAhead, Shown
    <3>8. Moves(now, d, now') /\ Moves(last[u], p, last'[u])
      BY <2>1, <3>3 DEF Moves
    <3>9. Elapsed(now', last'[u]) = owed'[u] % Wrap
      <4>1. (last[u] + p) % Wrap \in 0..(Wrap - 1)
        BY <2>4, <3>1, WrapType, last[u] + p \in Int
      <4>2. /\ now \in Int /\ last[u] \in Int /\ owed[u] \in Int /\ d \in Int /\ p \in Int
            /\ now' \in Int /\ last'[u] \in Int /\ owed'[u] \in Int
        BY <2>4, <2>5, <3>1, <3>3, <3>6, <4>1, TickAssumption
      <4>3. Elapsed(now', last'[u]) = Shown(owed'[u])
        BY <3>6, <3>7, <3>8, <4>2, Account
      <4> QED BY <4>3 DEF Shown
    <3>10. owed'[u] >= 0
      BY <2>4, <3>1, <3>4, <3>5, <3>6, <3>7
    <3> QED BY <3>9, <3>10
  <2> QED BY <2>6, <2>7
<1>3. CASE UNCHANGED vars
  BY <1>3 DEF vars, windowVars, NeverAhead, Elapsed
<1> QED BY <1>1, <1>2, <1>3 DEF Turn

\* Across every wrap of the counter, and whatever the tasks call for one
\* another, last_tick of a task stands for the runs it has had.
THEOREM NeverAheadCorrect == ASSUME ~OwnCalls PROVE Spec => []NeverAhead
<1>1. Init => TypeOK /\ NeverAhead
  BY InitType, InitNeverAhead
<1>2. TypeOK /\ NeverAhead /\ [Turn]_vars => (TypeOK /\ NeverAhead)'
  BY StepType, StepNeverAhead
<1> QED BY <1>1, <1>2, PTL DEF Spec

-----------------------------------------------------------------------------
(* How long the most urgent task waits.                                     *)

\* No task takes longer than its period, the tasks are added within one, and
\* the counter does not wrap within a period and a turn.
Margins ==
  \A t \in Task : /\ Cost[t] <= PeriodOf(Freq[t])
                  /\ AddTicks <= PeriodOf(Freq[t])
                  /\ PeriodOf(Freq[t]) + IdleCost <= Wrap
                  /\ \A u \in Task : PeriodOf(Freq[t]) + Cost[u] <= Wrap

\* Until somebody calls, frequencies stay those of scheduler_init_tasks.
Fixed ==
  Undisturbed => /\ period = [t \in Task |-> PeriodOf(Freq[t])]
                 /\ enabled = [t \in Task |-> TRUE]

LEMMA FixedStep ==
  TypeOK /\ Fixed /\ [Turn]_vars =>
    /\ Fixed'
    /\ Undisturbed' => Undisturbed /\ period' = period /\ enabled' = enabled
<1> SUFFICES ASSUME TypeOK, Fixed, [Turn]_vars
             PROVE  Undisturbed' => /\ Undisturbed
                                    /\ period' = period /\ enabled' = enabled
  BY DEF Fixed
<1>1. CASE IdleTurn
  BY <1>1 DEF IdleTurn, Undisturbed
<1>2. ASSUME NEW t \in Task, RunTask(t), Undisturbed'
      PROVE  Undisturbed /\ period' = period /\ enabled' = enabled
  <2>1. Calls(t)
    BY <1>2 DEF RunTask
  <2>2. callsLeft \in Int /\ callsLeft <= MaxCalls /\ MaxCalls \in Int
    BY TaskAssumption DEF TypeOK
  <2>3. callsLeft' # callsLeft - 1
    BY <1>2, <2>2 DEF Undisturbed
  <2> QED BY <1>2, <2>1, <2>3 DEF Calls, Undisturbed
<1>3. CASE UNCHANGED vars
  BY <1>3 DEF vars, Undisturbed
<1> QED BY <1>1, <1>2, <1>3 DEF Turn

\* A task that is not due owes less than its period, if it has not fallen a
\* wrap of the counter behind.
LEMMA NotDue ==
  ASSUME TypeOK, NeverAhead, NEW t \in Task, enabled[t], ~Due(t), owed[t] < Wrap
  PROVE  owed[t] < period[t]
<1>1. owed[t] # MaxOwed /\ owed[t] \in Int
  BY TickAssumption DEF TypeOK
<1>2. owed[t] >= 0 /\ Elapsed(now, last[t]) = owed[t] % Wrap
  BY <1>1 DEF NeverAhead
<1>3. owed[t] % Wrap = owed[t]
  BY <1>1, <1>2, WrapSmall, TickAssumption
<1> QED BY <1>1, <1>2, <1>3 DEF Due, TypeOK

LEMMA InitTopLatency == Margins /\ Init => TopLatency
<1> SUFFICES ASSUME Margins, Init, NEW t \in Task PROVE owed[t] < period[t] + IdleCost
  BY DEF TopLatency
<1>1. last[t] \in 0..AddTicks /\ owed[t] = AddTicks - last[t]
  BY DEF Init
<1>2. period[t] = PeriodOf(Freq[t]) /\ period[t] \in Int
  BY PeriodOfType, TaskAssumption DEF Init
<1>3. AddTicks <= period[t]
  BY <1>2 DEF Margins
<1> QED BY <1>1, <1>2, <1>3, TaskAssumption

\* One step for each turn: its own, one of another task, and an idle one.
LEMMA StepTopLatency ==
  Margins /\ Fixed /\ TypeOK /\ NeverAhead /\ TopLatency /\ [Turn]_vars => TopLatency'
<1> SUFFICES ASSUME Margins, Fixed, TypeOK, NeverAhead, TopLatency, [Turn]_vars
             PROVE  TopLatency'
  OBVIOUS
<1> SUFFICES ASSUME Undisturbed' PROVE TopLatency'
  BY DEF TopLatency
<1>1. Undisturbed /\ period' = period /\ enabled' = enabled
  BY FixedStep
<1> SUFFICES ASSUME NEW t \in Task, Urgent(t)
             PROVE  \E c \in {IdleCost} \cup {Cost[u] : u \in Task \ {t}} : owed'[t] < period[t] + c
  BY <1>1 DEF TopLatency, Urgent
<1>2. PICK c \in {IdleCost} \cup {Cost[u] : u \in Task \ {t}} : owed[t] < period[t] + c
  BY <1>1 DEF TopLatency
<1>3. /\ period[t] \in Nat /\ owed[t] \in Int /\ c \in Nat /\ Wrap \in Nat
      /\ \A u \in Task : Cost[u] \in Nat
  BY TaskAssumption, TickAssumption DEF TypeOK
<1>4. /\ Cost[t] <= period[t] /\ period[t] + c <= Wrap
      /\ enabled[t]
  BY <1>1, <1>2 DEF Margins, Fixed
<1>5. owed[t] < Wrap
  BY <1>2, <1>3, <1>4
<1>6. owed[t] # MaxOwed
  BY <1>3, <1>5, TickAssumption
<1>7. CASE IdleTurn
  <2>1. PICK d \in Nat : d <= IdleCost /\ owed'[t] = Owing(owed[t], d, 0)
    BY <1>4, <1>7, TaskAssumption DEF IdleTurn
  <2>2. owed[t] < period[t]
    BY <1>4, <1>5, <1>7, NotDue DEF IdleTurn
  <2>3. Owing(owed[t], d, 0) <= owed[t] + d
    BY <1>3, <1>6, TickAssumption DEF Owing
  <2>4. owed'[t] \in Int
    <3>1. Owing(owed[t], d, 0) \in Int
      BY <1>3, OwingType, 0 \in Nat
    <3> QED BY <2>1, <3>1
  <2>5. owed'[t] < period[t] + IdleCost
    BY <1>3, <2>1, <2>2, <2>3, <2>4, TaskAssumption
  <2> QED BY <2>5
<1>8. ASSUME NEW v \in Task, RunTask(v)
      PROVE  \E e \in {IdleCost} \cup {Cost[u] : u \in Task \ {t}} : owed'[t] < period[t] + e
  <2>1. PICK d \in Nat :
          /\ d <= Cost[v]
          /\ owed'[t] = Owing(owed[t], d, IF t = v THEN period[t] ELSE 0)
    BY <1>1, <1>3, <1>4, <1>8 DEF RunTask
  <2>2. Picked(v)
    BY <1>8 DEF RunTask
  <2>3. d \in Nat /\ d <= Cost[v]
    BY <2>1
  <2>4. CASE v = t
    <3>1. owed'[t] = Owing(owed[t], d, period[t])
      BY <2>1, <2>4
    <3>2. Owing(owed[t], d, period[t]) <= owed[t] + d - period[t]
      BY <1>3, <1>6, <2>3, TickAssumption DEF Owing
    <3>3. owed'[t] \in Int
      <4>1. Owing(owed[t], d, period[t]) \in Int
        BY ONLY <1>3, <2>3, OwingType
      <4> QED BY <3>1, <4>1
    <3>4. d <= period[t]
      BY <1>3, <1>4, <2>3, <2>4
    <3>5. owed'[t] < period[t] + c
      BY <1>2, <1>3, <2>3, <3>1, <3>2, <3>3, <3>4
    <3> QED BY <3>5
  <2>5. CASE v # t
    <3>1. ~Due(t)
      <4>1. t \in Int /\ v \in Int /\ period[t] \in Int /\ period[v] \in Int
        BY TaskAssumption DEF Task, TypeOK
      <4>2. \/ period[t] < period[v]
            \/ period[t] = period[v] /\ t < v
        BY <2>5 DEF Urgent
      <4>3. Due(t) => \/ period[v] < period[t]
                      \/ period[v] = period[t] /\ v < t
        BY <2>2, <2>5 DEF Picked
      <4> QED BY <4>1, <4>2, <4>3
    <3>2. owed[t] < period[t]
      BY <1>4, <1>5, <3>1, NotDue
    <3>3. owed'[t] = Owing(owed[t], d, 0)
      BY <2>1, <2>5
    <3>4. Owing(owed[t], d, 0) <= owed[t] + d
      BY <1>3, <1>6, <2>3, TickAssumption DEF Owing
    <3>5. owed'[t] \in Int
      <4>1. Owing(owed[t], d, 0) \in Int
        BY <1>3, <2>3, OwingType, 0 \in Nat
      <4> QED BY <3>3, <4>1
    <3>6. owed'[t] < period[t] + Cost[v]
      BY <1>3, <2>3, <3>2, <3>3, <3>4, <3>5
    <3> QED BY <2>5, <3>6
  <2> QED BY <2>4, <2>5
<1>9. CASE UNCHANGED vars
  BY <1>2, <1>9 DEF vars
<1> QED BY <1>7, <1>8, <1>9 DEF Turn

\* With the margins, the most urgent task waits for one turn and what it
\* owes does not pile up: no overrun of its own adds to a later one.
THEOREM TopLatencyCorrect ==
  ASSUME ~OwnCalls, Margins
  PROVE  Spec => []TopLatency
<1> DEFINE Inv == TypeOK /\ NeverAhead /\ Fixed /\ TopLatency
<1>1. Init => Inv
  <2>1. Init => Fixed
    BY DEF Init, Fixed
  <2> QED BY <2>1, InitType, InitNeverAhead, InitTopLatency
<1>2. Inv /\ [Turn]_vars => Inv'
  BY StepType, StepNeverAhead, FixedStep, StepTopLatency
<1>3. Inv => TopLatency
  OBVIOUS
<1> QED BY <1>1, <1>2, <1>3, PTL DEF Spec

-----------------------------------------------------------------------------
(* Sums over all tasks. *)

\* s[n] is what the first n values of f add up to.
Adds(s, f, n) == /\ s \in [0..n -> Int] /\ s[0] = 0
                 /\ \A i \in 1..n : s[i] = s[i - 1] + f[i]

LEMMA AddsUp == ASSUME NEW f \in [Task -> Int], NEW n \in 0..NTask PROVE \E s : Adds(s, f, n)
<1> DEFINE Can == {m \in 0..NTask : \E s : Adds(s, f, m)}
<1>1. NTask \in Nat
  BY TaskAssumption
<1>2. 0 \in Can
  <2>1. Adds([i \in 0..0 |-> 0], f, 0)
    BY DEF Adds
  <2> QED BY <2>1, <1>1
<1>3. ASSUME NEW m \in 0..NTask, m \in Can, m < NTask PROVE m + 1 \in Can
  <2>1. PICK s : Adds(s, f, m)
    BY <1>3
  <2> DEFINE r == [i \in 0..(m + 1) |-> IF i <= m THEN s[i] ELSE s[m] + f[m + 1]]
  <2>2. /\ s \in [0..m -> Int] /\ s[0] = 0 /\ \A i \in 1..m : s[i] = s[i - 1] + f[i]
        /\ m \in Nat /\ m + 1 \in Task /\ f[m + 1] \in Int
    BY <1>1, <1>3, <2>1 DEF Adds, Task
  <2>3. r \in [0..(m + 1) -> Int] /\ r[0] = 0 /\ r[m + 1] = s[m] + f[m + 1]
        /\ \A i \in 0..m : r[i] = s[i]
    BY <2>2
  <2> HIDE DEF r
  <2>4. ASSUME NEW i \in 1..(m + 1) PROVE r[i] = r[i - 1] + f[i]
    <3>1. i - 1 \in 0..m /\ (i \in 1..m \/ i = m + 1)
      BY <2>2
    <3>2. CASE i \in 1..m
      BY <3>1, <3>2, <2>2, <2>3
    <3>3. CASE i = m + 1
      BY <3>1, <3>3, <2>2, <2>3
    <3> QED BY <3>1, <3>2, <3>3
  <2>5. Adds(r, f, m + 1)
    BY <2>3, <2>4 DEF Adds
  <2> QED BY <2>5, <1>1, <1>3
<1> HIDE DEF Can
<1>4. 0..NTask \subseteq Can
  BY <1>1, <1>2, <1>3, Climb
<1> QED BY <1>4 DEF Can

LEMMA SumIs ==
  ASSUME NEW f \in [Task -> Int]
  PROVE  \E s : Adds(s, f, NTask) /\ Sum(f) = s[NTask]
<1> DEFINE Rule(g) == g = [n \in 0..NTask |-> IF n = 0 THEN 0 ELSE g[n - 1] + f[n]]
           g == CHOOSE h : Rule(h)
<1>1. NTask \in Nat /\ NTask \in 0..NTask
  BY TaskAssumption
<1>2. Sum(f) = g[NTask]
  BY DEF Sum
<1>3. PICK s : Adds(s, f, NTask)
  BY <1>1, AddsUp
<1>4. Rule(s)
  <2> DEFINE r == [n \in 0..NTask |-> IF n = 0 THEN 0 ELSE s[n - 1] + f[n]]
  <2>1. s \in [0..NTask -> Int] /\ s[0] = 0 /\ \A i \in 1..NTask : s[i] = s[i - 1] + f[i]
    BY <1>3 DEF Adds
  <2>2. ASSUME NEW n \in 0..NTask PROVE s[n] = r[n]
    BY <2>1, n = 0 \/ n \in 1..NTask
  <2>3. s = [n \in 0..NTask |-> s[n]]
    BY <2>1
  <2> QED BY <2>2, <2>3
<1>5. Rule(g)
  BY <1>4
<1> HIDE DEF g
<1>6. g[0] = 0 /\ \A i \in 1..NTask : g[i] = g[i - 1] + f[i]
  <2>1. \A n \in 0..NTask : g[n] = IF n = 0 THEN 0 ELSE g[n - 1] + f[n]
    BY <1>5
  <2> HIDE DEF Rule
  <2> QED BY <1>1, <2>1
<1> HIDE DEF Rule
<1> DEFINE Same == {i \in 0..NTask : g[i] = s[i]}
<1>7. s[0] = 0 /\ \A i \in 1..NTask : s[i] = s[i - 1] + f[i]
  BY <1>3 DEF Adds
<1>8. 0 \in Same
  BY <1>1, <1>6, <1>7
<1>9. ASSUME NEW i \in 0..NTask, i \in Same, i < NTask PROVE i + 1 \in Same
  <2>1. i + 1 \in 1..NTask /\ (i + 1) - 1 = i /\ i + 1 \in 0..NTask
    BY <1>1, <1>9
  <2> QED BY <2>1, <1>6, <1>7, <1>9
<1> HIDE DEF Same
<1>10. 0..NTask \subseteq Same
  BY <1>1, <1>8, <1>9, Climb
<1>11. g[NTask] = s[NTask]
  BY <1>1, <1>10 DEF Same
<1> QED BY <1>2, <1>3, <1>11

LEMMA SumInt == ASSUME NEW f \in [Task -> Int] PROVE Sum(f) \in Int
<1>1. NTask \in 0..NTask
  BY TaskAssumption
<1> QED BY <1>1, SumIs DEF Adds

\* What a turn does to a sum: every value grows by d times its weight at most,
\* and the one of t falls by x besides.
LEMMA SumMoves ==
  ASSUME NEW f \in [Task -> Int], NEW h \in [Task -> Int], NEW w \in [Task -> Int],
         NEW d \in Int, NEW t \in Task, NEW x \in Int,
         \A u \in Task : h[u] <= f[u] + d * w[u] - (IF u = t THEN x ELSE 0)
  PROVE  Sum(h) <= Sum(f) + d * Sum(w) - x
<1>1. NTask \in Nat /\ NTask \in 0..NTask /\ t \in 1..NTask
  BY TaskAssumption DEF Task
<1>2. PICK sf : Adds(sf, f, NTask) /\ Sum(f) = sf[NTask]
  BY SumIs
<1>3. PICK sh : Adds(sh, h, NTask) /\ Sum(h) = sh[NTask]
  BY SumIs
<1>4. PICK sw : Adds(sw, w, NTask) /\ Sum(w) = sw[NTask]
  BY SumIs
<1>5. /\ sf \in [0..NTask -> Int] /\ sf[0] = 0 /\ \A i \in 1..NTask : sf[i] = sf[i - 1] + f[i]
      /\ sh \in [0..NTask -> Int] /\ sh[0] = 0 /\ \A i \in 1..NTask : sh[i] = sh[i - 1] + h[i]
      /\ sw \in [0..NTask -> Int] /\ sw[0] = 0 /\ \A i \in 1..NTask : sw[i] = sw[i - 1] + w[i]
  BY <1>2, <1>3, <1>4 DEF Adds
<1> DEFINE fell(n) == IF t <= n THEN x ELSE 0
           Fine == {n \in 0..NTask : sh[n] <= sf[n] + d * sw[n] - fell(n)}
<1>6. 0 \in Fine
  BY <1>1, <1>5
<1>7. ASSUME NEW n \in 0..NTask, n \in Fine, n < NTask PROVE n + 1 \in Fine
  <2> DEFINE m == n + 1
  <2>1. m \in 1..NTask /\ m - 1 = n /\ m \in 0..NTask /\ m \in Task /\ n \in Int
    BY <1>1, <1>7 DEF Task
  <2>2. /\ sf[m] = sf[n] + f[m] /\ sh[m] = sh[n] + h[m] /\ sw[m] = sw[n] + w[m]
        /\ sh[n] <= sf[n] + d * sw[n] - fell(n)
        /\ h[m] <= f[m] + d * w[m] - (IF m = t THEN x ELSE 0)
        /\ sf[n] \in Int /\ sh[n] \in Int /\ sw[n] \in Int
        /\ f[m] \in Int /\ h[m] \in Int /\ w[m] \in Int
    BY <2>1, <1>5, <1>7
  <2>3. fell(m) = fell(n) + (IF m = t THEN x ELSE 0)
    BY <2>1, <1>1
  <2>4. d * (sw[n] + w[m]) = d * sw[n] + d * w[m] /\ d * sw[n] \in Int /\ d * w[m] \in Int
    BY <2>2
  <2>5. fell(n) \in Int /\ (IF m = t THEN x ELSE 0) \in Int
    OBVIOUS
  <2> HIDE DEF fell, m
  <2>6. sh[m] <= sf[m] + d * sw[m] - fell(m)
    <3> DEFINE y == IF m = t THEN x ELSE 0
               a == d * sw[n]
               b == d * w[m]
    <3>1. /\ a \in Int /\ b \in Int /\ y \in Int /\ d * sw[m] = a + b /\ fell(m) = fell(n) + y
          /\ sh[n] <= sf[n] + a - fell(n) /\ h[m] <= f[m] + b - y
      BY <2>2, <2>3, <2>4, <2>5
    <3> HIDE DEF a, b, y
    <3> QED BY <3>1, <2>2, <2>5
  <2> QED BY <2>1, <2>6 DEF m
<1> HIDE DEF Fine
<1>8. 0..NTask \subseteq Fine
  BY <1>1, <1>6, <1>7, Climb
<1>9. sh[NTask] <= sf[NTask] + d * sw[NTask] - fell(NTask)
  BY <1>1, <1>8 DEF Fine
<1>10. fell(NTask) = x
  BY <1>1
<1> QED BY <1>2, <1>3, <1>4, <1>9, <1>10

LEMMA SumLess ==
  ASSUME NEW f \in [Task -> Int], NEW h \in [Task -> Int], \A u \in Task : h[u] <= f[u]
  PROVE  Sum(h) <= Sum(f)
<1>1. 1 \in Task
  BY TaskAssumption DEF Task
<1>2. \A u \in Task : h[u] <= f[u] + 0 * f[u] - (IF u = 1 THEN 0 ELSE 0)
  OBVIOUS
<1>3. Sum(h) <= Sum(f) + 0 * Sum(f) - 0
  BY <1>1, <1>2, SumMoves
<1> QED BY <1>3, SumInt

LEMMA SumMember ==
  ASSUME NEW f \in [Task -> Nat], NEW t \in Task
  PROVE  f[t] <= Sum(f)
<1>1. NTask \in Nat /\ NTask \in 0..NTask /\ t \in 1..NTask /\ f \in [Task -> Int]
  BY TaskAssumption DEF Task
<1>2. PICK s : Adds(s, f, NTask) /\ Sum(f) = s[NTask]
  BY <1>1, SumIs
<1>3. s \in [0..NTask -> Int] /\ s[0] = 0 /\ \A i \in 1..NTask : s[i] = s[i - 1] + f[i]
  BY <1>2 DEF Adds
<1> DEFINE Fine == {n \in 0..NTask : (IF t <= n THEN f[t] ELSE 0) <= s[n]}
<1>4. 0 \in Fine
  BY <1>1, <1>3
<1>5. ASSUME NEW n \in 0..NTask, n \in Fine, n < NTask PROVE n + 1 \in Fine
  <2>1. n + 1 \in 1..NTask /\ (n + 1) - 1 = n /\ n + 1 \in 0..NTask /\ n + 1 \in Task
    BY <1>1, <1>5 DEF Task
  <2>2. s[n + 1] = s[n] + f[n + 1] /\ f[n + 1] \in Nat /\ f[t] \in Nat /\ s[n] \in Int
    BY <2>1, <1>3
  <2>3. (IF t <= n THEN f[t] ELSE 0) <= s[n]
    BY <1>5
  <2>4. CASE t <= n
    BY <2>1, <2>2, <2>3, <2>4, <1>1
  <2>5. CASE t = n + 1
    BY <2>1, <2>2, <2>3, <2>5, <1>1
  <2>6. CASE t > n + 1
    BY <2>1, <2>2, <2>3, <2>6, <1>1
  <2> QED BY <2>4, <2>5, <2>6, <1>1
<1> HIDE DEF Fine
<1>6. 0..NTask \subseteq Fine
  BY <1>1, <1>4, <1>5, Climb
<1>7. (IF t <= NTask THEN f[t] ELSE 0) <= s[NTask]
  BY <1>1, <1>6 DEF Fine
<1> QED BY <1>1, <1>2, <1>7

LEMMA Times ==
  ASSUME NEW w \in Nat, NEW a \in Int, NEW b \in Int, a <= b
  PROVE  w * a \in Int /\ w * b \in Int /\ w * a <= w * b
<1>1. w * (b - a) >= 0 /\ w * (b - a) = w * b - w * a
  OBVIOUS
<1> QED BY <1>1

-----------------------------------------------------------------------------
(* No run is forgotten. *)

\* What all tasks owe, each counted by its share of the core; and what that can
\* come to when a turn finds none of them due.
Debt(share) == Sum([t \in Task |-> share[t] * owed[t]])
Limit(share) == Sum([u \in Task |-> share[u] * (PeriodOf(Freq[u]) - 1 + IdleCost)])

LEMMA ShareType ==
  ASSUME NEW share \in [Task -> Nat \ {0}], NEW v \in [Task -> Int]
  PROVE  /\ [u \in Task |-> share[u] * v[u]] \in [Task -> Int]
         /\ Sum([u \in Task |-> share[u] * v[u]]) \in Int
         /\ share \in [Task -> Nat] /\ share \in [Task -> Int]
<1>1. [u \in Task |-> share[u] * v[u]] \in [Task -> Int]
  OBVIOUS
<1> QED BY <1>1, SumInt

LEMMA PeriodsType == [u \in Task |-> PeriodOf(Freq[u]) - 1 + IdleCost] \in [Task -> Nat]
<1> SUFFICES ASSUME NEW u \in Task PROVE PeriodOf(Freq[u]) - 1 + IdleCost \in Nat
  OBVIOUS
<1>1. PeriodOf(Freq[u]) \in Nat \ {0}
  BY PeriodOfType, TaskAssumption
<1> QED BY <1>1, TaskAssumption

LEMMA LimitType ==
  ASSUME NEW share \in [Task -> Nat \ {0}]
  PROVE  Limit(share) \in Int
<1> DEFINE v == [u \in Task |-> PeriodOf(Freq[u]) - 1 + IdleCost]
<1>1. v \in [Task -> Int]
  BY PeriodsType
<1>2. Limit(share) = Sum([u \in Task |-> share[u] * v[u]])
  BY DEF Limit
<1> HIDE DEF v
<1> QED BY <1>1, <1>2, ShareType

LEMMA OwedNat ==
  ASSUME TypeOK, NeverAhead, Fixed, Undisturbed
  PROVE  owed \in [Task -> Nat]
<1> SUFFICES ASSUME NEW t \in Task PROVE owed[t] >= 0
  BY DEF TypeOK
<1>1. enabled[t]
  BY DEF Fixed
<1> QED BY <1>1, TickAssumption DEF NeverAhead, TypeOK

\* A task a wrap behind would owe more than all of them do.
LEMMA Slack ==
  ASSUME TypeOK, NeverAhead, Fixed, Undisturbed,
         NEW share \in [Task -> Nat \ {0}], SharedOut(share), Debt(share) <= Limit(share)
  PROVE  \A t \in Task : owed[t] < Wrap
<1> SUFFICES ASSUME NEW t \in Task, ~(owed[t] < Wrap) PROVE FALSE
  OBVIOUS
<1> DEFINE f == [u \in Task |-> share[u] * owed[u]]
<1>1. owed \in [Task -> Nat] /\ share[t] \in Nat /\ Wrap \in Int
  BY OwedNat, TickAssumption
<1>2. f \in [Task -> Nat] /\ f[t] = share[t] * owed[t]
  BY <1>1
<1>3. Debt(share) = Sum(f)
  BY DEF Debt
<1>4. Limit(share) < share[t] * Wrap
  BY DEF SharedOut, Limit
<1> HIDE DEF f
<1>5. f[t] <= Sum(f) /\ f \in [Task -> Int]
  BY <1>2, SumMember
<1>6. share[t] * Wrap \in Int /\ share[t] * owed[t] \in Int
      /\ share[t] * Wrap <= share[t] * owed[t]
  BY <1>1, Times
<1>7. Sum(f) \in Int /\ Limit(share) \in Int
  BY <1>5, SumInt, LimitType
<1> QED BY <1>2, <1>3, <1>4, <1>5, <1>6, <1>7

\* A turn in which no task is due leaves each of them owing less than a period
\* and the turn.
LEMMA IdleDebt ==
  ASSUME TypeOK, NeverAhead, Fixed, Undisturbed, IdleTurn,
         NEW share \in [Task -> Nat \ {0}], \A t \in Task : owed[t] < Wrap, TypeOK'
  PROVE  Debt(share)' <= Limit(share)
<1> DEFINE h == [u \in Task |-> share[u] * owed'[u]]
           most == [u \in Task |-> PeriodOf(Freq[u]) - 1 + IdleCost]
           g == [u \in Task |-> share[u] * most[u]]
<1>1. PICK d \in 1..IdleCost :
        owed' = [u \in Task |-> IF ~enabled[u] THEN 0 ELSE Owing(owed[u], d, 0)]
  BY DEF IdleTurn
<1>2. most \in [Task -> Nat] /\ owed' \in [Task -> Int]
  BY PeriodsType DEF TypeOK
<1>3. ASSUME NEW u \in Task PROVE owed'[u] <= most[u]
  <2>1. enabled[u] /\ period[u] = PeriodOf(Freq[u]) /\ ~Due(u)
    BY DEF Fixed, IdleTurn
  <2>2. owed[u] < period[u]
    BY <2>1, NotDue
  <2>3. owed[u] \in Int /\ period[u] \in Int /\ d \in Int /\ d <= IdleCost /\ IdleCost \in Int
    BY TaskAssumption DEF TypeOK
  <2>4. owed'[u] = Owing(owed[u], d, 0)
    BY <1>1, <2>1
  <2>5. Owing(owed[u], d, 0) <= owed[u] + d
    <3>1. owed[u] # MaxOwed
      BY <2>3, TickAssumption
    <3> QED BY <2>3, <3>1, OwingMost, d \in Nat, 0 \in Nat
  <2>6. most[u] = period[u] - 1 + IdleCost
    BY <2>1
  <2>7. owed'[u] \in Int
    BY <1>2
  <2> HIDE DEF most
  <2> QED BY <2>2, <2>3, <2>4, <2>5, <2>6, <2>7
<1>4. Debt(share)' = Sum(h)
  BY DEF Debt
<1>5. Limit(share) = Sum(g)
  BY DEF Limit
<1> HIDE DEF most
<1>6. \A u \in Task : h[u] <= g[u]
  <2> SUFFICES ASSUME NEW u \in Task PROVE share[u] * owed'[u] <= share[u] * most[u]
    OBVIOUS
  <2>1. share[u] \in Nat /\ owed'[u] \in Int /\ most[u] \in Int
    BY <1>2
  <2> QED BY <2>1, <1>3, Times
<1>7. h \in [Task -> Int] /\ g \in [Task -> Int]
  BY <1>2
<1> HIDE DEF h, g
<1> QED BY <1>4, <1>5, <1>6, <1>7, SumLess

\* A turn with a task adds no more to the debt than the task works off.
LEMMA RunDebt ==
  ASSUME TypeOK, NeverAhead, Fixed, Undisturbed', NEW v \in Task, RunTask(v),
         NEW share \in [Task -> Nat \ {0}], SharedOut(share),
         \A t \in Task : owed[t] < Wrap, TypeOK'
  PROVE  Debt(share)' <= Debt(share)
<1> DEFINE f == [u \in Task |-> share[u] * owed[u]]
           h == [u \in Task |-> share[u] * owed'[u]]
<1>1. Undisturbed /\ period' = period /\ enabled' = enabled
  BY FixedStep DEF Turn
<1>2. PICK d \in 1..Cost[v] :
        owed' = [u \in Task |->
          IF ~enabled'[u] THEN 0
          ELSE IF ~enabled[u] THEN Elapsed(now', last[u])
          ELSE Owing(owed[u], d, IF u = v THEN period'[v] ELSE 0)]
  BY DEF RunTask
<1>3. /\ \A u \in Task : enabled[u] /\ period[u] = PeriodOf(Freq[u])
      /\ d \in Nat /\ d <= Cost[v] /\ Cost[v] \in Nat
      /\ period[v] \in Nat /\ owed \in [Task -> Int] /\ owed' \in [Task -> Int]
      /\ share[v] \in Nat
  BY <1>1, TaskAssumption DEF Fixed, TypeOK
<1> DEFINE less(u) == IF u = v THEN period[v] ELSE 0
           x == share[v] * period[v]
<1>4. ASSUME NEW u \in Task PROVE h[u] <= f[u] + d * share[u] - (IF u = v THEN x ELSE 0)
  <2>1. owed'[u] = Owing(owed[u], d, less(u))
    BY <1>1, <1>2, <1>3
  <2>2. less(u) \in Nat /\ owed[u] \in Int /\ owed'[u] \in Int /\ share[u] \in Nat
    BY <1>3
  <2>3. share[u] * less(u) = IF u = v THEN x ELSE 0
    BY <1>3
  <2> HIDE DEF less, x
  <2>4. owed[u] # MaxOwed
    BY <2>2, TickAssumption
  <2>5. Owing(owed[u], d, less(u)) <= owed[u] + d - less(u)
    BY <2>2, <2>4, <1>3, OwingMost
  <2>6. share[u] * owed'[u] <= share[u] * (owed[u] + d - less(u))
    BY <2>1, <2>2, <2>5, <1>3, Times, owed[u] + d - less(u) \in Int
  <2>7. share[u] * (owed[u] + d - less(u)) = share[u] * owed[u] + d * share[u] - share[u] * less(u)
    BY <2>2, <1>3
  <2> QED BY <2>3, <2>6, <2>7
<1>5. x \in Int /\ share \in [Task -> Int] /\ share \in [Task -> Nat] /\ d \in Int
  BY <1>3
<1>6. f \in [Task -> Int] /\ h \in [Task -> Int]
  BY <1>3
<1>7. Debt(share) = Sum(f) /\ Debt(share)' = Sum(h)
  BY DEF Debt
<1>8. Cost[v] * Sum(share) <= x
  BY <1>3 DEF SharedOut
<1> HIDE DEF f, h, x
<1>9. Sum(h) <= Sum(f) + d * Sum(share) - x
  BY <1>4, <1>5, <1>6, SumMoves
<1>10. Sum(share) \in Nat
  <2>1. share[v] <= Sum(share) /\ Sum(share) \in Int
    BY <1>5, SumMember, SumInt
  <2> QED BY <2>1, <1>3
<1>11. d * Sum(share) \in Int /\ Cost[v] * Sum(share) \in Int
       /\ d * Sum(share) <= Cost[v] * Sum(share)
  <2>1. Sum(share) * d <= Sum(share) * Cost[v]
    BY <1>3, <1>10, Times
  <2> QED BY <2>1, <1>3, <1>10
<1>12. Sum(f) \in Int /\ Sum(h) \in Int
  BY <1>6, SumInt
<1> QED BY <1>5, <1>7, <1>8, <1>9, <1>11, <1>12

LEMMA InitDebt ==
  ASSUME Init, NEW share \in [Task -> Nat \ {0}], SharedOut(share)
  PROVE  Debt(share) <= Limit(share)
<1> DEFINE f == [u \in Task |-> share[u] * owed[u]]
           most == [u \in Task |-> PeriodOf(Freq[u]) - 1 + IdleCost]
           g == [u \in Task |-> share[u] * most[u]]
<1>1. most \in [Task -> Nat] /\ owed \in [Task -> Int]
  BY PeriodsType, InitType DEF TypeOK
<1>2. ASSUME NEW u \in Task PROVE owed[u] <= most[u]
  <2>1. owed[u] <= AddTicks
    BY TaskAssumption DEF Init
  <2>2. AddTicks < PeriodOf(Freq[u]) + IdleCost
    BY DEF SharedOut
  <2>3. PeriodOf(Freq[u]) \in Nat \ {0} /\ AddTicks \in Int /\ IdleCost \in Int /\ owed[u] \in Int
    BY <1>1, PeriodOfType, TaskAssumption
  <2> QED BY <2>1, <2>2, <2>3
<1>3. Debt(share) = Sum(f) /\ Limit(share) = Sum(g)
  BY DEF Debt, Limit
<1> HIDE DEF most
<1>4. \A u \in Task : f[u] <= g[u]
  <2> SUFFICES ASSUME NEW u \in Task PROVE share[u] * owed[u] <= share[u] * most[u]
    OBVIOUS
  <2>1. share[u] \in Nat /\ owed[u] \in Int /\ most[u] \in Int
    BY <1>1
  <2> QED BY <2>1, <1>2, Times
<1>5. f \in [Task -> Int] /\ g \in [Task -> Int]
  BY <1>1
<1> HIDE DEF f, g
<1> QED BY <1>3, <1>4, <1>5, SumLess

\* While nobody has used the interface, what all owe is within the limit.
InDebt(share) == Undisturbed => Debt(share) <= Limit(share)

LEMMA StepInDebt ==
  ASSUME TypeOK, NeverAhead, Fixed, NEW share \in [Task -> Nat \ {0}],
         SharedOut(share), InDebt(share), [Turn]_vars, TypeOK'
  PROVE  InDebt(share)'
<1> SUFFICES ASSUME Undisturbed' PROVE Debt(share)' <= Limit(share)
  BY DEF InDebt, Limit
<1>1. Undisturbed
  <2>1. CASE Turn
    BY <2>1, FixedStep
  <2>2. CASE UNCHANGED vars
    BY <2>2 DEF vars, Undisturbed
  <2> QED BY <2>1, <2>2
<1>2. Debt(share) <= Limit(share)
  BY <1>1 DEF InDebt
<1>3. \A t \in Task : owed[t] < Wrap
  BY <1>1, <1>2, Slack
<1>4. CASE IdleTurn
  BY <1>1, <1>3, <1>4, IdleDebt
<1>5. ASSUME NEW v \in Task, RunTask(v) PROVE Debt(share)' <= Limit(share)
  <2>1. Debt(share)' <= Debt(share)
    BY <1>3, <1>5, RunDebt
  <2>2. Debt(share) \in Int /\ Debt(share)' \in Int /\ Limit(share) \in Int
    <3>1. owed \in [Task -> Int] /\ owed' \in [Task -> Int]
      BY DEF TypeOK
    <3>2. Sum([t \in Task |-> share[t] * owed[t]]) \in Int
      BY <3>1, ShareType
    <3>3. Sum([t \in Task |-> share[t] * owed'[t]]) \in Int
      BY <3>1, ShareType
    <3> QED BY <3>2, <3>3, LimitType DEF Debt
  <2> QED BY <1>2, <2>1, <2>2
<1>6. CASE UNCHANGED vars
  <2>1. owed' = owed
    BY <1>6 DEF vars
  <2> QED BY <1>2, <2>1 DEF Debt
<1> QED BY <1>4, <1>5, <1>6 DEF Turn

\* When the core can be shared out between the tasks, no task ever falls a
\* whole wrap of the tick counter behind, so that the unsigned difference
\* scheduler_run computes is all that the task owes.  Each turn adds to what
\* all tasks owe, counted by their shares, no more than the task it runs works
\* off; a turn that runs none finds every task owing less than a period.
THEOREM NoRunForgottenCorrect ==
  ASSUME ~OwnCalls, NEW share \in [Task -> Nat \ {0}], SharedOut(share)
  PROVE  Spec => []NoRunForgotten
<1> DEFINE Inv == TypeOK /\ NeverAhead /\ Fixed /\ InDebt(share)
<1>1. Init => Inv
  <2>1. Init => Fixed
    BY DEF Init, Fixed
  <2> QED BY <2>1, InitType, InitNeverAhead, InitDebt DEF InDebt
<1>2. Inv /\ [Turn]_vars => Inv'
  <2> SUFFICES ASSUME Inv, [Turn]_vars PROVE Inv'
    OBVIOUS
  <2>1. TypeOK'
    BY StepType
  <2>2. NeverAhead'
    BY StepNeverAhead
  <2>3. Fixed'
    BY FixedStep, <2>1
  <2>4. InDebt(share)'
    BY <2>1, StepInDebt
  <2> QED BY <2>1, <2>2, <2>3, <2>4
<1>3. Inv => NoRunForgotten
  BY Slack DEF NoRunForgotten, InDebt
<1> QED BY <1>1, <1>2, <1>3, PTL DEF Spec

=============================================================================
