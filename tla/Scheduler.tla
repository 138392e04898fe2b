----------------------------- MODULE Scheduler -----------------------------
(***************************************************************************)
(* The cooperative scheduler: scheduler_run looks at a tick counter of 32  *)
(* bits, calls the due task with the shortest period, lets it run to its   *)
(* end, and moves the task's last_tick on by one period.  A turn of its    *)
(* loop is one step here and takes some ticks.                             *)
(***************************************************************************)
EXTENDS Integers

CONSTANTS NTask,         \* tasks added, in slot order
          Freq,          \* what scheduler_add_task is given for each, in Hz
          NewFreqs,      \* what scheduler_set_task_frequency may be given
          Cost,          \* ticks a turn with the task takes at most
          IdleCost,      \* ticks a turn without one takes at most
          AddTicks,      \* bound: ticks from the first scheduler_add_task to the loop
          MaxCalls,      \* bound: calls of the interface while the loop runs
          OwnCalls,      \* whether a task may call it for itself
          MaxOwed,       \* bound: how far owed is counted
          TicksPerSec,   \* sched_ticks_per_sec
          Micros,        \* microseconds in a second
          Wrap           \* values of uint32_t

Task == 1..NTask

ASSUME TaskAssumption == /\ NTask \in Nat \ {0}
                         /\ Freq \in [Task -> Nat \ {0}]
                         /\ NewFreqs \subseteq Nat \ {0}
                         /\ Cost \in [Task -> Nat \ {0}]
                         /\ IdleCost \in Nat \ {0}
                         /\ AddTicks \in Nat /\ MaxCalls \in Nat
                         /\ OwnCalls \in BOOLEAN
ASSUME TickAssumption == /\ TicksPerSec \in Nat \ {0}
                         /\ Micros \in Nat
                         /\ Wrap \in Nat /\ Wrap > TicksPerSec /\ Wrap > AddTicks
                         /\ MaxOwed \in Nat /\ MaxOwed >= Wrap

VARIABLES
  now,           \* what sched_tick_source returns
  period, last, enabled, execUs,    \* the fields of sched_tasks
  windowStart, idleLoops, totalLoops, cpuPct,
  owed,          \* ticks gone by since the task was added, less one period
                 \* for every run: what last_tick is to keep count of;
                 \* MaxOwed once that much is owed
  ran,           \* the task of the last turn, or 0
  callsLeft      \* what is left of the bound

windowVars == <<windowStart, idleLoops, totalLoops, cpuPct>>
vars == <<now, period, last, enabled, execUs, windowVars, owed, ran, callsLeft>>

-----------------------------------------------------------------------------
\* scheduler_add_task, scheduler_set_task_frequency
PeriodOf(freq) == IF TicksPerSec \div freq = 0 THEN 1 ELSE TicksPerSec \div freq

\* The ticks from a to b, by unsigned subtraction
Elapsed(b, a) == (b - a) % Wrap

\* scheduler_init, and scheduler_init_tasks, during which ticks go by.
\* (init_pins runs between the two; it only makes the first window longer.)
Init ==
  /\ now = AddTicks
  /\ period = [t \in Task |-> PeriodOf(Freq[t])]
  /\ last \in [Task -> 0..AddTicks]
  /\ \A t, u \in Task : t < u => last[t] <= last[u]
  /\ enabled = [t \in Task |-> TRUE]
  /\ execUs = [t \in Task |-> 0]
  /\ windowStart = 0 /\ idleLoops = 0 /\ totalLoops = 0 /\ cpuPct = 0
  /\ owed = [t \in Task |-> AddTicks - last[t]]
  /\ ran = 0
  /\ callsLeft = MaxCalls

Due_PastTick(t) == enabled[t] /\ now >= last[t] + period[t]
Due(t) == enabled[t] /\ Elapsed(now, last[t]) >= period[t]

\* The due task with the shortest period, the first of equals.
Picked_LongestFirst(t) ==
  /\ Due(t)
  /\ \A u \in Task \ {t} : Due(u) => \/ period[t] > period[u]
                                     \/ period[t] = period[u] /\ t < u
Picked(t) ==
  /\ Due(t)
  /\ \A u \in Task \ {t} : Due(u) => \/ period[t] < period[u]
                                     \/ period[t] = period[u] /\ t < u

\* The end of a turn that began at now: the share of turns with a task is
\* taken once a second.
CloseTurn_KeepsIdle(idle) ==
  IF Elapsed(now, windowStart) >= TicksPerSec
    THEN /\ cpuPct' = ((totalLoops + 1 - idle) * 100) \div (totalLoops + 1)
         /\ windowStart' = now /\ idleLoops' = idle /\ totalLoops' = 0
    ELSE /\ idleLoops' = idle /\ totalLoops' = totalLoops + 1
         /\ UNCHANGED <<cpuPct, windowStart>>
CloseTurn(idle) ==
  IF Elapsed(now, windowStart) >= TicksPerSec
    THEN /\ cpuPct' = ((totalLoops + 1 - idle) * 100) \div (totalLoops + 1)
         /\ windowStart' = now /\ idleLoops' = 0 /\ totalLoops' = 0
    ELSE /\ idleLoops' = idle /\ totalLoops' = totalLoops + 1
         /\ UNCHANGED <<cpuPct, windowStart>>

\* last_tick += period_ticks
NextLast_Now(t) == now'
NextLast(t) == (last[t] + period'[t]) % Wrap

\* delta_ticks * 1000000U, cut to 32 bits, over the tick rate: wrong for a
\* task that takes long
ExecUs(ticks) == ((ticks * Micros) % Wrap) \div TicksPerSec

\* What is owed after ticks more, of which less are worked off.
Owing(before, ticks, less) ==
  IF before = MaxOwed \/ before + ticks - less > MaxOwed THEN MaxOwed
                                                        ELSE before + ticks - less

-----------------------------------------------------------------------------
(* The operations of the interface.  They can be called from a task only;  *)
(* no task of this program does.                                           *)

SetTaskFrequency(t, freq) == /\ period' = [period EXCEPT ![t] = PeriodOf(freq)]
                             /\ UNCHANGED enabled

StopTask(t) == /\ enabled' = [enabled EXCEPT ![t] = FALSE]
               /\ UNCHANGED period

StartTask(t) == /\ enabled' = [enabled EXCEPT ![t] = TRUE]
                /\ UNCHANGED period

\* What the task by may call while it runs, once at most.
Calls(by) ==
  \/ UNCHANGED <<period, enabled, callsLeft>>
  \/ /\ callsLeft > 0
     /\ callsLeft' = callsLeft - 1
     /\ \E t \in Task : /\ t # by \/ OwnCalls
                       /\ \/ \E freq \in NewFreqs : SetTaskFrequency(t, freq)
                          \/ StopTask(t)
                          \/ StartTask(t)

-----------------------------------------------------------------------------
\* The task is charged its period after it has run.  The last_tick of a
\* task that is started stands where the task was stopped: it owes, from now
\* on, what the counter says has gone by.
RunTask(t) == \E d \in 1..Cost[t] :
  /\ Picked(t)
  /\ now' = (now + d) % Wrap
  /\ Calls(t)
  /\ last' = [last EXCEPT ![t] = NextLast(t)]
  /\ execUs' = [execUs EXCEPT ![t] = ExecUs(d)]
  /\ owed' = [u \in Task |->
       IF ~enabled'[u] THEN 0
       ELSE IF ~enabled[u] THEN Elapsed(now', last[u])
       ELSE Owing(owed[u], d, IF u = t THEN period'[t] ELSE 0)]
  /\ ran' = t
  /\ CloseTurn(idleLoops)

IdleTurn == \E d \in 1..IdleCost :
  /\ \A t \in Task : ~Due(t)
  /\ now' = (now + d) % Wrap
  /\ owed' = [u \in Task |-> IF ~enabled[u] THEN 0 ELSE Owing(owed[u], d, 0)]
  /\ ran' = 0
  /\ CloseTurn(idleLoops + 1)
  /\ UNCHANGED <<period, last, enabled, execUs, callsLeft>>

Turn == IdleTurn \/ \E t \in Task : RunTask(t)

-----------------------------------------------------------------------------
Spec == Init /\ [][Turn]_vars

\* while (1)
FairSpec == Spec /\ WF_vars(Turn)

-----------------------------------------------------------------------------
(* Properties. *)

TypeOK ==
  /\ now \in 0..(Wrap - 1)
  /\ period \in [Task -> Nat \ {0}]
  /\ last \in [Task -> 0..(Wrap - 1)]
  /\ enabled \in [Task -> BOOLEAN]
  /\ execUs \in [Task -> Nat]
  /\ windowStart \in 0..(Wrap - 1)
  /\ totalLoops \in Nat /\ idleLoops \in 0..totalLoops
  /\ cpuPct \in 0..100
  /\ owed \in [Task -> Int] /\ \A t \in Task : owed[t] <= MaxOwed
  /\ ran \in 0..NTask
  /\ callsLeft \in 0..MaxCalls

\* The 32-bit tick and last_tick of a task agree with the time that really
\* went by and the runs the task really had, across every wrap of the
\* counter, and no run comes before its period is over.
NeverAhead ==
  \A t \in Task : enabled[t] /\ owed[t] # MaxOwed =>
    /\ owed[t] >= 0
    /\ Elapsed(now, last[t]) = owed[t] % Wrap

\* No task has used the interface: the tasks are those of scheduler_init_tasks.
Undisturbed == callsLeft = MaxCalls

\* f[1] + f[2] + ... for all tasks.
Sum(f) == LET upto[n \in 0..NTask] == IF n = 0 THEN 0 ELSE upto[n - 1] + f[n]
          IN  upto[NTask]

\* The core is not overloaded: it can be shared out so that what each task has
\* of it covers its cost in every period, and the counter is wide enough.
SharedOut(share) ==
  LET p == [t \in Task |-> PeriodOf(Freq[t])]
  IN  \A t \in Task : /\ Cost[t] * Sum(share) <= share[t] * p[t]
                      /\ AddTicks < p[t] + IdleCost
                      /\ Sum([u \in Task |-> share[u] * (p[u] - 1 + IdleCost)]) < share[t] * Wrap

\* No task falls a whole wrap of the counter behind, when the core is not
\* overloaded (SharedOut): then no run is ever forgotten.  (A task that was
\* stopped may start up to a wrap behind.)
NoRunForgotten == Undisturbed => \A t \in Task : owed[t] < Wrap

\* No task goes before t when both are due.
Urgent(t) == \A u \in Task \ {t} : period[t] < period[u] \/ (period[t] = period[u] /\ t < u)

\* Tasks are not preempted: the most urgent one waits, when it is due, for
\* one turn of another task or an idle one at most, and what it owes for
\* that does not pile up.
TopLatency ==
  Undisturbed => \A t \in Task : Urgent(t) =>
    \E c \in {IdleCost} \cup {Cost[u] : u \in Task \ {t}} : owed[t] < period[t] + c

\* Every task that is not stopped for good is run again and again, the one of
\* the longest period too, and one that was started again.
EveryTaskRuns == \A t \in Task : <>[]enabled[t] => []<>(ran = t)

=============================================================================
