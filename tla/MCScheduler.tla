---------------------------- MODULE MCScheduler ----------------------------
(* Small instances of Scheduler for TLC: a second has 12 ticks. *)
EXTENDS Scheduler

\* Periods of 3, 6 and 12 ticks; the costs use 11 of every 12.
MCFreq == <<4, 2, 1>>
MCCost == <<1, 2, 3>>

\* A third of the core for each task covers that.
ASSUME MCSharedOut == SharedOut(<<1, 1, 1>>)
=============================================================================
