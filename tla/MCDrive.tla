------------------------------ MODULE MCDrive ------------------------------
(* A small instance of Drive for TLC. *)
EXTENDS Drive

\* Besides none: a period that does not fit in ATRLR (200 Hz), one of no
\* ticks (24 MHz), and one that wraps (30 MHz).  What the first and the last
\* leave in ATRLR is a negative fix16.
MCFreqs == {0, 200, 24000000, 30000000}
MCGains == {0, 1}
=============================================================================
