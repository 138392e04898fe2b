---------------------------- MODULE MCTelemetry -----------------------------
(* A small instance of Telemetry for TLC: bytes of eight values.           *)
EXTENDS Telemetry, Bitwise

MCSync == <<5, 2>>

\* The end may be taken for half a sync word, or with the checksum for one.
MCPayload == {<<0, 5>>}

\* A reply whose end looks like half a sync word, and half a frame.
MCOthers == {<<4, 5>>, <<5, 2, 0>>}

MCXor(a, b) == a ^^ b
=============================================================================
