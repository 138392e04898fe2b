---------------------------- MODULE MCTransport -----------------------------
(* A small instance of Transport for TLC: bytes of sixteen values.         *)
EXTENDS Transport, Bitwise

\* 0x80 keeps its highest bit, and the sync bytes differ in all of theirs.
MCSync == <<10, 5>>

\* It looks like an acknowledgement, and like an empty value of id 1.
MCPayload == {<<8, 1, 0, 0>>}

\* ids 1 and 2 can be read, id 3 cannot.
MCCommand == {[op |-> "read", id |-> 1], [op |-> "read", id |-> 2],
              [op |-> "read", id |-> 3], [op |-> "write", id |-> 1]}

\* The first looks like an acknowledgement, the second also like an empty value
\* of id 1; the third is the text.
MCData == {<<8, 1>>, <<8, 1, 0, 0>>, <<1, 0, 1, 0, 1>>}

MCXor(a, b) == a ^^ b
=============================================================================
