----------------------------- MODULE MCProtocol -----------------------------
(* A small instance of Protocol for TLC: bytes of four values.             *)
EXTENDS Protocol

\* id 1 is the host's to write, id 2 is measured, and id 4 (its second byte
\* is not 0) can be read and written.
MCSize == [id \in {1, 2, 4} |-> 1]
MCDirection == [id \in {1, 2, 4} |->
  CASE id = 1 -> {"rx"} [] id = 2 -> {"tx"} [] id = 4 -> {"tx", "rx"}]

MCMeasured == {<<1>>}

Do(op, id, data) == [op |-> op, id |-> id, data |-> data]

\* A value that looks like a command, one too long, none, and ids that may
\* not be read or written.
MCCommand == {Do("list", 0, << >>), Do("read", 4, << >>), Do("read", 1, << >>),
              Do("write", 4, <<3>>), Do("write", 2, <<2>>),
              Do("write", 1, <<1, 1>>), Do("write", 1, << >>)}
=============================================================================
