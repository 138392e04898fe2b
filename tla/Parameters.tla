----------------------------- MODULE Parameters -----------------------------
(***************************************************************************)
(* The parameter table: what a parameter is, and what reading and writing  *)
(* one does.  A value is the bytes it has on the wire; every format of the *)
(* table is stored and fetched as the bytes it has there.                  *)
(***************************************************************************)
EXTENDS Integers, Sequences

CONSTANTS Base,      \* values of a byte
          Id,        \* the identifiers in parameter_map_table
          Size,      \* the size of each, in bytes
          Direction, \* PARAM_DIR_TX, PARAM_DIR_RX: the subset of {"tx", "rx"}
          RawMax     \* PARAM_RAW_MAX_BYTES

ASSUME ParameterAssumption ==
  /\ Base \in Nat /\ Base > 3
  /\ Id \subseteq Nat
  /\ Size \in [Id -> 0..RawMax]
  /\ Direction \in [Id -> SUBSET {"tx", "rx"}]
  /\ \A id \in Id : "rx" \in Direction[id] => Size[id] > 0
  /\ RawMax \in Nat /\ RawMax < Base

Byte == 0..(Base - 1)
Values(id) == [1..Size[id] -> Byte]

\* parameters_init wipes the whole table, the defaults of its initialiser too.
Wiped == [id \in Id |-> [i \in 1..Size[id] |-> 0]]

\* parameters_find
Find(id) == id \in Id

\* parameters_publish takes as many bytes as the parameter has
Publish(table, id, bytes) ==
  [table EXCEPT ![id] = [i \in 1..Size[id] |-> bytes[i]]]

\* protocol_read_value and protocol_write_value: the tests before the table
\* is touched
MayRead(id) == Find(id) /\ "tx" \in Direction[id]
MayWrite_AnyDirection(id, length) == Find(id) /\ length = Size[id]
MayWrite(id, length) == /\ Find(id) /\ length = Size[id]
                        /\ "rx" \in Direction[id]
=============================================================================
