------------------------------ MODULE BytePipe ------------------------------
(***************************************************************************)
(* What the device-to-host byte stream promises to its two users: the      *)
(* firmware, which hands bytes to usb_cdc_tx_send, and the host, which     *)
(* receives packets.  Every byte accepted is delivered once, in order, in  *)
(* packets of at most Packet bytes.  A bus reset, which is counted, may    *)
(* lose the packet that was waiting on the endpoint.  MayDrop says whether *)
(* bytes may also be lost from the front without one.                      *)
(***************************************************************************)
EXTENDS Naturals, Sequences

CONSTANTS Byte,      \* what a byte can be
          Capacity,  \* bytes the pipe holds at most
          Packet,    \* bytes a packet carries at most
          MayDrop    \* TRUE: a step may discard the waiting packet

VARIABLES pipe,      \* bytes accepted and not yet delivered
          received,  \* the last packet the host accepted
          flip,      \* changes with every packet the host accepts
          resets     \* bus resets so far

vars == <<pipe, received, flip, resets>>

Min2(a, b) == IF a <= b THEN a ELSE b

Init == /\ pipe = << >>
        /\ received = << >>
        /\ flip = 0
        /\ resets = 0

Accept(b) == /\ Len(pipe) < Capacity
             /\ pipe' = Append(pipe, b)
             /\ UNCHANGED <<received, flip, resets>>

Deliver(n) == /\ received' = SubSeq(pipe, 1, n)
              /\ pipe' = SubSeq(pipe, n + 1, Len(pipe))
              /\ flip' = 1 - flip
              /\ UNCHANGED resets

Drop(n) == /\ MayDrop
           /\ pipe' = SubSeq(pipe, n + 1, Len(pipe))
           /\ UNCHANGED <<received, flip, resets>>

Reset(n) == /\ pipe' = SubSeq(pipe, n + 1, Len(pipe))
            /\ flip' = 0
            /\ resets' = resets + 1
            /\ UNCHANGED received

Next == \/ \E b \in Byte : Accept(b)
        \/ \E n \in 0..Min2(Packet, Len(pipe)) : Deliver(n) \/ Drop(n) \/ Reset(n)

Spec == Init /\ [][Next]_vars
=============================================================================
