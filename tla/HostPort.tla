------------------------------ MODULE HostPort ------------------------------
(***************************************************************************)
(* The host's serial port: what the device sent and the host has not read. *)
(* The bytes come without marks, in whatever parts the system hands over.  *)
(* wire keeps them as the messages they were sent as; what the host has    *)
(* read of the first is gone from it.                                      *)
(***************************************************************************)
EXTENDS Integers, SequencesExt

CONSTANTS Base,        \* values of a byte, a power of 2
          ByteXor(_, _),  \* ^ of two bytes
          Sync,        \* TELEMETRY_SYNC, two bytes
          PayloadSize, \* the bytes of the values in a frame
          Splits,      \* bound: where a read may end in a message
          MaxWire      \* bound: messages waiting at the port

FrameSize == 4 + PayloadSize

ASSUME PortAssumption ==
  /\ Base \in Nat /\ Base > 3
  /\ \A a, b \in 0..(Base - 1) : ByteXor(a, b) \in 0..(Base - 1)
  /\ Sync \in Seq(0..(Base - 1)) /\ Len(Sync) = 2
  /\ PayloadSize \in Nat /\ Splits \subseteq Nat /\ MaxWire \in Nat

VARIABLES wire,   \* the messages sent and not read
          split   \* the first of them is the rest of one read in part

portVars == <<wire, split>>

Byte == 0..(Base - 1)

From(bytes, start) == SubSeq(bytes, start, Len(bytes))

Checksum(bytes) ==
  LET upto[i \in 0..Len(bytes)] == IF i = 0 THEN 0 ELSE ByteXor(upto[i - 1], bytes[i])
  IN  upto[Len(bytes)]

Frame(seq, payload) ==
  LET head == Sync \o <<seq>> \o payload IN Append(head, Checksum(head))

\* _is_telemetry_frame
IsFrameAt(bytes, p) ==
  /\ p + FrameSize - 1 <= Len(bytes)
  /\ SubSeq(bytes, p, p + 1) = Sync
  /\ Checksum(SubSeq(bytes, p, p + FrameSize - 2)) = bytes[p + FrameSize - 1]

-----------------------------------------------------------------------------
(* Reading from the port: some whole messages and some bytes of the next. *)

Parts == {part \in [whole : 0..Len(wire), more : {0} \cup Splits] :
            part.more > 0 => /\ part.whole < Len(wire)
                             /\ part.more < Len(wire[part.whole + 1].bytes)}

Some(part) == part.whole + part.more > 0

Chunk(part) ==
  LET messages == [i \in 1..part.whole |-> wire[i].bytes]
  IN  FlattenSeq(messages) \o
        (IF part.more = 0 THEN << >> ELSE SubSeq(wire[part.whole + 1].bytes, 1, part.more))

\* The port hands over, or drops, this part.
Advance(part) ==
  LET next == part.whole + 1
  IN  /\ wire' = IF part.more = 0 THEN From(wire, next)
                 ELSE <<[wire[next] EXCEPT !.bytes = From(@, part.more + 1)]>> \o From(wire, next + 1)
      /\ split' = IF Some(part) THEN part.more > 0 ELSE split

PortInit == wire = << >> /\ split = FALSE

Arrives(kind, bytes) == /\ Len(wire) < MaxWire
                        /\ wire' = Append(wire, [kind |-> kind, bytes |-> bytes])
                        /\ UNCHANGED split

PortTypeOK == /\ \A i \in 1..Len(wire) : wire[i].bytes \in Seq(Byte)
              /\ split \in BOOLEAN /\ (split => wire # << >>)
=============================================================================
