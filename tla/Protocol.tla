------------------------------ MODULE Protocol ------------------------------
(***************************************************************************)
(* The device's end of the binary protocol.  The USB interrupt puts the    *)
(* packets of endpoint 2 into the receive ring (HandleDataOut); now and    *)
(* then task_usb_cdc calls protocol_bridge_poll, which reads what the ring *)
(* holds, byte by byte, and carries out the commands in it.                *)
(*                                                                         *)
(* The interrupt comes between any two of the steps below.  command,       *)
(* outbox, half and again are the host's.  todo, taken and lost only keep  *)
(* the account of what was sent: no step of the device looks at them.      *)
(***************************************************************************)
EXTENDS Parameters

CONSTANTS RxSize,     \* USB_CDC_RX_RING_SIZE
          FrameMax,   \* PROTOCOL_MAX_FRAME_BYTES
          Command,    \* the commands the host may send
          Measured,   \* bound: the values a task may publish
          Splits,     \* bound: where a command may be cut into two packets
          MaxSends    \* bound: commands the host sends

ASSUME ProtocolAssumption ==
  /\ RxSize \in Nat /\ RxSize >= 2 /\ FrameMax \in Nat \ {0}
  /\ RxSize - 1 <= FrameMax    \* 255 and 512: a poll takes all the ring holds
  /\ Measured \subseteq [1..RawMax -> Byte]
  /\ Splits \subseteq Nat \ {0} /\ MaxSends \in Nat

VARIABLES
  rx,       \* the bytes in usb_cdc_rx_ring, oldest first
  pc,       \* "idle" outside protocol_bridge_poll, else "read" or "parse"
  toRead,   \* what usb_cdc_rx_read has still to copy
  frame,    \* the bytes copied and not parsed
  table,    \* parameter_map_table
  answer,   \* the last message handed to usb_cdc_tx_send
  turn,     \* flips with every one
  command,  \* what the host is sending, or Nothing
  outbox,   \* its packets that have not arrived
  half,     \* of two packets, the first has arrived
  again,    \* the packet that just arrived will arrive a second time
  sendsLeft,\* what is left of the bound
  todo,     \* the commands that arrived and were not answered
  taken,    \* how many of them came into the frame
  lost      \* bytes were dropped or part of a command was taken for whole

deviceVars == <<pc, toRead, frame, table, answer, turn>>
hostVars == <<command, outbox, half, again, sendsLeft>>
vars == <<rx, deviceVars, hostVars, todo, taken, lost>>

READ == 1
WRITE == 2
LIST == 3

Nothing == [op |-> "none"]

\* A command on the wire (transport.py: list_params, read_param, write_param)
Wire(c) ==
  CASE c.op = "list" -> <<LIST>>
    [] c.op = "read" -> <<READ, c.id % Base, c.id \div Base>>
    [] c.op = "write" -> <<WRITE, c.id % Base, c.id \div Base, Len(c.data)>> \o c.data

ASSUME CommandAssumption ==
  \A c \in Command : /\ c.op \in {"list", "read", "write"}
                     /\ c.id \in 0..(Base * Base - 1)
                     /\ c.data \in Seq(Byte) /\ Len(c.data) < Base

Store == INSTANCE ParamStore WITH store <- table, Window <- RxSize - 1

-----------------------------------------------------------------------------
Init ==
  /\ rx = << >> /\ pc = "idle" /\ toRead = 0 /\ frame = << >>
  /\ table = Wiped
  /\ answer = Store!Catalogue /\ turn = 0
  /\ command = Nothing /\ outbox = << >> /\ half = FALSE /\ again = FALSE
  /\ sendsLeft = MaxSends
  /\ todo = << >> /\ taken = 0 /\ lost = FALSE

-----------------------------------------------------------------------------
(* The host and the interrupt. *)

HostSends(c) ==
  /\ outbox = << >> /\ sendsLeft > 0
  /\ sendsLeft' = sendsLeft - 1
  /\ command' = c
  /\ \/ outbox' = <<Wire(c)>>
     \/ \E k \in Splits : /\ k < Len(Wire(c))
                          /\ outbox' = <<SubSeq(Wire(c), 1, k),
                                         SubSeq(Wire(c), k + 1, Len(Wire(c)))>>
  /\ UNCHANGED <<rx, deviceVars, half, again, todo, taken, lost>>

\* HandleDataOut puts into the ring what fits, and drops the rest.
Room_OffByOne == RxSize - Len(rx)
Room == (RxSize - 1) - Len(rx)
Kept(packet) == IF Len(packet) <= Room THEN packet ELSE SubSeq(packet, 1, Room)

\* Nothing looks at the data toggle of endpoint 2: a packet whose handshake
\* was lost is received again.  (Here only if it holds a whole command.)
HandleDataOut(repeated) ==
  LET packet == Head(outbox)
      first == Len(outbox) = 2
  IN /\ outbox # << >>
     /\ repeated => ~first /\ ~half /\ ~again
     /\ rx' = rx \o Kept(packet)
     /\ outbox' = IF repeated THEN outbox ELSE Tail(outbox)
     /\ command' = IF outbox' = << >> THEN Nothing ELSE command
     /\ half' = first
     /\ again' = repeated
     /\ lost' = (lost \/ Len(packet) > Room)
     /\ todo' = IF lost' THEN << >> ELSE IF first THEN todo ELSE Append(todo, command)
     /\ taken' = IF lost' THEN 0 ELSE taken
     /\ UNCHANGED <<deviceVars, sendsLeft>>

-----------------------------------------------------------------------------
(* protocol_bridge_poll: reading. *)

PollBegin ==
  /\ pc = "idle" /\ rx # << >>
  /\ pc' = "read"
  /\ toRead' = IF Len(rx) > FrameMax THEN FrameMax ELSE Len(rx)
  /\ lost' = (lost \/ half)
  /\ todo' = IF lost' THEN << >> ELSE todo
  /\ taken' = IF lost' THEN 0 ELSE Len(todo)
  /\ UNCHANGED <<rx, frame, table, answer, turn, hostVars>>

\* usb_cdc_rx_read: the interrupt may add to the ring meanwhile.
ReadStops_Never == rx = << >>
ReadStops == toRead = 0 \/ rx = << >>

ReadByte ==
  /\ pc = "read"
  /\ IF ReadStops
       THEN pc' = "parse" /\ toRead' = 0 /\ UNCHANGED <<rx, frame>>
       ELSE /\ frame' = Append(frame, Head(rx))
            /\ rx' = Tail(rx)
            /\ toRead' = IF toRead = 0 THEN 0 ELSE toRead - 1
            /\ UNCHANGED pc
  /\ UNCHANGED <<table, answer, turn, hostVars, todo, taken, lost>>

-----------------------------------------------------------------------------
(* protocol_bridge_poll: one turn of the loop. *)

\* The loop goes on behind the first n bytes of the frame.
Skip(n) == /\ frame' = SubSeq(frame, n + 1, Len(frame))
           /\ UNCHANGED <<rx, pc, toRead, hostVars>>

\* The rest of the frame is dropped.
Break == Skip(Len(frame))

Reply(message) == answer' = message /\ turn' = 1 - turn

Answered == /\ todo' = IF todo = << >> THEN todo ELSE Tail(todo)
            /\ taken' = IF taken = 0 THEN 0 ELSE taken - 1
            /\ UNCHANGED lost

Id16 == frame[2] + Base * frame[3]

ParseList ==
  /\ frame # << >> /\ Head(frame) = LIST
  /\ Skip(1)
  /\ Reply(Store!Catalogue)
  /\ Answered
  /\ UNCHANGED table

\* Less than an identifier follows.
ParseShort ==
  /\ frame # << >> /\ Head(frame) # LIST /\ Len(frame) < 3
  /\ Break
  /\ UNCHANGED <<table, answer, turn, todo, taken, lost>>

ParseRead_Silent ==
  /\ Len(frame) >= 3 /\ Head(frame) = READ
  /\ Skip(3)
  /\ IF MayRead(Id16)
       THEN Reply(Store!Object(Id16, table[Id16])) /\ Answered
       ELSE UNCHANGED <<answer, turn, todo, taken, lost>>
  /\ UNCHANGED table
ParseRead ==
  /\ Len(frame) >= 3 /\ Head(frame) = READ
  /\ Skip(3)
  /\ Reply(IF MayRead(Id16) THEN Store!Object(Id16, table[Id16]) ELSE Store!Status(FALSE))
  /\ Answered
  /\ UNCHANGED table

PayloadMissing == Len(frame) > 3 => \/ frame[4] = 0
                                    \/ 4 + frame[4] > Len(frame)

\* An error answer, and the end of the poll.
ParseWriteMissing ==
  /\ Len(frame) >= 3 /\ Head(frame) = WRITE /\ PayloadMissing
  /\ Break
  /\ Reply(Store!Status(FALSE))
  /\ todo' = IF todo = << >> THEN todo ELSE SubSeq(todo, taken + 1, Len(todo))
  /\ taken' = 0
  /\ UNCHANGED <<table, lost>>

ParseWrite ==
  /\ Len(frame) >= 3 /\ Head(frame) = WRITE /\ ~PayloadMissing
  /\ Skip(4 + frame[4])
  /\ LET ok == MayWrite(Id16, frame[4])
     IN  /\ table' = IF ok THEN Publish(table, Id16, SubSeq(frame, 5, 4 + frame[4])) ELSE table
         /\ Reply(Store!Status(ok))
  /\ Answered

\* A byte that is no command is skipped with the two behind it.
ParseOther ==
  /\ Len(frame) >= 3 /\ Head(frame) \notin {READ, WRITE, LIST}
  /\ Skip(3)
  /\ UNCHANGED <<table, answer, turn, todo, taken, lost>>

\* With nothing left of what went wrong, the account starts anew.
PollEnd ==
  /\ pc = "parse" /\ frame = << >>
  /\ pc' = "idle"
  /\ lost' = (lost /\ (half \/ rx # << >>))
  /\ UNCHANGED <<rx, toRead, frame, table, answer, turn, hostVars, todo, taken>>

Parse == /\ pc = "parse"
         /\ \/ ParseList \/ ParseShort \/ ParseRead
            \/ ParseWriteMissing \/ ParseWrite \/ ParseOther

\* Between two polls, other tasks publish what they measured.
TaskPublishes ==
  /\ pc = "idle"
  /\ \E id \in Id : /\ Direction[id] = {"tx"}
                    /\ \E v \in Measured : table' = Publish(table, id, v)
  /\ UNCHANGED <<rx, pc, toRead, frame, answer, turn, hostVars, todo, taken, lost>>

-----------------------------------------------------------------------------
Poll == PollBegin \/ ReadByte \/ Parse \/ PollEnd

Next == \/ \E c \in Command : HostSends(c)
        \/ \E repeated \in BOOLEAN : HandleDataOut(repeated)
        \/ Poll
        \/ TaskPublishes

Spec == Init /\ [][Next]_vars

\* task_usb_cdc is called again and again, and a poll it began ends.
FairSpec == Spec /\ WF_vars(Poll)

-----------------------------------------------------------------------------
(* Properties. *)

Steps == {"idle", "read", "parse"}

TypeOK ==
  /\ rx \in Seq(Byte) /\ Len(rx) < RxSize
  /\ pc \in Steps /\ toRead \in 0..FrameMax
  /\ frame \in Seq(Byte) /\ Len(frame) + toRead <= FrameMax
  /\ table \in [Id -> Seq(Byte)] /\ \A id \in Id : Len(table[id]) = Size[id]
  /\ turn \in {0, 1}
  /\ half \in BOOLEAN /\ again \in BOOLEAN /\ lost \in BOOLEAN
  /\ sendsLeft \in 0..MaxSends
  /\ taken \in 0..Len(todo)

\* Whatever the interrupt and the poll do to each other, the commands that
\* arrive are served one by one in their order, each answered from the table
\* as it then is; and the device loses track only when more bytes wait than
\* the ring holds or a command is cut by a poll, until nothing of it is left.
Serves == Store!Spec

\* Only the device's own tasks change a value the host may not write, even if
\* what the host sent was dropped in parts and parsed out of step.
MeasuredKept ==
  [][\A id \in Id : table'[id] # table[id] /\ "rx" \notin Direction[id]
       => pc = "idle" /\ pc' = "idle"]_vars

\* The oldest command that waits is answered, unless the device loses track of
\* the commands meanwhile.  The others are not all answered: by Serves, those
\* behind a WRITE without data are passed over if they came in the same poll.
Answers == \A t \in {0, 1} : (todo # << >> /\ turn = t) ~> (turn # t \/ lost)
=============================================================================
