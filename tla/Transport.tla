----------------------------- MODULE Transport ------------------------------
(***************************************************************************)
(* Requests of the host: request() sends a command and looks for its       *)
(* answer in what arrives at the port within a second, among telemetry     *)
(* frames and whatever is left of earlier commands.  The device answers    *)
(* the commands in their order, as Protocol has it, and puts frames        *)
(* between the answers.                                                    *)
(***************************************************************************)
EXTENDS HostPort

CONSTANTS REPLY,     \* CMD_REPLY
          Payload,   \* bound: the values in a frame
          Command,   \* the requests of the user: op and id
          Readable,  \* the ids whose READ the device answers with the value
          Data,      \* bound: what the value can be
          MaxSize,   \* the size of a value that is accepted, at most
          Kept,      \* bound: how much of a reply the full ring may keep
          FirstSeq,  \* telemetry_sequence at first
          MaxFrames, \* bound: frames the device sends
          MaxRequests\* bound: requests of the user

ASSUME TransportAssumption ==
  /\ REPLY \in Byte \ {0, 1, Sync[1]} /\ FirstSeq \in Byte
  /\ Payload \subseteq Seq(Byte) /\ \A p \in Payload : Len(p) = PayloadSize
  /\ Command \subseteq [op : {"read", "write"}, id : 0..(Base * Base - 1)]
  /\ MaxSize \in Byte /\ Data \subseteq Seq(Byte) /\ \A d \in Data : Len(d) <= MaxSize
  /\ Kept \subseteq Nat /\ MaxFrames \in Nat /\ MaxRequests \in Nat

VARIABLES
  nextSeq,   \* the device's telemetry_sequence
  frames,    \* how many frames it sent
  owed,      \* the commands it has not answered
  pc,        \* "idle", or in request: "drain", "wait", "finish"
  command,   \* the command of the request
  response,  \* the bytes received since it was sent
  result,    \* what request returns
  requests,  \* how many there were
  \* The account of an exchange, of which the program knows nothing:
  own,       \* the device's last answer: in the end, that to the command
  cut,       \* it was cut
  late,      \* an answer to a command before was still to come
  torn,      \* a read ended inside a frame
  begun      \* the answers with a value, and where in response they begin

deviceVars == <<nextSeq, frames, owed, own, cut>>
requestVars == <<pc, command, response, result, requests>>
accountVars == <<late, torn, begun>>
vars == <<portVars, deviceVars, requestVars, accountVars>>

None == << >>
Nothing == [op |-> "none"]

-----------------------------------------------------------------------------
(* The answers, and finding them: _extract_status_reply and the rest of    *)
(* extract_reply_frame.                                                    *)

Status(ok) == <<REPLY, IF ok THEN 0 ELSE 1>>

Answers(c) ==
  IF c.op = "write" THEN {Status(TRUE), Status(FALSE)}
  ELSE IF c.id \notin Readable THEN {Status(FALSE)}
  ELSE {<<REPLY, c.id % Base, c.id \div Base, Len(d)>> \o d : d \in Data}

IsStatusAt(bytes, p) == /\ p < Len(bytes)
                        /\ bytes[p] = REPLY /\ bytes[p + 1] \in {0, 1}

Behind_OneByte(bytes, p) == p + 1

\* Where the search goes on behind a position.
Behind(bytes, p) == IF IsFrameAt(bytes, p) THEN p + FrameSize ELSE p + 1

StatusIn(bytes) ==
  LET found[p \in 1..(Len(bytes) + 1)] ==
        IF p >= Len(bytes) THEN None
        ELSE IF ~IsFrameAt(bytes, p) /\ IsStatusAt(bytes, p) THEN SubSeq(bytes, p, p + 1)
        ELSE found[Behind(bytes, p)]
  IN  found[1]

ObjectEnd(bytes, s) == s + 3 + bytes[s + 3]

\* Where something begins that could be the value of id.
ObjectStarts_AnyId(bytes, id) ==
  {s \in 1..(Len(bytes) - 3) :
     bytes[s] = REPLY /\ bytes[s + 3] <= MaxSize /\ ObjectEnd(bytes, s) <= Len(bytes)}
ObjectStarts_Short(bytes, id) ==
  {s \in 1..(Len(bytes) - 3) :
     /\ bytes[s] = REPLY /\ bytes[s + 1] + Base * bytes[s + 2] = id
     /\ bytes[s + 3] <= MaxSize /\ ObjectEnd(bytes, s) < Len(bytes)}
ObjectStarts(bytes, id) ==
  {s \in 1..(Len(bytes) - 3) :
     /\ bytes[s] = REPLY /\ bytes[s + 1] + Base * bytes[s + 2] = id
     /\ bytes[s + 3] <= MaxSize /\ ObjectEnd(bytes, s) <= Len(bytes)}

\* The longest of these, the first if there are several.
ObjectIn(bytes, id) ==
  LET Starts == ObjectStarts(bytes, id)
      longest == Max({bytes[s + 3] : s \in Starts})
      best == Min({s \in Starts : bytes[s + 3] = longest})
  IN  IF Starts = {} THEN None ELSE SubSeq(bytes, best, ObjectEnd(bytes, best))

Extract(bytes, c) == IF c.op = "write" THEN StatusIn(bytes) ELSE ObjectIn(bytes, c.id)

-----------------------------------------------------------------------------
Init ==
  /\ PortInit
  /\ nextSeq = FirstSeq /\ frames = 0 /\ owed = << >>
  /\ pc = "idle" /\ command = Nothing /\ response = << >> /\ result = None
  /\ requests = 0
  /\ own = None /\ cut = FALSE /\ late = FALSE /\ torn = FALSE /\ begun = {}

\* telemetry_capture puts whole frames into the ring, or none.
DeviceFrame ==
  /\ frames < MaxFrames
  /\ \E p \in Payload : Arrives("frame", Frame(nextSeq, p))
  /\ nextSeq' = (nextSeq + 1) % Base /\ frames' = frames + 1
  /\ UNCHANGED <<owed, own, cut, requestVars, accountVars>>

\* A reply may be cut where the ring is full.
DeviceAnswers ==
  /\ owed # << >>
  /\ \E answer \in Answers(Head(owed)) :
       /\ \/ Arrives("reply", answer) /\ cut' = FALSE
          \/ \E n \in Kept : /\ n < Len(answer)
                             /\ Arrives("cut", SubSeq(answer, 1, n))
                             /\ cut' = TRUE
       /\ own' = answer
  /\ owed' = Tail(owed)
  /\ UNCHANGED <<nextSeq, frames, requestVars, accountVars>>

-----------------------------------------------------------------------------
(* Between requests a plot, if there is one, reads the port. *)
Watch ==
  /\ pc = "idle"
  /\ \E part \in Parts : Some(part) /\ Advance(part)
  /\ UNCHANGED <<deviceVars, requestVars, accountVars>>

Request ==
  /\ pc = "idle" /\ requests < MaxRequests
  /\ command' \in Command
  /\ pc' = "drain" /\ requests' = requests + 1
  /\ UNCHANGED <<portVars, deviceVars, response, result, accountVars>>

\* drain_input_buffer reads what is waiting, and resets the port.
Drained == \E part \in Parts : Advance(part)

Send ==
  /\ pc = "drain"
  /\ Drained
  /\ owed' = Append(owed, command)
  /\ own' = None /\ cut' = FALSE
  /\ late' = (owed # << >> \/ \E i \in 1..Len(wire') : wire'[i].kind # "frame")
  /\ torn' = (split' /\ wire'[1].kind = "frame") /\ begun' = {}
  /\ pc' = "wait"
  /\ UNCHANGED <<nextSeq, frames, command, response, result, requests>>

\* The answers with a value that begin in this part.
Begun(part) ==
  {[at |-> Len(response \o Chunk([whole |-> i - 1, more |-> 0])) + 1, bytes |-> wire[i].bytes] :
     i \in {i \in 1..Len(wire) :
              /\ i <= part.whole \/ (i = part.whole + 1 /\ part.more > 0)
              /\ wire[i].kind = "reply" /\ Len(wire[i].bytes) > 2
              /\ i = 1 => ~split}}

Receive ==
  /\ pc = "wait"
  /\ \E part \in Parts :
       /\ Some(part) /\ Advance(part)
       /\ response' = response \o Chunk(part)
       /\ torn' = (torn \/ (part.more > 0 /\ wire[part.whole + 1].kind = "frame"))
       /\ begun' = begun \cup Begun(part)
  /\ result' = Extract(response', command)
  /\ pc' = IF result' = None THEN "wait" ELSE "finish"
  /\ UNCHANGED <<deviceVars, command, requests, late>>

Ended_KeepsResult == /\ pc' = "idle" /\ command' = Nothing
                     /\ UNCHANGED <<response, result, deviceVars, requests, late, torn, begun>>
Ended == /\ pc' = "idle" /\ command' = Nothing
         /\ response' = << >> /\ result' = None
         /\ UNCHANGED <<deviceVars, requests, late, torn, begun>>

\* A second has passed.  The answer may still come.
TimeOut == pc = "wait" /\ Ended /\ UNCHANGED portVars

Finish == pc = "finish" /\ Drained /\ Ended

Next == \/ DeviceFrame \/ DeviceAnswers
        \/ Watch \/ Request \/ Send \/ Receive \/ TimeOut \/ Finish

Spec == Init /\ [][Next]_vars

-----------------------------------------------------------------------------
(* Properties. *)

TypeOK ==
  /\ PortTypeOK
  /\ nextSeq \in Byte /\ frames \in 0..MaxFrames /\ requests \in 0..MaxRequests
  /\ Len(owed) <= MaxRequests
  /\ pc \in {"idle", "drain", "wait", "finish"}
  /\ response \in Seq(Byte)
  /\ pc = "wait" => Extract(response, command) = None
  /\ (pc = "finish") = (result # None)

\* A WRITE returns the device's answer to it and no other, frames or not and
\* whatever is in these, if no read ended inside one of them; provided that no
\* answer from before was still to come and that this one is whole.
OwnAnswer ==
  (pc = "finish" /\ command.op = "write" /\ ~late /\ ~cut /\ ~torn) => result = own

\* Bytes look like the value that is asked for, and are not the beginning of any
\* answer with a value: they are in a frame, inside an answer, or the beginning
\* of one that was cut, with something else behind.
Lookalike ==
  \E s \in ObjectStarts(response, command.id) : \A b \in begun : b.at # s

\* Where nothing looks like the value that is none, a READ returns an answer to a
\* READ of that id, of all those that late answers, cut ones and frames bring in
\* any parts, and its own if nothing from before was still to come.
ValueOfId ==
  (pc = "finish" /\ command.op = "read" /\ ~Lookalike)
    => result \in Answers(command) /\ (~late => result = own)

\* A READ that the device answered whole with a value does not wait any more when
\* all that came is read: the answer is found, whatever is before and behind it.
AnswerSeen ==
  (pc = "wait" /\ command.op = "read" /\ command.id \in Readable)
    => owed # << >> \/ wire # << >> \/ cut

\* transport.py: skipping complete frames prevents that any of their bytes are
\* taken for the answer to a WRITE.
AckIsReal ==
  (pc = "finish" /\ ~late /\ ~cut /\ command.op = "write") => result = own
=============================================================================
