----------------------------- MODULE Telemetry ------------------------------
(***************************************************************************)
(* The live plot of the host: TelemetryDecoder finds the frames among the  *)
(* bytes of the port, LiveTelemetryPlot places them on its time axis and   *)
(* counts the ones it missed.                                              *)
(***************************************************************************)
EXTENDS HostPort

CONSTANTS Payload,   \* bound: the values in a frame
          Others,    \* bound: what else the device may send
          FirstSeq,  \* telemetry_sequence when the plot is opened
          Window,    \* max_samples
          MaxFrames, \* bound: frames the device sends
          MaxOthers  \* bound: other messages

ASSUME TelemetryAssumption ==
  /\ Payload \subseteq Seq(Byte) /\ \A p \in Payload : Len(p) = PayloadSize
  /\ Others \subseteq Seq(Byte)
  /\ FirstSeq \in Byte /\ Window \in Nat /\ Window >= 2
  /\ MaxFrames \in Nat /\ MaxOthers \in Nat

VARIABLES
  nextSeq,   \* the device's telemetry_sequence
  held,      \* TelemetryDecoder._buffer
  last,      \* LiveTelemetryPlot._last_sequence, NoFrame at first
  number,    \* _sample_number
  missing,   \* _missing
  samples,   \* _samples: the place of each sample on the time axis
  paused,
  \* An account of what was sent and read, of which the program knows nothing:
  sent,      \* the frames the device sent
  others,    \* how many other messages it sent
  fed,       \* the last bytes the decoder got, where a frame may have begun
  expected,  \* the frames in all it got
  decoded    \* the frames it found, and whether they were shown

plotVars == <<held, last, number, missing, samples, fed, expected, decoded>>
vars == <<portVars, nextSeq, plotVars, paused, sent, others>>

NoFrame == -1

Init ==
  /\ PortInit
  /\ nextSeq = FirstSeq
  /\ held = << >> /\ last = NoFrame /\ number = 0 /\ missing = 0 /\ samples = << >>
  /\ paused = FALSE
  /\ sent = << >> /\ others = 0 /\ fed = << >> /\ expected = << >> /\ decoded = << >>

-----------------------------------------------------------------------------
(* The device. *)

\* telemetry_capture puts whole frames into the ring, or none.
DeviceFrame ==
  /\ Len(sent) < MaxFrames
  /\ \E p \in Payload : /\ Arrives("frame", Frame(nextSeq, p))
                        /\ sent' = Append(sent, Frame(nextSeq, p))
  /\ nextSeq' = (nextSeq + 1) % Base
  /\ UNCHANGED <<plotVars, paused, others>>

\* Replies and lines of the log, which the full ring may have cut.
DeviceOther ==
  /\ others < MaxOthers
  /\ \E bytes \in Others : Arrives("other", bytes)
  /\ others' = others + 1
  /\ UNCHANGED <<nextSeq, plotVars, paused, sent>>

-----------------------------------------------------------------------------
(* TelemetryDecoder.feed: the frames in the buffer, and what is kept of it. *)

Rest_Nothing(buffer, p) == << >>

\* Without a sync word from p on, one byte is kept: it may be the first half of
\* one.
Rest(buffer, p) == From(buffer, Max({p, Len(buffer)}))

\* The frame at s.
FrameAt(buffer, s) == SubSeq(buffer, s, s + FrameSize - 1)

\* found[p] is for what is left when p - 1 bytes have been deleted.
Scan(buffer) ==
  LET found[p \in 1..(Len(buffer) + 1)] ==
        LET Starts == {q \in p..(Len(buffer) - 1) : SubSeq(buffer, q, q + 1) = Sync}
            s == Min(Starts)
            rest == found[s + FrameSize]
        IN  IF Starts = {} THEN [frames |-> << >>, held |-> Rest(buffer, p)]
            ELSE IF s + FrameSize - 1 > Len(buffer)
              THEN [frames |-> << >>, held |-> From(buffer, s)]
            ELSE IF ~IsFrameAt(buffer, s) THEN found[s + 1]
            ELSE [frames |-> <<FrameAt(buffer, s)>> \o rest.frames, held |-> rest.held]
  IN  found[1]

Number(frame) == frame[3]

-----------------------------------------------------------------------------
(* LiveTelemetryPlot.feed and discard, for one frame. *)

Plot == [last |-> last, number |-> number, missing |-> missing, samples |-> samples]

Newest_Unbounded(s) == s
Newest(s) == IF Len(s) > Window THEN Tail(s) ELSE s

Shown(plot, frame) ==
  LET gap == (Number(frame) - plot.last) % Base
      place == IF plot.last = NoFrame THEN plot.number ELSE plot.number + gap
  IN  IF plot.last # NoFrame /\ gap = 0 THEN plot
      ELSE [last |-> Number(frame),
            number |-> place + 1,
            missing |-> IF plot.last = NoFrame THEN plot.missing ELSE plot.missing + gap - 1,
            samples |-> Newest(Append(plot.samples, place))]

Discarded_KeepsLast(plot, frame) == plot
Discarded(plot, frame) == [plot EXCEPT !.last = Number(frame)]

\* The plot after frames.
Plotted(frames) ==
  LET after[i \in 0..Len(frames)] ==
        IF i = 0 THEN Plot
        ELSE IF paused THEN Discarded(after[i - 1], frames[i])
        ELSE Shown(after[i - 1], frames[i])
  IN  after[Len(frames)]

\* For the account: the frames of a stream, namely wherever one is whole and
\* valid and does not begin inside the one before it; and the place behind the
\* last one.
AllFrames(stream) ==
  LET upto[p \in 0..Len(stream)] ==
        LET before == upto[p - 1]
        IN  IF p = 0 THEN [frames |-> << >>, behind |-> 1]
            ELSE IF p >= before.behind /\ IsFrameAt(stream, p)
              THEN [frames |-> Append(before.frames, FrameAt(stream, p)),
                    behind |-> p + FrameSize]
            ELSE before
  IN  upto[Len(stream)]

Feed(chunk) ==
  LET scan == Scan(held \o chunk)
      plot == Plotted(scan.frames)
      stream == fed \o chunk
      all == AllFrames(stream)
  IN  /\ held' = scan.held
      /\ last' = plot.last /\ number' = plot.number
      /\ missing' = plot.missing /\ samples' = plot.samples
      /\ fed' = From(stream, Max({1, Len(stream) - FrameSize + 2, all.behind}))
      /\ expected' = expected \o all.frames
      /\ decoded' = decoded \o [i \in 1..Len(scan.frames) |->
                                  [frame |-> scan.frames[i], live |-> ~paused]]

-----------------------------------------------------------------------------
\* The console, or request and drain_input_buffer, hand what they read on.
Read ==
  /\ \E part \in Parts : Some(part) /\ Advance(part) /\ Feed(Chunk(part))
  /\ UNCHANGED <<nextSeq, paused, sent, others>>

\* reset_input_buffer drops what came since, and list_params hands on nothing.
Overlook ==
  /\ \E part \in Parts : Some(part) /\ Advance(part)
  /\ UNCHANGED <<nextSeq, plotVars, paused, sent, others>>

PauseOrResume ==
  /\ paused' = ~paused
  /\ UNCHANGED <<portVars, nextSeq, plotVars, sent, others>>

Next == DeviceFrame \/ DeviceOther \/ Read \/ Overlook \/ PauseOrResume

Spec == Init /\ [][Next]_vars

-----------------------------------------------------------------------------
(* Properties. *)

TypeOK ==
  /\ PortTypeOK
  /\ nextSeq \in Byte
  /\ held \in Seq(Byte) /\ Len(held) < FrameSize
  /\ last \in Byte \cup {NoFrame} /\ number \in Nat /\ missing \in Nat
  /\ Len(samples) <= Window /\ \A i \in 1..Len(samples) : samples[i] < number
  /\ paused \in BOOLEAN

\* However the bytes are cut up on their way, the decoder finds the frames it
\* would find in all of them at once.
Decodes == [i \in 1..Len(decoded) |-> decoded[i].frame] = expected

\* The frames found are the ones the device sent at these places, in order and
\* less than a round of the number apart.  (What looks like a frame may be made
\* of the parts of two messages.)
Genuine(place) == \A i \in 1..Len(decoded) :
                    /\ sent[place[i]] = decoded[i].frame
                    /\ i > 1 => place[i] - place[i - 1] \in 1..(Base - 1)

\* The frames sent between one that is shown and the one found before it are
\* counted as missing, whatever was overlooked; those up to one that came during
\* a pause are not.
Accounted ==
  \A place \in [1..Len(decoded) -> 1..Len(sent)] :
    LET between[i \in 0..Len(decoded)] ==
          IF i = 0 THEN 0
          ELSE between[i - 1] + (IF i > 1 /\ decoded[i].live THEN place[i] - place[i - 1] - 1
                                                             ELSE 0)
    IN  Genuine(place) => missing = between[Len(decoded)]
=============================================================================
