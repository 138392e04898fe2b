------------------------------- MODULE UsbCdc -------------------------------
(***************************************************************************)
(* The transmit half of the USB CDC link: the ring that tasks fill with    *)
(* usb_cdc_tx_send, the bulk IN endpoint 3 that the USB interrupt refills  *)
(* from the ring, task_usb_cdc, which starts the endpoint, and the control *)
(* endpoint 0, whose state decides whether task_usb_cdc may.               *)
(*                                                                         *)
(* One core runs the tasks, one after the other, and the USB interrupt     *)
(* preempts them between any two of the steps below.  An interrupt handler *)
(* is one step.  Writers do not wait: a task that queues a message does so *)
(* byte by byte, and the interrupt may drain the ring under it.            *)
(*                                                                         *)
(* X_Suffix is a faulty variant of the definition X that follows it, kept  *)
(* to show which property notices the fault.                               *)
(***************************************************************************)
EXTENDS Integers, Sequences

CONSTANTS Byte,       \* what a byte of the stream can be
          N,          \* USB_CDC_TX_RING_SIZE
          Packet,     \* USBFS_PACKET_SIZE
          Frame,      \* the bytes of a telemetry frame, all different
          Replies,    \* what replies and log lines can be, as byte sequences
          DescPackets,\* bound: packets of the longest descriptor
          MaxControl, \* bound: control transfers the host starts on its own
          MaxReset    \* bound: bus resets

ASSUME NAssumption == N \in Nat /\ N >= 2
ASSUME PacketAssumption == Packet \in Nat \ {0}
ASSUME MessageAssumption == /\ Byte # {}
                            /\ Frame \in Seq(Byte)
                            /\ \A m \in Replies : m \in Seq(Byte)
ASSUME BoundAssumption == /\ DescPackets \in Nat \ {0}
                          /\ MaxControl \in Nat
                          /\ MaxReset \in Nat

VARIABLES
  txRing, txHead, txTail,   \* usb_cdc_tx_ring, _head, _tail
  armed,       \* endpoint 3 answers an IN token with ACK (else NAK)
  epLen,       \* UEP_CTRL_LEN(3)
  epBuf,       \* the bytes last copied into endpoints[3].in
  epTog,       \* the data toggle of endpoint 3
  busy,        \* endpoints[3].busy
  setupReqLen, \* USBFS_SetupReqLen, counted in packets
  setupReqIn,  \* the last SETUP asked for data from the device
  errata,      \* USBFS_errata_dont_send_endpoint_in_window
  irq,         \* the event whose interrupt flag is set, or "none"
  irqMasked,   \* NVIC_DisableIRQ(USB_IRQn) is in force
  pc,          \* what the running task does next, "idle" between tasks
  msg,         \* the bytes usb_cdc_tx_send has still to queue
  hostTog,     \* the data toggle the host expects on endpoint 3
  received,    \* the last packet the host accepted
  hostCtl,     \* the stage of the host's control transfer
  configured,  \* the host has configured the device and polls endpoint 3
  controlLeft, resetLeft  \* what is left of the bounds

ringVars == <<txRing, txHead, txTail>>
epVars   == <<armed, epLen, epBuf, epTog, busy>>
ctlVars  == <<setupReqLen, setupReqIn, errata>>
taskVars == <<pc, msg>>
hostVars == <<hostTog, received, hostCtl, configured, controlLeft, resetLeft>>
vars == <<ringVars, epVars, ctlVars, irq, irqMasked, taskVars, hostVars>>

Slot == 0..(N - 1)
Setups == {"set_line_coding", "set_line_state", "get_line_coding",
           "get_descriptor", "refused", "set_configuration"}
Stages == {"idle", "data_out", "status_in", "config_in", "data_in", "status_out",
           "refused"}
Events == Setups \cup {"none", "in3", "in0", "out0", "bus_reset"}
Steps == {"idle", "tx_check", "tx_store", "tx_publish",
          "send_check", "send_mask", "send_arm", "send_unmask"}

-----------------------------------------------------------------------------
(* The ring. *)

\* (i + 1) & (USB_CDC_TX_RING_SIZE - 1)
Inc(i) == IF i + 1 = N THEN 0 ELSE i + 1

\* usb_cdc_tx_pending: (head - tail) & (USB_CDC_TX_RING_SIZE - 1)
Pending == IF txHead >= txTail THEN txHead - txTail ELSE txHead - txTail + N

\* the full test of usb_cdc_tx_send
Full_Never == FALSE
Full == Inc(txHead) = txTail

\* usb_cdc_tx_free: one slot stays empty
Free_OffByOne == N - Pending
Free == (N - 1) - Pending

\* the slot i places after the tail
SlotOf(i) == IF txTail + i < N THEN txTail + i ELSE txTail + i - N

\* the bytes between tail and head, oldest first
Content == [i \in 1..Pending |-> txRing[SlotOf(i - 1)]]

\* how many bytes HandleInRequest moves
Chunk_Uncapped == Pending
Chunk == IF Pending <= Packet THEN Pending ELSE Packet

-----------------------------------------------------------------------------
(* USBFS_InternalFinishSetup from USBFSSetup, and the static initialisers. *)

Init ==
  /\ txRing = [s \in Slot |-> CHOOSE b \in Byte : TRUE]
  /\ txHead = 0 /\ txTail = 0
  /\ armed = FALSE /\ epLen = 0 /\ epBuf = << >> /\ epTog = 0 /\ busy = FALSE
  /\ setupReqLen = 0 /\ setupReqIn = FALSE /\ errata = FALSE
  /\ irq = "none" /\ irqMasked = FALSE
  /\ pc = "idle" /\ msg = << >>
  /\ hostTog = 0 /\ received = << >> /\ hostCtl = "idle" /\ configured = FALSE
  /\ controlLeft = MaxControl /\ resetLeft = MaxReset

\* A task step runs only when no interrupt is waiting to be taken.
TaskRuns == irq = "none" \/ irqMasked

-----------------------------------------------------------------------------
(* Writers: telemetry_capture, the protocol's replies and log lines.  All  *)
(* run in task context and end in usb_cdc_tx_send.                         *)

\* telemetry_capture queues nothing unless the whole frame fits.  (Its frame
\* number and its count of dropped frames are not state of the link.)
TelemetryCapture ==
  /\ TaskRuns /\ pc = "idle"
  /\ Free >= Len(Frame)
  /\ pc' = "tx_check" /\ msg' = Frame
  /\ UNCHANGED <<ringVars, epVars, ctlVars, irq, irqMasked, hostVars>>

\* protocol_send_frame and protocol_log_write do not ask whether it fits.
SendReply(m) ==
  /\ TaskRuns /\ pc = "idle"
  /\ pc' = "tx_check" /\ msg' = m
  /\ UNCHANGED <<ringVars, epVars, ctlVars, irq, irqMasked, hostVars>>

\* usb_cdc_tx_send, the loop test and the full test: the tail is read here.
TxCheck ==
  /\ TaskRuns /\ pc = "tx_check"
  /\ IF msg # << >> /\ ~Full
       THEN pc' = "tx_store" /\ UNCHANGED msg
       ELSE pc' = "idle" /\ msg' = << >>
  /\ UNCHANGED <<ringVars, epVars, ctlVars, irq, irqMasked, hostVars>>

TxStore ==
  /\ TaskRuns /\ pc = "tx_store"
  /\ txRing' = [txRing EXCEPT ![txHead] = Head(msg)]
  /\ pc' = "tx_publish"
  /\ UNCHANGED <<txHead, txTail, epVars, ctlVars, irq, irqMasked, msg, hostVars>>

TxPublish ==
  /\ TaskRuns /\ pc = "tx_publish"
  /\ txHead' = Inc(txHead)
  /\ msg' = Tail(msg)
  /\ pc' = "tx_check"
  /\ UNCHANGED <<txRing, txTail, epVars, ctlVars, irq, irqMasked, hostVars>>

-----------------------------------------------------------------------------
(* task_usb_cdc and USBFS_SendEndpoint(3, 0).  protocol_bridge_poll, which *)
(* the task calls next, reaches this module only through SendReply.        *)

TaskUsbCdc ==
  /\ TaskRuns /\ pc = "idle"
  /\ Pending > 0
  /\ pc' = "send_check"
  /\ UNCHANGED <<ringVars, epVars, ctlVars, irq, irqMasked, msg, hostVars>>

\* The early returns -1 and -2, tested with the interrupt still enabled.
\* (-3, a SETUP being processed, cannot be seen: its interrupt runs first.)
SendCheck ==
  /\ TaskRuns /\ pc = "send_check"
  /\ pc' = IF errata \/ busy \/ setupReqLen > 0 THEN "idle" ELSE "send_mask"
  /\ UNCHANGED <<ringVars, epVars, ctlVars, irq, irqMasked, msg, hostVars>>

SendMask ==
  /\ TaskRuns /\ pc = "send_mask"
  /\ irqMasked' = TRUE
  /\ pc' = "send_arm"
  /\ UNCHANGED <<ringVars, epVars, ctlVars, irq, msg, hostVars>>

SendArm ==
  /\ pc = "send_arm"
  /\ epLen' = 0
  /\ armed' = TRUE
  /\ busy' = TRUE
  /\ pc' = "send_unmask"
  /\ UNCHANGED <<ringVars, epBuf, epTog, ctlVars, irq, irqMasked, msg, hostVars>>

SendUnmask ==
  /\ pc = "send_unmask"
  /\ irqMasked' = FALSE
  /\ pc' = "idle"
  /\ UNCHANGED <<ringVars, epVars, ctlVars, irq, msg, hostVars>>

-----------------------------------------------------------------------------
(* USBFS_IRQHandler, one step for each event. *)

Handle(event) == /\ irq = event /\ ~irqMasked
                 /\ irq' = "none"
                 /\ UNCHANGED <<irqMasked, taskVars, hostVars>>

\* UEP_CTRL_TX(3) ^= USBFS_UEP_T_TOG
Toggle_Missing(t) == t
Toggle(t) == 1 - t

\* IN on endpoint 3 was acknowledged: HandleInRequest moves the next bytes
\* into the endpoint buffer; the handler stages them, or NAKs if none came.
IrqIn3 ==
  /\ Handle("in3")
  /\ epTog' = Toggle(epTog)
  /\ busy' = FALSE
  /\ IF Chunk > 0
       THEN /\ epBuf' = SubSeq(Content, 1, Chunk)
            /\ txTail' = SlotOf(Chunk)
            /\ epLen' = Chunk
            /\ armed' = TRUE
       ELSE /\ armed' = FALSE
            /\ UNCHANGED <<epBuf, txTail, epLen>>
  /\ UNCHANGED <<txRing, txHead, ctlVars>>

\* SETUP, all but SET_CONFIGURATION: what is left in USBFS_SetupReqLen.
\* The length of GET_LINE_CODING is sent, and subtracted, at once.  A request
\* the device does not support (a descriptor it does not have, a class or
\* vendor request it does not know) goes to sendstall with wLength stored.
IrqSetup ==
  \E event \in Setups \ {"set_configuration"} :
    /\ Handle(event)
    /\ setupReqIn' \in IF event = "refused" THEN BOOLEAN
                       ELSE {event \in {"get_line_coding", "get_descriptor"}}
    /\ CASE event = "set_line_coding" -> setupReqLen' = 1
         [] event = "get_descriptor" -> setupReqLen' \in 1..DescPackets
         [] event = "refused" -> setupReqLen' \in 0..DescPackets
         [] OTHER -> setupReqLen' = 0
    /\ UNCHANGED <<ringVars, epVars, errata>>

IrqSetConfiguration ==
  /\ Handle("set_configuration")
  /\ setupReqLen' = 0
  /\ setupReqIn' = FALSE
  /\ epTog' = 0
  /\ UNCHANGED <<ringVars, armed, epLen, epBuf, busy, errata>>

\* OUT on endpoint 0: HandleDataOut ends the request; the send window closes
\* only for a request whose data came from the host.
IrqOut0 ==
  /\ Handle("out0")
  /\ setupReqLen' = 0
  /\ errata' = (errata \/ ~setupReqIn)
  /\ UNCHANGED <<ringVars, epVars, setupReqIn>>

\* IN on endpoint 0: the next packet of a descriptor, or the status stage.
IrqIn0_KeepsErrata ==
  /\ Handle("in0")
  /\ setupReqLen' = IF setupReqLen > 0 THEN setupReqLen - 1 ELSE 0
  /\ UNCHANGED <<ringVars, epVars, setupReqIn, errata>>

IrqIn0 ==
  /\ Handle("in0")
  /\ errata' = FALSE
  /\ setupReqLen' = IF setupReqLen > 0 THEN setupReqLen - 1 ELSE 0
  /\ UNCHANGED <<ringVars, epVars, setupReqIn>>

\* USBFS_InternalFinishSetup: the endpoints start again; USBFS_SetupReqLen
\* and the errata flag keep their values.
IrqBusReset_KeepsBusy ==
  /\ Handle("bus_reset")
  /\ armed' = FALSE /\ epLen' = 0 /\ epBuf' = << >> /\ epTog' = 0
  /\ UNCHANGED <<ringVars, busy, ctlVars>>

IrqBusReset ==
  /\ Handle("bus_reset")
  /\ armed' = FALSE
  /\ epLen' = 0
  /\ epBuf' = << >>
  /\ epTog' = 0
  /\ busy' = FALSE
  /\ UNCHANGED <<ringVars, ctlVars>>

-----------------------------------------------------------------------------
(* The host and the USB engine.  The engine NAKs every token while an      *)
(* interrupt flag is set (USBFS_UC_INT_BUSY), so one event waits at most.  *)

deviceVars == <<ringVars, epVars, ctlVars, irqMasked, taskVars>>

\* The host polls endpoint 3.  It accepts the packet if the toggle is the
\* one it expects and discards it as a repetition otherwise.  Its handshake
\* may be lost: then the device sees no event and sends again.
HostPoll(handshakeLost) ==
  /\ configured /\ armed /\ irq = "none"
  /\ IF epTog = hostTog
       THEN received' = SubSeq(epBuf, 1, epLen) /\ hostTog' = 1 - hostTog
       ELSE UNCHANGED <<received, hostTog>>
  /\ irq' = IF handshakeLost THEN irq ELSE "in3"
  /\ UNCHANGED <<deviceVars, hostCtl, configured, controlLeft, resetLeft>>

FirstStage(setup) ==
  CASE setup = "set_line_coding" -> "data_out"
    [] setup = "set_line_state" -> "status_in"
    [] setup = "set_configuration" -> "config_in"
    [] setup = "refused" -> "refused"
    [] OTHER -> "data_in"

\* The host starts a control transfer, giving up the one in progress.
HostSetup(setup) ==
  /\ irq = "none"
  /\ IF setup = "set_configuration"
       THEN ~configured /\ hostCtl \in {"idle", "refused"}
            /\ hostTog' = 0 /\ UNCHANGED controlLeft
       ELSE controlLeft > 0 /\ controlLeft' = controlLeft - 1 /\ UNCHANGED hostTog
  /\ irq' = setup
  /\ hostCtl' = FirstStage(setup)
  /\ UNCHANGED <<deviceVars, received, configured, resetLeft>>

\* The host goes on with it, one transaction at a time.  It polls endpoint 3
\* once it has seen SET_CONFIGURATION through.  A refused request is over as
\* soon as it is answered with STALL: no interrupt comes of it.
HostControl ==
  /\ irq = "none"
  /\ \/ hostCtl = "data_out"   /\ irq' = "out0" /\ hostCtl' = "status_in"
     \/ hostCtl = "status_in"  /\ irq' = "in0"  /\ hostCtl' = "idle"
     \/ hostCtl = "config_in"  /\ irq' = "in0"  /\ hostCtl' = "idle"
     \/ hostCtl = "data_in"    /\ irq' = "in0"
        /\ hostCtl' = IF setupReqLen > 0 THEN "data_in" ELSE "status_out"
     \/ hostCtl = "status_out" /\ irq' = "out0" /\ hostCtl' = "idle"
  /\ configured' = (configured \/ hostCtl = "config_in")
  /\ UNCHANGED <<deviceVars, hostTog, received, controlLeft, resetLeft>>

\* Reset signalling lasts longer than any pending interrupt takes to run.
HostBusReset ==
  /\ irq = "none" /\ resetLeft > 0
  /\ resetLeft' = resetLeft - 1
  /\ irq' = "bus_reset"
  /\ hostTog' = 0
  /\ hostCtl' = "idle"
  /\ configured' = FALSE
  /\ UNCHANGED <<deviceVars, received, controlLeft>>

-----------------------------------------------------------------------------
Writer == TelemetryCapture \/ \E m \in Replies : SendReply(m)
TaskStep == TxCheck \/ TxStore \/ TxPublish
              \/ SendCheck \/ SendMask \/ SendArm \/ SendUnmask
Interrupt == IrqIn3 \/ IrqSetup \/ IrqSetConfiguration
               \/ IrqOut0 \/ IrqIn0 \/ IrqBusReset
Host == \/ \E lost \in BOOLEAN : HostPoll(lost)
        \/ \E setup \in Setups : HostSetup(setup)
        \/ HostControl
        \/ HostBusReset

Next == Writer \/ TaskUsbCdc \/ TaskStep \/ Interrupt \/ Host

Spec == Init /\ [][Next]_vars

(***************************************************************************)
(* The core executes: a waiting interrupt is taken, the running task goes  *)
(* on whenever interrupts leave it the core, and the scheduler calls       *)
(* task_usb_cdc again and again among the other tasks.  The host finishes  *)
(* the control transfer it started, configures a device that is not        *)
(* configured, and keeps polling; a handshake is not lost for ever.        *)
(***************************************************************************)
Fairness == /\ WF_vars(Interrupt)
            /\ SF_vars(TaskStep)
            /\ SF_vars(TaskUsbCdc)
            /\ SF_vars(HostPoll(FALSE))
            /\ SF_vars(HostControl)
            /\ SF_vars(HostSetup("set_configuration"))

FairSpec == Spec /\ Fairness

-----------------------------------------------------------------------------
(* Properties. *)

TypeOK ==
  /\ txRing \in [Slot -> Byte] /\ txHead \in Slot /\ txTail \in Slot
  /\ armed \in BOOLEAN /\ busy \in BOOLEAN
  /\ epBuf \in Seq(Byte) /\ Len(epBuf) <= Packet
  /\ epLen \in 0..Len(epBuf)
  /\ epTog \in {0, 1} /\ hostTog \in {0, 1}
  /\ setupReqLen \in 0..DescPackets
  /\ setupReqIn \in BOOLEAN /\ errata \in BOOLEAN
  /\ irq \in Events /\ irqMasked \in BOOLEAN
  /\ pc \in Steps /\ msg \in Seq(Byte)
  /\ received \in Seq(Byte)
  /\ hostCtl \in Stages /\ configured \in BOOLEAN
  /\ controlLeft \in 0..MaxControl /\ resetLeft \in 0..MaxReset

\* The staged bytes the host has not accepted yet.
Staged == IF armed /\ configured /\ hostTog = epTog
            THEN SubSeq(epBuf, 1, epLen) ELSE << >>

\* All that usb_cdc_tx_send accepted and the host has not.
Undelivered == Staged \o Content

Lossy == INSTANCE BytePipe WITH
  MayDrop <- TRUE, Capacity <- (N - 1) + Packet,
  pipe <- Undelivered, flip <- hostTog, resets <- MaxReset - resetLeft

Lossless == INSTANCE BytePipe WITH
  MayDrop <- FALSE, Capacity <- (N - 1) + Packet,
  pipe <- Undelivered, flip <- hostTog, resets <- MaxReset - resetLeft

\* Whatever the interleaving of the writers, the interrupt and the host, and
\* whatever handshakes are lost, the host receives a subsequence of the bytes
\* usb_cdc_tx_send accepted: none twice, none out of order, none made up from
\* a slot not yet stored.
InOrder == Lossy!Spec

\* usb_cdc_tx_send "queue[s] bytes for transmission over the USB CDC bulk
\* endpoint" and says how many it accepted: none of them is lost unless the
\* bus is reset.  (USBFS_SendEndpoint breaks this: it sets the length of an
\* endpoint the interrupt has already loaded to 0.)
NothingLost == Lossless!Spec

\* The only step at which an accepted byte is lost, other than a bus reset of
\* the host, is the write of UEP_CTRL_LEN in USBFS_SendEndpoint: the interrupt,
\* the data toggles, lost handshakes and the control transfers lose nothing,
\* SET_CONFIGURATION and a refused request included.
LostOnlyByArm ==
  [][Lossless!Next \/ (pc = "send_arm" /\ pc' = "send_unmask" /\ Lossy!Next)]_(Lossless!vars)

\* telemetry_capture: the queue never holds part of a frame, except that the
\* host may have taken the first bytes and the task may be queuing the last.
FramesWhole ==
  \A i \in 1..Pending, k \in 1..Len(Frame) :
    Content[i] = Frame[k] =>
      /\ k < Len(Frame) =>
           IF i < Pending THEN Content[i + 1] = Frame[k + 1]
           ELSE pc \in {"tx_check", "tx_store", "tx_publish"} /\ msg # << >>
                /\ Head(msg) = Frame[k + 1]
      /\ k > 1 /\ i > 1 => Content[i - 1] = Frame[k - 1]

\* A busy endpoint always has a packet to give the host, so the interrupt
\* that clears busy can still come: otherwise USBFS_SendEndpoint would
\* answer -1 for ever.
BusyEnds == busy => armed

\* The host's last request was refused, and USBFS_SendEndpoint is still barred:
\* by the length of that request, or by the send window of one the host gave
\* up for it.  No transfer is left to end either.
Refused == hostCtl = "refused" /\ (setupReqLen > 0 \/ errata)

\* The ring is emptied again and again, or the interrupt goes on taking bytes
\* from it: no byte waits for ever behind a tail that has stopped.
Moves == []<>(Pending = 0) \/ []<><<txTail' # txTail>>_txTail

\* Queued bytes move on, unless the host is refused a request and from then on
\* makes no other.  (Until it does, USBFS_SendEndpoint answers -2 or -1.)
QueueDrains == Moves \/ <>[]Refused

\* task_usb_cdc is to "flush any queued transmit data when the host is ready
\* to receive the next bulk packet": it does so whatever the host asked of the
\* control endpoint before.  (A refused request breaks this.)
Flushes == Moves
=============================================================================
