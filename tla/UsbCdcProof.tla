---------------------------- MODULE UsbCdcProof ----------------------------
(***************************************************************************)
(* Proofs about UsbCdc, for every ring size, packet size and set of        *)
(* messages: its type invariant, that a busy endpoint is always armed, and *)
(* that it implements the byte pipe that loses nothing but what the write  *)
(* of the endpoint length discards.                                        *)
(***************************************************************************)
EXTENDS UsbCdc, SequenceTheorems, TLAPS

USE DEF ringVars, epVars, ctlVars, taskVars, hostVars, deviceVars, vars

-----------------------------------------------------------------------------
(* The ring. *)

LEMMA RingArithmetic ==
  ASSUME txHead \in Slot, txTail \in Slot
  PROVE  /\ Pending \in 0..(N - 1)
         /\ Inc(txHead) \in Slot
         /\ Chunk \in 0..Pending /\ Chunk <= Packet
         /\ \A i \in 0..Pending : SlotOf(i) \in Slot
         /\ SlotOf(Pending) = txHead
         /\ \A i \in 0..(Pending - 1) : SlotOf(i) # txHead
  BY NAssumption, PacketAssumption, SMTT(30) DEF Slot, Pending, Inc, Chunk, SlotOf

LEMMA ContentType ==
  ASSUME txRing \in [Slot -> Byte], txHead \in Slot, txTail \in Slot
  PROVE  /\ Content \in Seq(Byte)
         /\ Len(Content) = Pending
         /\ \A i \in 1..Pending : Content[i] = txRing[SlotOf(i - 1)]
<1>1. Pending \in Nat
  BY RingArithmetic, NAssumption
<1>2. \A i \in 1..Pending : txRing[SlotOf(i - 1)] \in Byte
  BY <1>1, RingArithmetic
<1>3. Content \in [1..Pending -> Byte]
  BY <1>2 DEF Content
<1> QED
  BY <1>1, <1>3, LenProperties, SMT DEF Content

-----------------------------------------------------------------------------
(* Types. *)

\* usb_cdc_tx_send stores only while something is left to store.
Storing == pc \in {"tx_store", "tx_publish"} => msg # << >>

TypeInv == TypeOK /\ Storing

LEMMA InitType == Init => TypeInv
<1> SUFFICES ASSUME Init PROVE TypeInv
  OBVIOUS
<1>1. (CHOOSE b \in Byte : TRUE) \in Byte
  BY MessageAssumption
<1>2. << >> \in Seq(Byte) /\ Len(<< >>) = 0
  BY EmptySeq
<1>3. txRing \in [Slot -> Byte] /\ txHead \in Slot /\ txTail \in Slot
  <2>1. txRing \in [Slot -> Byte]
    BY <1>1, Zenon DEF Init
  <2>2. txHead = 0 /\ txTail = 0
    BY DEF Init
  <2>3. 0 \in Slot
    BY NAssumption DEF Slot
  <2> QED
    BY <2>1, <2>2, <2>3
<1>4. /\ epBuf \in Seq(Byte) /\ Len(epBuf) <= Packet /\ epLen \in 0..Len(epBuf)
      /\ msg \in Seq(Byte) /\ received \in Seq(Byte)
  BY <1>2, PacketAssumption DEF Init
<1>5. setupReqLen \in 0..DescPackets /\ controlLeft \in 0..MaxControl
      /\ resetLeft \in 0..MaxReset
  BY BoundAssumption DEF Init
<1>6. irq \in Events /\ pc \in Steps /\ hostCtl \in Stages /\ Storing
  BY DEF Init, Events, Steps, Stages, Storing
<1> QED
  BY <1>3, <1>4, <1>5, <1>6 DEF Init, TypeInv, TypeOK

LEMMA NextType == TypeInv /\ [Next]_vars => TypeInv'
<1> SUFFICES ASSUME TypeInv, [Next]_vars PROVE TypeInv'
  OBVIOUS
<1> USE NAssumption, PacketAssumption, BoundAssumption DEF TypeInv, Storing
<1>1. CASE TelemetryCapture
  BY <1>1, MessageAssumption DEF TelemetryCapture, TypeOK, Steps
<1>2. ASSUME NEW m \in Replies, SendReply(m) PROVE TypeInv'
  BY <1>2, MessageAssumption DEF SendReply, TypeOK, Steps
<1>3. CASE TxCheck
  BY <1>3, EmptySeq DEF TxCheck, TypeOK, Steps
<1>4. CASE TxStore
  <2>1. Head(msg) \in Byte
    BY <1>4, HeadTailProperties DEF TxStore, TypeOK
  <2> QED
    BY <1>4, <2>1 DEF TxStore, TypeOK, Steps
<1>5. CASE TxPublish
  <2>1. Tail(msg) \in Seq(Byte)
    BY <1>5, HeadTailProperties DEF TxPublish, TypeOK
  <2> QED
    BY <1>5, <2>1, RingArithmetic DEF TxPublish, TypeOK, Steps
<1>6. CASE TaskUsbCdc
  BY <1>6 DEF TaskUsbCdc, TypeOK, Steps
<1>7. CASE SendCheck
  BY <1>7 DEF SendCheck, TypeOK, Steps
<1>8. CASE SendMask
  BY <1>8 DEF SendMask, TypeOK, Steps
<1>9. CASE SendArm
  BY <1>9, LenProperties DEF SendArm, TypeOK, Steps
<1>10. CASE SendUnmask
  BY <1>10 DEF SendUnmask, TypeOK, Steps
<1>11. CASE IrqIn3
  <2>1. Pending \in 0..(N - 1) /\ Chunk \in 0..Pending /\ Chunk <= Packet
        /\ SlotOf(Chunk) \in Slot
    BY RingArithmetic DEF TypeOK
  <2>2. /\ SubSeq(Content, 1, Chunk) \in Seq(Byte)
        /\ Chunk > 0 => Len(SubSeq(Content, 1, Chunk)) = Chunk
    <3>1. Content \in Seq(Byte) /\ Len(Content) = Pending
      BY ContentType DEF TypeOK
    <3>2. \A i \in 1..Chunk : Content[i] \in Byte
      BY <2>1, <3>1, ElementOfSeq
    <3> QED
      BY <2>1, <3>2, SubSeqProperties
  <2>3. epTog' \in {0, 1} /\ irq' \in Events
    BY <1>11 DEF IrqIn3, Handle, Toggle, TypeOK, Events
  <2>4. /\ epBuf' \in Seq(Byte) /\ Len(epBuf') <= Packet
        /\ epLen' \in 0..Len(epBuf') /\ txTail' \in Slot /\ armed' \in BOOLEAN
    <3>1. CASE Chunk > 0
      BY <1>11, <2>1, <2>2, <3>1 DEF IrqIn3
    <3>2. CASE ~(Chunk > 0)
      BY <1>11, <3>2 DEF IrqIn3, TypeOK
    <3> QED
      BY <3>1, <3>2
  <2> QED
    BY <1>11, <2>3, <2>4 DEF IrqIn3, Handle, TypeOK
<1>12. CASE IrqSetup
  BY <1>12 DEF IrqSetup, Handle, TypeOK, Setups, Events
<1>13. CASE IrqSetConfiguration
  <2>1. setupReqLen' \in 0..DescPackets /\ irq' \in Events /\ epTog' \in {0, 1}
    BY <1>13 DEF IrqSetConfiguration, Handle, Events
  <2> QED
    BY <1>13, <2>1 DEF IrqSetConfiguration, Handle, TypeOK
<1>14. CASE IrqOut0
  BY <1>14 DEF IrqOut0, Handle, TypeOK, Events
<1>15. CASE IrqIn0
  <2>1. setupReqLen' \in 0..DescPackets /\ irq' \in Events
    BY <1>15 DEF IrqIn0, Handle, TypeOK, Events
  <2> QED
    BY <1>15, <2>1 DEF IrqIn0, Handle, TypeOK
<1>16. CASE IrqBusReset
  <2>1. epBuf' \in Seq(Byte) /\ Len(epBuf') <= Packet /\ epLen' \in 0..Len(epBuf')
    BY <1>16, EmptySeq DEF IrqBusReset
  <2>2. irq' \in Events /\ epTog' \in {0, 1}
    BY <1>16 DEF IrqBusReset, Handle, Events
  <2> QED
    BY <1>16, <2>1, <2>2 DEF IrqBusReset, Handle, TypeOK
<1>17. ASSUME NEW lost \in BOOLEAN, HostPoll(lost) PROVE TypeInv'
  <2>1. SubSeq(epBuf, 1, epLen) \in Seq(Byte)
    <3>1. \A i \in 1..epLen : epBuf[i] \in Byte
      BY ElementOfSeq, LenProperties DEF TypeOK
    <3> QED
      BY <3>1, LenProperties, SubSeqProperties DEF TypeOK
  <2> QED
    BY <1>17, <2>1 DEF HostPoll, TypeOK, Events
<1>18. ASSUME NEW setup \in Setups, HostSetup(setup) PROVE TypeInv'
  BY <1>18, SMTT(30) DEF HostSetup, FirstStage, TypeOK, Setups, Events, Stages
<1>19. CASE HostControl
  BY <1>19 DEF HostControl, TypeOK, Events, Stages
<1>20. CASE HostBusReset
  <2>1. irq' \in Events /\ hostCtl' \in Stages /\ hostTog' \in {0, 1}
        /\ resetLeft' \in 0..MaxReset
    BY <1>20 DEF HostBusReset, TypeOK, Events, Stages
  <2> QED
    BY <1>20, <2>1 DEF HostBusReset, TypeOK
<1>21. CASE UNCHANGED vars
  BY <1>21 DEF TypeOK
<1> QED
  BY <1>1, <1>2, <1>3, <1>4, <1>5, <1>6, <1>7, <1>8, <1>9, <1>10, <1>11, <1>12,
     <1>13, <1>14, <1>15, <1>16, <1>17, <1>18, <1>19, <1>20, <1>21
     DEF Next, Writer, TaskStep, Interrupt, Host

\* Every variable of the link keeps its type: in particular the ring indices
\* stay inside the ring and the endpoint length inside the bytes copied.
THEOREM TypeCorrect == Spec => []TypeOK
<1>1. TypeInv => TypeOK
  BY DEF TypeInv
<1> QED
  BY <1>1, InitType, NextType, PTL DEF Spec

-----------------------------------------------------------------------------
(* A busy endpoint is armed: both are set by SendArm, and whatever takes   *)
(* the packet away clears busy with it.                                    *)

\* USBFS_SendEndpoint never finds an endpoint that is busy and NAKs, which
\* no interrupt would release.
THEOREM BusyEndsCorrect == Spec => []BusyEnds
<1>1. Init => BusyEnds
  BY DEF Init, BusyEnds
<1>2. BusyEnds /\ [Next]_vars => BusyEnds'
  BY DEF BusyEnds, Next, Writer, TelemetryCapture, SendReply, TaskUsbCdc, TaskStep,
         TxCheck, TxStore, TxPublish, SendCheck, SendMask, SendArm, SendUnmask,
         Interrupt, Handle, IrqIn3, IrqSetup, IrqSetConfiguration, IrqOut0, IrqIn0,
         IrqBusReset, Host, HostPoll, HostSetup, HostControl, HostBusReset
<1> QED
  BY <1>1, <1>2, PTL DEF Spec

-----------------------------------------------------------------------------
(* The link implements the byte pipe. *)

\* usb_cdc_tx_send fills a free slot, and the slot is filled before the head
\* says so.
SlotReady == /\ pc \in {"tx_store", "tx_publish"} => ~Full
             /\ pc = "tx_publish" => txRing[txHead] = Head(msg)

\* The interrupt runs only for a packet the host took.
TakenOnce == irq = "in3" => configured /\ hostTog # epTog

\* Nothing is staged until the host has configured the device, and the two
\* sides then start from the same toggle.
FreshStart == /\ irq \in {"bus_reset", "set_configuration"} => ~configured
              /\ ~configured => hostTog = 0
              /\ ~configured /\ irq # "bus_reset" => epLen = 0

LinkInv == TypeInv /\ SlotReady /\ TakenOnce /\ FreshStart

LEMMA InitLink == Init => LinkInv
<1> SUFFICES ASSUME Init PROVE LinkInv
  OBVIOUS
<1>1. SlotReady /\ TakenOnce /\ FreshStart
  BY DEF Init, SlotReady, TakenOnce, FreshStart
<1> QED
  BY <1>1, InitType DEF LinkInv

\* What the interrupt does to the ring: it takes a prefix.
LEMMA Drain ==
  ASSUME TypeOK,
         txRing' = txRing, txHead' = txHead, txTail' = SlotOf(Chunk)
  PROVE  /\ Pending' = Pending - Chunk
         /\ Content' = SubSeq(Content, Chunk + 1, Pending)
         /\ ~Full => ~Full'
<1>1. /\ Pending \in 0..(N - 1) /\ Chunk \in 0..Pending
      /\ txHead \in Slot /\ txTail \in Slot /\ SlotOf(Chunk) \in Slot
  BY RingArithmetic DEF TypeOK
<1>2. Pending' = Pending - Chunk
  <2> HIDE DEF Chunk
  <2> QED
    BY <1>1, NAssumption, SMTT(30) DEF Pending, SlotOf, Slot
<1>3. \A i \in 0..(Pending - Chunk - 1) : SlotOf(i)' = SlotOf(Chunk + i)
  BY <1>1, NAssumption, SMTT(30) DEF Pending, SlotOf, Slot
<1>4. ~Full => ~Full'
  BY <1>1, NAssumption, SMTT(30) DEF Full, Inc, Pending, SlotOf, Slot
<1>5. Content \in Seq(Byte) /\ Len(Content) = Pending
      /\ \A i \in 1..Pending : Content[i] = txRing[SlotOf(i - 1)]
  BY ContentType DEF TypeOK
<1>6. \A i \in 1..Pending' : SlotOf(i - 1)' = SlotOf((Chunk + i) - 1)
  <2> TAKE i \in 1..Pending'
  <2>1. i - 1 \in 0..(Pending - Chunk - 1) /\ Chunk + (i - 1) = (Chunk + i) - 1
    BY <1>1, <1>2
  <2> QED
    BY <1>3, <2>1
<1>7. Content' \in Seq(Byte) /\ Len(Content') = Pending'
      /\ \A i \in 1..Pending' : Content'[i] = txRing[SlotOf((Chunk + i) - 1)]
  <2>1. Content' = [i \in 1..Pending' |-> txRing[SlotOf((Chunk + i) - 1)]]
    BY <1>6 DEF Content
  <2>2. \A i \in 1..Pending' : txRing[SlotOf((Chunk + i) - 1)] \in Byte
    BY <1>1, <1>2, RingArithmetic DEF TypeOK
  <2>3. Content' \in [1..Pending' -> Byte]
    BY <2>1, <2>2, Zenon
  <2>4. Pending' \in Nat
    BY <1>1, <1>2
  <2> QED
    BY <2>1, <2>3, <2>4, LenProperties, SMT
<1>8. /\ SubSeq(Content, Chunk + 1, Pending) \in Seq(Byte)
      /\ Len(SubSeq(Content, Chunk + 1, Pending)) = Pending - Chunk
      /\ \A i \in 1..(Pending - Chunk) :
           SubSeq(Content, Chunk + 1, Pending)[i] = Content[Chunk + i]
  BY <1>1, <1>5, SubSeqProperties, ElementOfSeq
<1>9. \A i \in 1..(Pending - Chunk) :
        Content'[i] = SubSeq(Content, Chunk + 1, Pending)[i]
  <2> TAKE i \in 1..(Pending - Chunk)
  <2>1. i \in 1..Pending' /\ Chunk + i \in 1..Pending
    BY <1>1, <1>2
  <2>2. Content'[i] = txRing[SlotOf((Chunk + i) - 1)]
    BY <1>7, <2>1
  <2>3. SubSeq(Content, Chunk + 1, Pending)[i] = Content[Chunk + i]
    BY <1>8
  <2>4. Content[Chunk + i] = txRing[SlotOf((Chunk + i) - 1)]
    BY <1>5, <2>1
  <2> QED
    BY <2>2, <2>3, <2>4
<1>10. Content' = SubSeq(Content, Chunk + 1, Pending)
  BY <1>2, <1>7, <1>8, <1>9, SeqEqual
<1> QED
  BY <1>2, <1>4, <1>10

\* What TxPublish does to the ring: it appends the byte in the head's slot.
LEMMA Fill ==
  ASSUME TypeOK, ~Full,
         txRing' = txRing, txHead' = Inc(txHead), txTail' = txTail
  PROVE  /\ Pending < N - 1
         /\ Pending' = Pending + 1
         /\ Content' = Append(Content, txRing[txHead])
<1>1. /\ Pending \in 0..(N - 1) /\ txHead \in Slot /\ txTail \in Slot
      /\ SlotOf(Pending) = txHead
      /\ \A i \in 0..Pending : SlotOf(i) \in Slot
  BY RingArithmetic DEF TypeOK
<1>2. Pending < N - 1 /\ Pending' = Pending + 1
  BY <1>1, NAssumption, SMTT(30) DEF Full, Inc, Pending, Slot
<1>3. Content \in Seq(Byte) /\ Len(Content) = Pending
      /\ \A i \in 1..Pending : Content[i] = txRing[SlotOf(i - 1)]
  BY ContentType DEF TypeOK
<1>4. txRing[txHead] \in Byte
  BY <1>1 DEF TypeOK
<1>5. Content' = [i \in 1..(Pending + 1) |-> txRing[SlotOf(i - 1)]]
  <2>1. \A i \in 1..(Pending + 1) : SlotOf(i - 1)' = SlotOf(i - 1)
    BY DEF SlotOf
  <2> QED
    BY <1>2, <2>1 DEF Content
<1>6. Content' \in Seq(Byte) /\ Len(Content') = Pending + 1
      /\ \A i \in 1..(Pending + 1) : Content'[i] = txRing[SlotOf(i - 1)]
  <2>1. \A i \in 1..(Pending + 1) : txRing[SlotOf(i - 1)] \in Byte
    BY <1>1 DEF TypeOK
  <2>2. Content' \in [1..(Pending + 1) -> Byte]
    BY <1>5, <2>1, Zenon
  <2>3. Pending + 1 \in Nat
    BY <1>1
  <2> QED
    BY <1>5, <2>2, <2>3, LenProperties, SMTT(30)
<1>7. /\ Append(Content, txRing[txHead]) \in Seq(Byte)
      /\ Len(Append(Content, txRing[txHead])) = Pending + 1
      /\ \A i \in 1..Pending : Append(Content, txRing[txHead])[i] = Content[i]
      /\ Append(Content, txRing[txHead])[Pending + 1] = txRing[txHead]
  BY <1>3, <1>4, AppendProperties
<1>8. \A i \in 1..(Pending + 1) : Content'[i] = Append(Content, txRing[txHead])[i]
  <2> TAKE i \in 1..(Pending + 1)
  <2>1. CASE i = Pending + 1
    <3>1. (Pending + 1) - 1 = Pending
      BY <1>1
    <3> QED
      BY <1>1, <1>6, <1>7, <2>1, <3>1
  <2>2. CASE i # Pending + 1
    <3>1. i \in 1..Pending
      BY <1>1, <2>2
    <3> QED
      BY <1>3, <1>6, <1>7, <3>1
  <2> QED
    BY <2>1, <2>2
<1>9. Content' = Append(Content, txRing[txHead])
  BY <1>6, <1>7, <1>8, SeqEqual
<1> QED
  BY <1>2, <1>9

\* What TxStore does to the ring: nothing the reader could see.
LEMMA Store ==
  ASSUME TypeOK, NEW x,
         txRing' = [txRing EXCEPT ![txHead] = x], txHead' = txHead, txTail' = txTail
  PROVE  Content' = Content
<1>1. /\ Pending \in 0..(N - 1)
      /\ \A i \in 0..(Pending - 1) : SlotOf(i) # txHead
      /\ \A i \in 0..Pending : SlotOf(i) \in Slot
  BY RingArithmetic DEF TypeOK
<1>2. Pending' = Pending
  BY DEF Pending
<1>3. \A i \in 1..Pending : SlotOf(i - 1)' = SlotOf(i - 1)
  BY DEF SlotOf
<1>4. \A i \in 1..Pending : txRing'[SlotOf(i - 1)] = txRing[SlotOf(i - 1)]
  <2> TAKE i \in 1..Pending
  <2>1. i - 1 \in 0..(Pending - 1) /\ i - 1 \in 0..Pending
    BY <1>1
  <2> QED
    BY <1>1, <2>1 DEF TypeOK
<1> QED
  BY <1>2, <1>3, <1>4 DEF Content

LEMMA NextLink == LinkInv /\ [Next]_vars => LinkInv'
<1> SUFFICES ASSUME LinkInv, [Next]_vars PROVE LinkInv'
  OBVIOUS
<1>0. TypeInv'
  BY NextType DEF LinkInv
<1> SUFFICES SlotReady' /\ TakenOnce' /\ FreshStart'
  BY <1>0 DEF LinkInv
<1> USE DEF LinkInv, SlotReady, TakenOnce, FreshStart
<1>1. CASE TelemetryCapture
  BY <1>1 DEF TelemetryCapture
<1>2. ASSUME NEW m \in Replies, SendReply(m)
      PROVE  SlotReady' /\ TakenOnce' /\ FreshStart'
  BY <1>2 DEF SendReply
<1>3. CASE TxCheck
  BY <1>3 DEF TxCheck, Full, Inc
<1>4. CASE TxStore
  <2>1. txRing'[txHead] = Head(msg)
    BY <1>4 DEF TxStore, TypeInv, TypeOK
  <2> QED
    BY <1>4, <2>1 DEF TxStore, Full, Inc
<1>5. CASE TxPublish
  BY <1>5 DEF TxPublish
<1>6. CASE TaskUsbCdc
  BY <1>6 DEF TaskUsbCdc
<1>7. CASE SendCheck
  BY <1>7 DEF SendCheck
<1>8. CASE SendMask
  BY <1>8 DEF SendMask
<1>9. CASE SendArm
  BY <1>9 DEF SendArm
<1>10. CASE SendUnmask
  BY <1>10 DEF SendUnmask
<1>11. CASE IrqIn3
  <2>1. ~Full => ~Full'
    <3>1. CASE Chunk > 0
      BY <1>11, <3>1, Drain DEF IrqIn3, TypeInv
    <3>2. CASE ~(Chunk > 0)
      BY <1>11, <3>2 DEF IrqIn3, Full, Inc
    <3> QED
      BY <3>1, <3>2
  <2> QED
    BY <1>11, <2>1 DEF IrqIn3, Handle
<1>12. CASE IrqSetup
  BY <1>12 DEF IrqSetup, Handle, Setups, Full, Inc
<1>13. CASE IrqSetConfiguration
  BY <1>13 DEF IrqSetConfiguration, Handle, Full, Inc
<1>14. CASE IrqOut0
  BY <1>14 DEF IrqOut0, Handle, Full, Inc
<1>15. CASE IrqIn0
  BY <1>15 DEF IrqIn0, Handle, Full, Inc
<1>16. CASE IrqBusReset
  BY <1>16 DEF IrqBusReset, Handle, Full, Inc
<1>17. ASSUME NEW lost \in BOOLEAN, HostPoll(lost)
       PROVE  SlotReady' /\ TakenOnce' /\ FreshStart'
  <2>1. hostTog' # epTog
    BY <1>17 DEF HostPoll, TypeInv, TypeOK
  <2> QED
    BY <1>17, <2>1 DEF HostPoll, Full, Inc
<1>18. ASSUME NEW setup \in Setups, HostSetup(setup)
       PROVE  SlotReady' /\ TakenOnce' /\ FreshStart'
  BY <1>18 DEF HostSetup, Setups, Full, Inc
<1>19. CASE HostControl
  BY <1>19 DEF HostControl, Full, Inc
<1>20. CASE HostBusReset
  BY <1>20 DEF HostBusReset, Full, Inc
<1>21. CASE UNCHANGED vars
  BY <1>21 DEF Full, Inc
<1> QED
  BY <1>1, <1>2, <1>3, <1>4, <1>5, <1>6, <1>7, <1>8, <1>9, <1>10, <1>11, <1>12,
     <1>13, <1>14, <1>15, <1>16, <1>17, <1>18, <1>19, <1>20, <1>21
     DEF Next, Writer, TaskStep, Interrupt, Host

-----------------------------------------------------------------------------
(* The refinement.  Undelivered is Staged \o Content: what remains is to    *)
(* say what each step does to the two parts.                               *)

LEMMA CutConcat ==
  ASSUME NEW S, NEW s \in Seq(S), NEW t \in Seq(S)
  PROVE  /\ SubSeq(s \o t, 1, Len(s)) = s
         /\ SubSeq(s \o t, Len(s) + 1, Len(s \o t)) = t
<1>1. /\ Len(s) \in Nat /\ Len(t) \in Nat /\ s \o t \in Seq(S)
      /\ Len(s \o t) = Len(s) + Len(t)
      /\ \A i \in 1..(Len(s) + Len(t)) :
           (s \o t)[i] = IF i <= Len(s) THEN s[i] ELSE t[i - Len(s)]
      /\ \A i \in 1..(Len(s) + Len(t)) : (s \o t)[i] \in S
  BY ConcatProperties, LenProperties, ElementOfSeq
<1>2. SubSeq(s \o t, 1, Len(s)) = s
  <2>1. /\ SubSeq(s \o t, 1, Len(s)) \in Seq(S)
        /\ Len(SubSeq(s \o t, 1, Len(s))) = Len(s)
        /\ \A i \in 1..Len(s) : SubSeq(s \o t, 1, Len(s))[i] = (s \o t)[i]
    BY <1>1, SubSeqProperties
  <2>2. \A i \in 1..Len(s) : SubSeq(s \o t, 1, Len(s))[i] = s[i]
    BY <1>1, <2>1
  <2> QED
    BY <2>1, <2>2, SeqEqual
<1>3. SubSeq(s \o t, Len(s) + 1, Len(s \o t)) = t
  <2> DEFINE u == SubSeq(s \o t, Len(s) + 1, Len(s) + Len(t))
  <2>1. /\ u \in Seq(S) /\ Len(u) = Len(t)
        /\ \A i \in 1..Len(t) : u[i] = (s \o t)[Len(s) + i]
    BY <1>1, SubSeqProperties
  <2>2. \A i \in 1..Len(t) : u[i] = t[i]
    BY <1>1, <2>1
  <2> HIDE DEF u
  <2>3. u = t
    BY <2>1, <2>2, SeqEqual
  <2> QED
    BY <1>1, <2>3 DEF u
<1> QED
  BY <1>2, <1>3

LEMMA Parts ==
  ASSUME TypeOK
  PROVE  /\ Staged \in Seq(Byte) /\ Len(Staged) \in 0..Packet
         /\ Content \in Seq(Byte) /\ Len(Content) = Pending /\ Pending \in 0..(N - 1)
         /\ Undelivered \in Seq(Byte)
         /\ Len(Undelivered) = Len(Staged) + Pending
         /\ SubSeq(Undelivered, 1, Len(Staged)) = Staged
         /\ SubSeq(Undelivered, Len(Staged) + 1, Len(Undelivered)) = Content
<1>1. Staged \in Seq(Byte) /\ Len(Staged) \in 0..Packet
  <2>1. SubSeq(epBuf, 1, epLen) \in Seq(Byte)
        /\ Len(SubSeq(epBuf, 1, epLen)) = epLen
    <3>1. \A i \in 1..epLen : epBuf[i] \in Byte
      BY ElementOfSeq, LenProperties DEF TypeOK
    <3>2. epLen \in Nat
      BY LenProperties DEF TypeOK
    <3> QED
      BY <3>1, <3>2, SubSeqProperties
  <2>2. epLen \in 0..Packet
    BY LenProperties, PacketAssumption DEF TypeOK
  <2> QED
    BY <2>1, <2>2, EmptySeq, PacketAssumption DEF Staged
<1>2. Content \in Seq(Byte) /\ Len(Content) = Pending /\ Pending \in 0..(N - 1)
  BY ContentType, RingArithmetic DEF TypeOK
<1>3. Undelivered \in Seq(Byte) /\ Len(Undelivered) = Len(Staged) + Len(Content)
  BY <1>1, <1>2, ConcatProperties, Zenon DEF Undelivered
<1>4. /\ SubSeq(Undelivered, 1, Len(Staged)) = Staged
      /\ SubSeq(Undelivered, Len(Staged) + 1, Len(Undelivered)) = Content
  BY <1>1, <1>2, CutConcat, Zenon DEF Undelivered
<1> QED
  BY <1>1, <1>2, <1>3, <1>4

\* The steps of the byte pipe, for the changes of the two parts.
LEMMA PipeAccept ==
  ASSUME TypeOK, NEW b \in Byte, Pending < N - 1,
         Staged' = Staged, Content' = Append(Content, b),
         UNCHANGED <<received, hostTog, resetLeft>>
  PROVE  Lossless!Next
<1>1. Undelivered' = Append(Undelivered, b)
  <2>1. Undelivered' = Staged \o (Content \o <<b>>)
    BY Parts, AppendIsConcat DEF Undelivered
  <2>2. <<b>> \in Seq(Byte)
    OBVIOUS
  <2>3. Staged \o (Content \o <<b>>) = (Staged \o Content) \o <<b>>
    BY Parts, <2>2, ConcatAssociative
  <2> QED
    BY <2>1, <2>3, Parts, AppendIsConcat DEF Undelivered
<1>2. Len(Undelivered) < (N - 1) + Packet
  BY Parts, NAssumption, PacketAssumption
<1>3. Lossless!Accept(b)
  BY <1>1, <1>2 DEF Lossless!Accept
<1> QED
  BY <1>3 DEF Lossless!Next

LEMMA PipeDeliver ==
  ASSUME TypeOK, received' = Staged, hostTog' = 1 - hostTog, resetLeft' = resetLeft,
         Staged' = << >>, Content' = Content
  PROVE  Lossless!Next
<1>1. Undelivered' = Content
  BY Parts, ConcatEmptySeq DEF Undelivered
<1>2. Lossless!Deliver(Len(Staged))
  BY <1>1, Parts DEF Lossless!Deliver
<1>3. Len(Staged) \in 0..Lossless!Min2(Packet, Len(Undelivered))
  BY Parts, PacketAssumption, NAssumption DEF Lossless!Min2
<1> QED
  BY <1>2, <1>3 DEF Lossless!Next

LEMMA PipeReset ==
  ASSUME TypeOK, received' = received, hostTog' = 0, resetLeft' = resetLeft - 1,
         Staged' = << >>, Content' = Content
  PROVE  Lossless!Next
<1>1. Undelivered' = Content
  BY Parts, ConcatEmptySeq DEF Undelivered
<1>2. MaxReset - resetLeft' = (MaxReset - resetLeft) + 1
  BY BoundAssumption DEF TypeOK
<1>3. Lossless!Reset(Len(Staged))
  BY <1>1, <1>2, Parts DEF Lossless!Reset
<1>4. Len(Staged) \in 0..Lossless!Min2(Packet, Len(Undelivered))
  BY Parts, PacketAssumption, NAssumption DEF Lossless!Min2
<1> QED
  BY <1>3, <1>4 DEF Lossless!Next

LEMMA PipeDrop ==
  ASSUME TypeOK, UNCHANGED <<received, hostTog, resetLeft>>,
         Staged' = << >>, Content' = Content
  PROVE  Lossy!Next
<1>1. Undelivered' = Content
  BY Parts, ConcatEmptySeq DEF Undelivered
<1>2. Lossy!Drop(Len(Staged))
  BY <1>1, Parts DEF Lossy!Drop
<1>3. Len(Staged) \in 0..Lossy!Min2(Packet, Len(Undelivered))
  BY Parts, PacketAssumption, NAssumption DEF Lossy!Min2
<1> QED
  BY <1>2, <1>3 DEF Lossy!Next

\* The ring and the staged packet stay as they are when nothing they are
\* made of changes.
LEMMA ContentSame == UNCHANGED ringVars => Content' = Content
  BY DEF Content, Pending, SlotOf

PipeStutter == UNCHANGED <<Undelivered, received, hostTog, resetLeft>>

\* A step of the link is a step of the lossless pipe or a stutter, except
\* that SendArm may drop the staged packet.
PipeStep == \/ Lossless!Next
            \/ pc = "send_arm" /\ pc' = "send_unmask" /\ Lossy!Next
            \/ PipeStutter
LEMMA LinkStep == LinkInv /\ [Next]_vars => PipeStep
<1> SUFFICES ASSUME LinkInv, [Next]_vars PROVE PipeStep
  OBVIOUS
<1> USE DEF LinkInv, TypeInv
<1>0. ASSUME UNCHANGED <<ringVars, received, hostTog, resetLeft>>, Staged' = Staged
      PROVE  PipeStep
  BY <1>0, ContentSame DEF PipeStep, PipeStutter, Undelivered
<1>1. CASE TelemetryCapture
  BY <1>0, <1>1 DEF TelemetryCapture, Staged
<1>2. ASSUME NEW m \in Replies, SendReply(m) PROVE PipeStep
  BY <1>0, <1>2 DEF SendReply, Staged
<1>3. CASE TxCheck
  BY <1>0, <1>3 DEF TxCheck, Staged
<1>4. CASE TxStore
  <2>1. Content' = Content
    BY <1>4, Store DEF TxStore
  <2>2. Staged' = Staged
    BY <1>4 DEF TxStore, Staged
  <2> QED
    BY <1>4, <2>1, <2>2 DEF TxStore, PipeStep, PipeStutter, Undelivered
<1>5. CASE TxPublish
  <2>1. ~Full /\ txRing[txHead] = Head(msg) /\ msg # << >>
    BY <1>5 DEF TxPublish, SlotReady, Storing
  <2>2. Head(msg) \in Byte
    BY <2>1, HeadTailProperties DEF TypeOK
  <2>3. Pending < N - 1 /\ Content' = Append(Content, Head(msg))
    BY <1>5, <2>1, Fill DEF TxPublish
  <2>4. Staged' = Staged
    BY <1>5 DEF TxPublish, Staged
  <2>5. Lossless!Next
    BY <1>5, <2>2, <2>3, <2>4, PipeAccept DEF TxPublish
  <2> QED
    BY <2>5 DEF PipeStep
<1>6. CASE TaskUsbCdc
  BY <1>0, <1>6 DEF TaskUsbCdc, Staged
<1>7. CASE SendCheck
  BY <1>0, <1>7 DEF SendCheck, Staged
<1>8. CASE SendMask
  BY <1>0, <1>8 DEF SendMask, Staged
<1>9. CASE SendArm
  <2>1. Staged' = << >>
    <3>1. SubSeq(epBuf, 1, 0) = << >>
      BY SubSeqEmpty
    <3> QED
      BY <1>9, <3>1 DEF SendArm, Staged
  <2>2. Content' = Content
    BY <1>9, ContentSame DEF SendArm
  <2>3. Lossy!Next
    BY <1>9, <2>1, <2>2, PipeDrop DEF SendArm
  <2> QED
    BY <1>9, <2>3 DEF SendArm, PipeStep
<1>10. CASE SendUnmask
  BY <1>0, <1>10 DEF SendUnmask, Staged
<1>11. CASE IrqIn3
  <2>1. configured /\ hostTog # epTog /\ Staged = << >>
    BY <1>11 DEF IrqIn3, Handle, TakenOnce, Staged
  <2>2. hostTog' = epTog' /\ configured'
    BY <1>11, <2>1 DEF IrqIn3, Handle, Toggle, TypeOK
  <2>3. Undelivered = Content
    BY <2>1, Parts, ConcatEmptySeq DEF Undelivered
  <2>4. CASE Chunk > 0
    <3>1. Chunk \in 0..Pending
      BY RingArithmetic DEF TypeOK
    <3>2. Content' = SubSeq(Content, Chunk + 1, Pending)
      BY <1>11, <2>4, Drain DEF IrqIn3
    <3>3. Staged' = SubSeq(Content, 1, Chunk)
      <4>1. epBuf' = SubSeq(Content, 1, Chunk) /\ epLen' = Chunk /\ armed'
        BY <1>11, <2>4 DEF IrqIn3
      <4>2. SubSeq(epBuf', 1, Chunk) = epBuf'
        <5>1. \A i \in 1..Chunk : Content[i] \in Byte
          BY <3>1, Parts, ElementOfSeq
        <5>2. epBuf' \in Seq(Byte) /\ Len(epBuf') = Chunk
          BY <2>4, <3>1, <4>1, <5>1, SubSeqProperties
        <5> QED
          BY <5>2, SubSeqFull
      <4> QED
        BY <2>2, <4>1, <4>2 DEF Staged
    <3>4. Undelivered' = SubSeq(Content, 1, Chunk) \o SubSeq(Content, Chunk + 1, Pending)
      BY <3>2, <3>3 DEF Undelivered
    <3>5. Undelivered' = Content
      <4>1. Content \in Seq(Byte) /\ Len(Content) = Pending /\ Pending \in Nat
        BY Parts
      <4>2. /\ 1 \in 1..(Len(Content) + 1) /\ Chunk \in (1 - 1)..Len(Content)
            /\ Pending \in Chunk..Len(Content)
        BY <3>1, <4>1
      <4>3. SubSeq(Content, 1, Chunk) \o SubSeq(Content, Chunk + 1, Pending)
              = SubSeq(Content, 1, Pending)
        BY <4>1, <4>2, ConcatAdjacentSubSeq
      <4>4. SubSeq(Content, 1, Pending) = Content
        BY <4>1, SubSeqFull
      <4> QED
        BY <3>4, <4>3, <4>4
    <3> QED
      BY <1>11, <2>3, <3>5 DEF IrqIn3, Handle, PipeStep, PipeStutter
  <2>5. CASE ~(Chunk > 0)
    <3>1. Staged' = << >>
      BY <1>11, <2>5 DEF IrqIn3, Staged
    <3>2. Content' = Content
      BY <1>11, <2>5, ContentSame DEF IrqIn3
    <3> QED
      BY <1>11, <2>1, <3>1, <3>2 DEF IrqIn3, Handle, PipeStep, PipeStutter, Undelivered
  <2> QED
    BY <2>4, <2>5
<1>12. CASE IrqSetup
  BY <1>0, <1>12 DEF IrqSetup, Handle, Staged
<1>13. CASE IrqSetConfiguration
  BY <1>0, <1>13 DEF IrqSetConfiguration, Handle, FreshStart, Staged
<1>14. CASE IrqOut0
  BY <1>0, <1>14 DEF IrqOut0, Handle, Staged
<1>15. CASE IrqIn0
  BY <1>0, <1>15 DEF IrqIn0, Handle, Staged
<1>16. CASE IrqBusReset
  BY <1>0, <1>16 DEF IrqBusReset, Handle, FreshStart, Staged
<1>17. ASSUME NEW lost \in BOOLEAN, HostPoll(lost) PROVE PipeStep
  <2>1. Content' = Content
    BY <1>17, ContentSame DEF HostPoll
  <2>2. CASE epTog = hostTog
    <3>1. /\ Staged = received' /\ Staged' = << >> /\ hostTog' = 1 - hostTog
          /\ resetLeft' = resetLeft
      BY <1>17, <2>2 DEF HostPoll, Staged, TypeOK
    <3> QED
      BY <2>1, <3>1, PipeDeliver DEF PipeStep
  <2>3. CASE epTog # hostTog
    BY <1>0, <1>17, <2>3 DEF HostPoll, Staged
  <2> QED
    BY <2>2, <2>3
<1>18. ASSUME NEW setup \in Setups, HostSetup(setup) PROVE PipeStep
  BY <1>0, <1>18 DEF HostSetup, FreshStart, Staged
<1>19. CASE HostControl
  <2>1. Staged' = Staged
    <3>1. CASE configured
      BY <1>19, <3>1 DEF HostControl, Staged
    <3>2. CASE ~configured
      <4>1. epLen' = 0 /\ epBuf' = epBuf
        BY <1>19, <3>2 DEF HostControl, FreshStart
      <4>2. SubSeq(epBuf, 1, 0) = << >>
        BY SubSeqEmpty
      <4> QED
        BY <3>2, <4>1, <4>2 DEF Staged
    <3> QED
      BY <3>1, <3>2
  <2> QED
    BY <1>0, <1>19, <2>1 DEF HostControl
<1>20. CASE HostBusReset
  <2>1. Content' = Content /\ Staged' = << >>
    BY <1>20, ContentSame DEF HostBusReset, Staged
  <2>2. Lossless!Next
    BY <1>20, <2>1, PipeReset DEF HostBusReset
  <2> QED
    BY <2>2 DEF PipeStep
<1>21. CASE UNCHANGED vars
  BY <1>0, <1>21 DEF Staged
<1> QED
  BY <1>1, <1>2, <1>3, <1>4, <1>5, <1>6, <1>7, <1>8, <1>9, <1>10, <1>11, <1>12,
     <1>13, <1>14, <1>15, <1>16, <1>17, <1>18, <1>19, <1>20, <1>21
     DEF Next, Writer, TaskStep, Interrupt, Host

LEMMA LinkInvariant == Spec => []LinkInv
  BY InitLink, NextLink, PTL DEF Spec

\* For every ring and packet size, the firmware's writers, task_usb_cdc and
\* the USB interrupt lose no byte that usb_cdc_tx_send accepted except where
\* USBFS_SendEndpoint writes the endpoint length, and at a bus reset: the
\* lossless pipe counts the resets of the host, and drops nothing at any other
\* step.
THEOREM LostOnlyByArmCorrect == Spec => LostOnlyByArm
<1>1. PipeStep
        => [Lossless!Next \/ (pc = "send_arm" /\ pc' = "send_unmask" /\ Lossy!Next)]_(Lossless!vars)
  BY DEF PipeStep, PipeStutter, Lossless!vars
<1>2. LinkInv /\ [Next]_vars
        => [Lossless!Next \/ (pc = "send_arm" /\ pc' = "send_unmask" /\ Lossy!Next)]_(Lossless!vars)
  BY <1>1, LinkStep
<1> QED
  BY <1>2, LinkInvariant, PTL DEF Spec, LostOnlyByArm

\* The link implements the pipe that may drop the waiting packet: the host
\* receives accepted bytes only, in order, none twice.
THEOREM InOrderCorrect == Spec => InOrder
<1>1. Init => Lossy!Init
  <2> SUFFICES ASSUME Init PROVE Lossy!Init
    OBVIOUS
  <2>1. Pending = 0 /\ Staged = << >>
    BY DEF Init, Pending, Staged
  <2>2. Content = << >>
    BY <2>1 DEF Content
  <2>3. Undelivered = << >>
    BY <2>1, <2>2, EmptySeq, ConcatEmptySeq DEF Undelivered
  <2> QED
    BY <2>3, BoundAssumption DEF Init, Lossy!Init
<1>2. LinkInv /\ [Next]_vars => [Lossy!Next]_(Lossy!vars)
  <2>1. Lossless!Next => Lossy!Next
    BY DEF Lossless!Next, Lossless!Accept, Lossless!Deliver, Lossless!Drop, Lossless!Reset,
           Lossless!Min2, Lossy!Next, Lossy!Accept, Lossy!Deliver, Lossy!Drop, Lossy!Reset,
           Lossy!Min2
  <2> QED
    BY <2>1, LinkStep DEF PipeStep, PipeStutter, Lossy!vars
<1> QED
  BY <1>1, <1>2, LinkInvariant, PTL DEF Spec, InOrder, Lossy!Spec

-----------------------------------------------------------------------------
(* Telemetry frames stay whole in the queue: telemetry_capture asks for    *)
(* room before the first byte, and nothing but the frame itself can take   *)
(* that room before the last.                                              *)

\* The bytes of a frame can be told apart, and no reply holds one of them: a
\* byte in the queue then says which place of a frame it has.
Marked ==
  /\ \A j, k \in 1..Len(Frame) : Frame[j] = Frame[k] => j = k
  /\ \A m \in Replies : \A i \in 1..Len(m), k \in 1..Len(Frame) : m[i] # Frame[k]

Queuing == pc \in {"tx_check", "tx_store", "tx_publish"}

\* usb_cdc_tx_send has still to queue the frame from its k-th byte on.
Sending(k) == Queuing /\ msg = SubSeq(Frame, k, Len(Frame))

\* It has still to queue what holds no byte of a frame.
Replying == \A i \in 1..Len(msg), k \in 1..Len(Frame) : msg[i] # Frame[k]

\* What is left of a frame fits, and the byte queued last comes before it.
InTurn ==
  /\ ~Queuing => msg = << >>
  /\ msg # << >> =>
       \/ Replying
       \/ \E k \in 1..Len(Frame) :
            /\ Sending(k) /\ Len(msg) <= Free
            /\ k > 1 /\ Pending > 0 => Content[Pending] = Frame[k - 1]

Linked ==
  \A i \in 1..Pending, k \in 1..Len(Frame) : Content[i] = Frame[k] =>
    /\ k > 1 /\ i > 1 => Content[i - 1] = Frame[k - 1]
    /\ k < Len(Frame) => IF i < Pending THEN Content[i + 1] = Frame[k + 1]
                                        ELSE Sending(k + 1)

QueueInv == LinkInv /\ InTurn /\ Linked

LEMMA SendingHead ==
  ASSUME NEW k \in 1..Len(Frame), Sending(k)
  PROVE  /\ msg # << >> /\ Head(msg) = Frame[k] /\ Len(msg) = Len(Frame) - k + 1
         /\ Tail(msg) = SubSeq(Frame, k + 1, Len(Frame))
<1>1. Frame \in Seq(Byte) /\ Len(Frame) \in Nat
  BY MessageAssumption, LenProperties
<1>2. k \in 1..Len(Frame) /\ Len(Frame) \in k..Len(Frame)
  BY <1>1
<1>3. /\ Head(SubSeq(Frame, k, Len(Frame))) = Frame[k]
      /\ Tail(SubSeq(Frame, k, Len(Frame))) = SubSeq(Frame, k + 1, Len(Frame))
  BY <1>1, <1>2, HeadTailOfSubSeq
<1>4. \A i \in k..Len(Frame) : Frame[i] \in Byte
  BY <1>1, <1>2, ElementOfSeq
<1>5. /\ SubSeq(Frame, k, Len(Frame)) \in Seq(Byte)
      /\ Len(SubSeq(Frame, k, Len(Frame))) = Len(Frame) - k + 1
  BY <1>1, <1>2, <1>4, SubSeqProperties
<1>6. Len(SubSeq(Frame, k, Len(Frame))) # 0
  BY <1>1, <1>5
<1> QED
  BY <1>3, <1>5, <1>6, EmptySeq DEF Sending

LEMMA LinkedWhole == LinkInv /\ Linked => FramesWhole
<1> SUFFICES ASSUME LinkInv, Linked,
                    NEW i \in 1..Pending, NEW k \in 1..Len(Frame), Content[i] = Frame[k]
             PROVE  /\ k < Len(Frame) =>
                         IF i < Pending THEN Content[i + 1] = Frame[k + 1]
                         ELSE Queuing /\ msg # << >> /\ Head(msg) = Frame[k + 1]
                    /\ k > 1 /\ i > 1 => Content[i - 1] = Frame[k - 1]
  BY DEF FramesWhole, Queuing
<1>1. Len(Frame) \in Nat
  BY MessageAssumption, LenProperties
<1>2. k < Len(Frame) /\ ~(i < Pending) => k + 1 \in 1..Len(Frame) /\ Sending(k + 1)
  BY <1>1 DEF Linked
<1> QED
  BY <1>2, SendingHead DEF Linked, Sending

\* A step that changes neither the queue nor what is being queued.
LEMMA QueueSame ==
  ASSUME QueueInv, Content' = Content, Pending' = Pending, Free' = Free, msg' = msg,
         Queuing' = Queuing
  PROVE  InTurn' /\ Linked'
<1>1. \A k : Sending(k)' = Sending(k)
  BY DEF Sending
<1>2. Replying' = Replying
  BY DEF Replying
<1> HIDE DEF Sending, Replying, Queuing
<1> QED
  BY <1>1, <1>2 DEF QueueInv, InTurn, Linked

\* A task that begins or ends with nothing left to queue.
LEMMA QueueBegins ==
  ASSUME QueueInv, UNCHANGED ringVars, msg = << >>
  PROVE  /\ \A i \in 1..Pending, k \in 1..Len(Frame) :
              Content[i] = Frame[k] /\ k < Len(Frame) => i < Pending
         /\ Linked'
<1>1. Len(Frame) \in Nat
  BY MessageAssumption, LenProperties
<1>2. \A i \in 1..Pending, k \in 1..Len(Frame) :
        Content[i] = Frame[k] /\ k < Len(Frame) => i < Pending
  <2> SUFFICES ASSUME NEW i \in 1..Pending, NEW k \in 1..Len(Frame),
                      Content[i] = Frame[k], k < Len(Frame), ~(i < Pending)
               PROVE  FALSE
    OBVIOUS
  <2>1. Sending(k + 1) /\ k + 1 \in 1..Len(Frame)
    BY <1>1 DEF QueueInv, Linked
  <2> QED
    BY <2>1, SendingHead
<1>3. Content' = Content /\ Pending' = Pending
  BY ContentSame DEF Pending
<1> HIDE DEF Content, Pending
<1> QED
  BY <1>2, <1>3 DEF QueueInv, Linked

LEMMA InitQueue == Init => QueueInv
<1> SUFFICES ASSUME Init PROVE InTurn /\ Linked
  BY InitLink DEF QueueInv
<1>1. Pending = 0 /\ msg = << >>
  BY DEF Init, Pending
<1> QED
  BY <1>1 DEF InTurn, Linked

\* One turn of the loop of usb_cdc_tx_send: the end of a message, or one byte.
LEMMA CheckQueue == ASSUME QueueInv, TxCheck PROVE InTurn' /\ Linked'
<1>1. UNCHANGED ringVars /\ Queuing
  BY DEF TxCheck, Queuing
<1>2. /\ Content' = Content /\ Pending' = Pending /\ Free' = Free
  BY <1>1, ContentSame DEF Pending, Free
<1>3. CASE msg # << >> /\ ~Full
  <2>1. msg' = msg /\ Queuing'
    BY <1>3 DEF TxCheck, Queuing
  <2> QED
    BY <1>1, <1>2, <2>1, QueueSame
<1>4. CASE msg = << >>
  <2>1. msg' = << >> /\ Linked'
    BY <1>1, <1>4, QueueBegins DEF TxCheck
  <2> QED
    BY <2>1 DEF InTurn
<1>5. CASE msg # << >> /\ Full
  <2>1. /\ txHead \in Slot /\ txTail \in Slot /\ Len(msg) \in Nat /\ Len(msg) # 0
        /\ Len(Frame) \in Nat
    BY <1>5, LenProperties, EmptySeq, MessageAssumption DEF QueueInv, LinkInv, TypeInv, TypeOK
  <2>2. Free = 0
    BY <1>5, <2>1, NAssumption, SMTT(30) DEF Full, Free, Inc, Pending, Slot
  <2>3. Replying
    BY <1>5, <2>1, <2>2 DEF QueueInv, InTurn
  <2>4. \A k \in 1..Len(Frame) : ~Sending(k)
    <3> SUFFICES ASSUME NEW k \in 1..Len(Frame), Sending(k) PROVE FALSE
      OBVIOUS
    <3>1. Head(msg) = Frame[k] /\ Head(msg) = msg[1] /\ 1 \in 1..Len(msg)
      BY <2>1, SendingHead
    <3> QED
      BY <2>3, <3>1 DEF Replying
  <2>5. msg' = << >>
    BY <1>5 DEF TxCheck
  <2>6. \A i \in 1..Pending, k \in 1..Len(Frame) :
          Content[i] = Frame[k] /\ k < Len(Frame) => i < Pending
    <3> SUFFICES ASSUME NEW i \in 1..Pending, NEW k \in 1..Len(Frame),
                        Content[i] = Frame[k], k < Len(Frame), ~(i < Pending)
                 PROVE  FALSE
      OBVIOUS
    <3>1. Sending(k + 1) /\ k + 1 \in 1..Len(Frame)
      BY <2>1 DEF QueueInv, Linked
    <3> QED
      BY <2>4, <3>1
  <2>7. Linked'
    <3> HIDE DEF Content, Pending
    <3> QED
      BY <1>2, <2>6 DEF QueueInv, Linked
  <2> QED
    BY <2>5, <2>7 DEF InTurn
<1> QED
  BY <1>3, <1>4, <1>5

\* The next byte joins the queue behind the one before it.
LEMMA PublishQueue == ASSUME Marked, QueueInv, TxPublish PROVE InTurn' /\ Linked'
<1> DEFINE b == Head(msg)
<1>1. /\ ~Full /\ txRing[txHead] = b /\ msg # << >> /\ msg \in Seq(Byte) /\ TypeOK
      /\ Queuing /\ Queuing' /\ msg' = Tail(msg)
  <2>1. pc = "tx_publish" /\ pc' = "tx_check" /\ msg' = Tail(msg)
    BY DEF TxPublish
  <2>2. ~Full /\ txRing[txHead] = b /\ msg # << >> /\ TypeOK
    BY <2>1 DEF QueueInv, LinkInv, TypeInv, SlotReady, Storing
  <2> QED
    BY <2>1, <2>2 DEF TypeOK, Queuing
<1>2. /\ Pending < N - 1 /\ Pending' = Pending + 1 /\ Content' = Append(Content, b)
  BY <1>1, Fill DEF TxPublish
<1>3. /\ Content \in Seq(Byte) /\ Len(Content) = Pending /\ Pending \in Nat /\ b \in Byte
      /\ Len(msg) \in Nat \ {0} /\ b = msg[1]
      /\ Len(Tail(msg)) = Len(msg) - 1 /\ \A i \in 1..(Len(msg) - 1) : Tail(msg)[i] = msg[i + 1]
      /\ Len(Frame) \in Nat
  BY <1>1, Parts, HeadTailProperties, EmptySeq, MessageAssumption, LenProperties
<1>4. /\ \A i \in 1..Pending : Content'[i] = Content[i]
      /\ Content'[Pending + 1] = b
  BY <1>2, <1>3, AppendProperties
<1>5. Free' = Free - 1 /\ Free \in Int
  BY <1>2, <1>3, NAssumption DEF Free
<1> HIDE DEF b, Content, Pending, Free
<1>6. CASE \E k \in 1..Len(Frame) :
             /\ Sending(k) /\ Len(msg) <= Free
             /\ k > 1 /\ Pending > 0 => Content[Pending] = Frame[k - 1]
  <2>1. PICK k \in 1..Len(Frame) :
             /\ Sending(k) /\ Len(msg) <= Free
             /\ k > 1 /\ Pending > 0 => Content[Pending] = Frame[k - 1]
    BY <1>6
  <2>2. b = Frame[k] /\ msg' = SubSeq(Frame, k + 1, Len(Frame)) /\ Len(msg) = Len(Frame) - k + 1
    BY <1>1, <2>1, SendingHead DEF b
  <2>3. Sending(k + 1)'
    BY <1>1, <2>2 DEF Sending
  <2>4. InTurn'
    <3>1. CASE k < Len(Frame)
      <4>1. Content'[Pending'] = Frame[(k + 1) - 1] /\ Len(msg') <= Free'
            /\ k + 1 \in 1..Len(Frame)
        <5>1. k + 1 \in 1..Len(Frame) /\ (k + 1) - 1 = k
          BY <2>1, <1>3, <3>1
        <5>2. Content'[Pending'] = Frame[k]
          BY <1>2, <1>4, <2>2
        <5>3. Len(msg') = Len(msg) - 1
          BY <1>1, <1>3
        <5>4. Len(msg') <= Free'
          BY <1>3, <1>5, <2>1, <5>3
        <5> QED BY <5>1, <5>2, <5>4
      <4> QED
        BY <1>1, <2>3, <4>1 DEF InTurn
    <3>2. CASE k = Len(Frame)
      <4>1. Len(msg') = 0 /\ msg' \in Seq(Byte)
        BY <1>1, <1>3, <2>2, <3>2, HeadTailProperties
      <4>2. msg' = << >>
        BY <4>1, EmptySeq
      <4> QED
        BY <4>2 DEF InTurn
    <3> QED
      BY <3>1, <3>2, <1>3
  <2>5. ASSUME NEW j \in 1..Len(Frame), Sending(j) PROVE j = k
    BY <2>1, <2>2, <2>5, SendingHead DEF Marked, b
  <2>6. Linked'
    <3> SUFFICES ASSUME NEW i \in 1..(Pending + 1), NEW j \in 1..Len(Frame), Content'[i] = Frame[j]
                 PROVE  /\ j > 1 /\ i > 1 => Content'[i - 1] = Frame[j - 1]
                        /\ j < Len(Frame) => IF i < Pending + 1 THEN Content'[i + 1] = Frame[j + 1]
                                                                ELSE Sending(j + 1)'
      BY <1>2 DEF Linked
    <3>1. CASE i = Pending + 1
      <4>1. j = k
        BY <1>4, <2>2, <3>1 DEF Marked
      <4>2. i > 1 => Content'[i - 1] = Content[Pending] /\ Pending > 0
        BY <1>3, <1>4, <3>1
      <4> QED
        BY <1>3, <2>1, <2>3, <3>1, <4>1, <4>2
    <3>2. CASE i # Pending + 1
      <4>1. i \in 1..Pending /\ Content[i] = Frame[j]
        BY <1>3, <1>4, <3>2
      <4>2. j > 1 /\ i > 1 => Content'[i - 1] = Frame[j - 1]
        <5>1. i > 1 => i - 1 \in 1..Pending
          BY <1>3, <4>1
        <5> QED
          BY <1>4, <4>1, <5>1 DEF QueueInv, Linked
      <4>3. j < Len(Frame) => Content'[i + 1] = Frame[j + 1]
        <5>1. CASE i < Pending
          <6>1. i + 1 \in 1..Pending
            BY <1>3, <4>1, <5>1
          <6> QED
            BY <1>4, <4>1, <5>1, <6>1 DEF QueueInv, Linked
        <5>2. CASE i = Pending
          <6>1. j < Len(Frame) => Sending(j + 1) /\ j + 1 \in 1..Len(Frame)
            BY <1>3, <4>1, <5>2 DEF QueueInv, Linked
          <6> QED
            BY <1>4, <2>2, <2>5, <5>2, <6>1
        <5> QED
          BY <1>3, <4>1, <5>1, <5>2
      <4> QED
        BY <1>3, <3>2, <4>2, <4>3
    <3> QED
      BY <3>1, <3>2
  <2> QED
    BY <2>4, <2>6
<1>7. CASE Replying
  <2>1. \A j \in 1..Len(Frame) : b # Frame[j]
    BY <1>3, <1>7 DEF Replying
  <2>2. Replying'
    <3> SUFFICES ASSUME NEW i \in 1..Len(msg'), NEW j \in 1..Len(Frame) PROVE msg'[i] # Frame[j]
      BY DEF Replying
    <3>1. msg'[i] = msg[i + 1] /\ i + 1 \in 1..Len(msg)
      BY <1>1, <1>3
    <3> QED
      BY <1>7, <3>1 DEF Replying
  <2>3. \A j \in 1..Len(Frame) : ~Sending(j)
    BY <2>1, SendingHead DEF b
  <2>4. Linked'
    <3> SUFFICES ASSUME NEW i \in 1..(Pending + 1), NEW j \in 1..Len(Frame), Content'[i] = Frame[j]
                 PROVE  /\ j > 1 /\ i > 1 => Content'[i - 1] = Frame[j - 1]
                        /\ j < Len(Frame) => IF i < Pending + 1 THEN Content'[i + 1] = Frame[j + 1]
                                                                ELSE Sending(j + 1)'
      BY <1>2 DEF Linked
    <3>1. i \in 1..Pending /\ Content[i] = Frame[j] /\ i < Pending + 1
      BY <1>3, <1>4, <2>1
    <3>2. j > 1 /\ i > 1 => Content'[i - 1] = Frame[j - 1]
      <4>1. i > 1 => i - 1 \in 1..Pending
        BY <1>3, <3>1
      <4> QED
        BY <1>4, <3>1, <4>1 DEF QueueInv, Linked
    <3>3. j < Len(Frame) => i < Pending
      <4>1. j < Len(Frame) => j + 1 \in 1..Len(Frame)
        BY <1>3
      <4> QED
        BY <2>3, <3>1, <4>1 DEF QueueInv, Linked
    <3>4. i < Pending => i + 1 \in 1..Pending
      BY <1>3, <3>1
    <3> QED
      BY <1>4, <3>1, <3>2, <3>3, <3>4 DEF QueueInv, Linked
  <2> QED
    BY <1>1, <2>2, <2>4 DEF InTurn
<1> QED
  BY <1>1, <1>6, <1>7 DEF QueueInv, InTurn, Free, Content, Pending

\* The interrupt takes bytes from the front.
LEMMA TakeQueue == ASSUME QueueInv, IrqIn3 PROVE InTurn' /\ Linked'
<1>1. TypeOK /\ msg' = msg /\ pc' = pc
  BY DEF QueueInv, LinkInv, TypeInv, IrqIn3, Handle
<1>2. CASE ~(Chunk > 0)
  <2>1. UNCHANGED ringVars
    BY <1>2 DEF IrqIn3
  <2>2. Content' = Content /\ Pending' = Pending /\ Free' = Free /\ Queuing' = Queuing
    BY <1>1, <2>1, ContentSame DEF Pending, Free, Queuing
  <2> QED
    BY <1>1, <2>2, QueueSame
<1>3. CASE Chunk > 0
  <2> DEFINE c == Chunk
  <2>1. /\ Pending' = Pending - c /\ Content' = SubSeq(Content, c + 1, Pending)
    BY <1>1, <1>3, Drain DEF IrqIn3
  <2>2. /\ Content \in Seq(Byte) /\ Len(Content) = Pending /\ Pending \in Nat
        /\ c \in 1..Pending /\ Len(Frame) \in Nat
    BY <1>1, <1>3, Parts, RingArithmetic, MessageAssumption, LenProperties DEF TypeOK
  <2>3. Free' = Free + c /\ Free \in Int
    BY <2>1, <2>2, NAssumption DEF Free
  <2>4. \A i \in 1..(Pending - c) : Content'[i] = Content[c + i]
    <3>1. \A i \in (c + 1)..Pending : Content[i] \in Byte
      BY <2>2, ElementOfSeq
    <3>2. \A i \in 1..(Pending - (c + 1) + 1) :
            SubSeq(Content, c + 1, Pending)[i] = Content[c + 1 + i - 1]
      BY <2>2, <3>1, SubSeqProperties
    <3> QED
      BY <2>1, <2>2, <3>2
  <2> HIDE DEF c, Content, Pending, Free
  <2>5. \A k : Sending(k)' <=> Sending(k)
    BY <1>1 DEF Sending, Queuing
  <2>6. Replying' <=> Replying
    BY <1>1 DEF Replying
  <2>7. Len(msg) \in Nat
    BY <1>1, LenProperties DEF TypeOK
  <2>8. Pending' > 0 => Content'[Pending'] = Content[Pending] /\ Pending > 0
    BY <2>1, <2>2, <2>4
  <2>9. InTurn'
    <3>1. Len(msg) <= Free => Len(msg') <= Free'
      BY <1>1, <2>2, <2>3, <2>7
    <3>2. Queuing' <=> Queuing
      BY <1>1 DEF Queuing
    <3> HIDE DEF Sending, Replying, Queuing
    <3> QED
      BY <1>1, <2>5, <2>6, <2>8, <3>1, <3>2 DEF QueueInv, InTurn
  <2>10. Linked'
    <3> SUFFICES ASSUME NEW i \in 1..(Pending - c), NEW k \in 1..Len(Frame), Content'[i] = Frame[k]
                 PROVE  /\ k > 1 /\ i > 1 => Content'[i - 1] = Frame[k - 1]
                        /\ k < Len(Frame) => IF i < Pending - c THEN Content'[i + 1] = Frame[k + 1]
                                                                ELSE Sending(k + 1)'
      BY <2>1 DEF Linked
    <3>1. c + i \in 1..Pending /\ Content[c + i] = Frame[k] /\ (i < Pending - c <=> c + i < Pending)
      BY <2>2, <2>4
    <3>2. /\ k > 1 /\ c + i > 1 => Content[(c + i) - 1] = Frame[k - 1]
          /\ k < Len(Frame) => IF c + i < Pending THEN Content[(c + i) + 1] = Frame[k + 1]
                                                  ELSE Sending(k + 1)
      BY <3>1 DEF QueueInv, Linked
    <3>3. i > 1 => c + i > 1 /\ i - 1 \in 1..(Pending - c) /\ c + (i - 1) = (c + i) - 1
      BY <2>2
    <3>4. i < Pending - c => i + 1 \in 1..(Pending - c) /\ c + (i + 1) = (c + i) + 1
      BY <2>2
    <3> QED
      BY <2>4, <2>5, <3>1, <3>2, <3>3, <3>4
  <2> QED
    BY <2>9, <2>10
<1> QED
  BY <1>2, <1>3

LEMMA NextQueue == ASSUME Marked, QueueInv, [Next]_vars PROVE QueueInv'
<1> SUFFICES InTurn' /\ Linked'
  BY NextLink DEF QueueInv
<1>0. ASSUME UNCHANGED <<ringVars, msg>>, Queuing' = Queuing PROVE InTurn' /\ Linked'
  <2>1. Content' = Content /\ Pending' = Pending /\ Free' = Free
    BY <1>0, ContentSame DEF Pending, Free
  <2> QED
    BY <1>0, <2>1, QueueSame
<1>1. CASE TelemetryCapture
  <2>1. msg = << >>
    BY <1>1 DEF TelemetryCapture, QueueInv, InTurn, Queuing
  <2>2. Linked' /\ Pending' = Pending /\ Free' = Free
    BY <1>1, <2>1, QueueBegins DEF TelemetryCapture, Pending, Free
  <2>3. Frame \in Seq(Byte) /\ Len(Frame) \in Nat
    BY MessageAssumption, LenProperties
  <2>4. Frame # << >> => Sending(1)' /\ Len(msg') <= Free' /\ 1 \in 1..Len(Frame) /\ ~(1 > 1)
    BY <1>1, <2>2, <2>3, SubSeqFull, EmptySeq DEF TelemetryCapture, Sending, Queuing
  <2>5. Queuing' /\ msg' = Frame
    BY <1>1 DEF TelemetryCapture, Queuing
  <2>6. InTurn'
    <3> HIDE DEF Sending, Queuing, Free, Pending, Content
    <3> QED
      BY <2>4, <2>5 DEF InTurn
  <2> QED
    BY <2>2, <2>6
<1>2. ASSUME NEW m \in Replies, SendReply(m) PROVE InTurn' /\ Linked'
  <2>1. msg = << >>
    BY <1>2 DEF SendReply, QueueInv, InTurn, Queuing
  <2>2. Linked'
    BY <1>2, <2>1, QueueBegins DEF SendReply
  <2>3. Replying' /\ Queuing'
    BY <1>2 DEF SendReply, Replying, Queuing, Marked
  <2> QED
    BY <2>2, <2>3 DEF InTurn
<1>3. CASE TxCheck
  BY <1>3, CheckQueue
<1>4. CASE TxStore
  <2>1. Content' = Content /\ Pending' = Pending /\ Free' = Free
    BY <1>4, Store DEF TxStore, QueueInv, LinkInv, TypeInv, Pending, Free
  <2>2. msg' = msg /\ Queuing' = Queuing
    BY <1>4 DEF TxStore, Queuing
  <2> QED
    BY <2>1, <2>2, QueueSame
<1>5. CASE TxPublish
  BY <1>5, PublishQueue
<1>6. CASE TaskUsbCdc \/ SendCheck \/ SendMask \/ SendArm \/ SendUnmask
  BY <1>0, <1>6 DEF TaskUsbCdc, SendCheck, SendMask, SendArm, SendUnmask, Queuing
<1>7. CASE IrqIn3
  BY <1>7, TakeQueue
<1>8. CASE IrqSetup \/ IrqSetConfiguration \/ IrqOut0 \/ IrqIn0 \/ IrqBusReset
  BY <1>0, <1>8 DEF IrqSetup, IrqSetConfiguration, IrqOut0, IrqIn0, IrqBusReset, Handle, Queuing
<1>9. CASE Host
  BY <1>0, <1>9 DEF Host, HostPoll, HostSetup, HostControl, HostBusReset, Queuing
<1>10. CASE UNCHANGED vars
  BY <1>0, <1>10 DEF Queuing
<1> QED
  BY <1>1, <1>2, <1>3, <1>4, <1>5, <1>6, <1>7, <1>8, <1>9, <1>10
     DEF Next, Writer, TaskStep, Interrupt

\* telemetry_capture asks for room once, before the first byte: whatever the
\* other writers, the interrupt and the host do meanwhile, the queue never
\* holds a part of a frame whose rest was dropped, nor anything inside one.
THEOREM FramesWholeCorrect == ASSUME Marked PROVE Spec => []FramesWhole
<1>1. QueueInv => FramesWhole
  BY LinkedWhole DEF QueueInv
<1>2. QueueInv /\ [Next]_vars => QueueInv'
  BY NextQueue
<1> QED
  BY <1>1, <1>2, InitQueue, PTL DEF Spec
=============================================================================
