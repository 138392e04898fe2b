--------------------------- MODULE ProtocolProof ----------------------------
(***************************************************************************)
(* Theorems about Protocol, for every table, ring size and set of          *)
(* commands: its type invariant; that the host cannot change what the      *)
(* device measures, whatever becomes of the bytes it sends; and that       *)
(* Protocol implements ParamStore: the commands that arrive are served one *)
(* by one in their order, whatever the interrupt and the poll do to each   *)
(* other.                                                                  *)
(*                                                                         *)
(* The argument for the last is about positions.  The bytes in the frame   *)
(* and then in the ring (Stream) are the commands the account holds (Due), *)
(* one after the other, and a function gives the place where each of them  *)
(* ends.                                                                   *)
(***************************************************************************)
EXTENDS Protocol, SequenceTheorems, BasicFacts

-----------------------------------------------------------------------------
(* Pieces of a sequence. *)

LEMMA Piece ==
  ASSUME NEW S, NEW s \in Seq(S), NEW m \in Nat \ {0}, NEW n \in Nat, n <= Len(s)
  PROVE  /\ SubSeq(s, m, n) \in Seq(S)
         /\ Len(SubSeq(s, m, n)) = IF m <= n THEN n - m + 1 ELSE 0
         /\ \A i \in 1..(n - m + 1) : SubSeq(s, m, n)[i] = s[m + i - 1]
<1>1. Len(s) \in Nat
  BY LenProperties
<1>2. \A i \in m..n : s[i] \in S
  BY <1>1, ElementOfSeq
<1> QED BY <1>2, SubSeqProperties

\* What is left behind the first k elements.
LEMMA Behind ==
  ASSUME NEW S, NEW s \in Seq(S), NEW k \in Nat
  PROVE  /\ SubSeq(s, k + 1, Len(s)) \in Seq(S)
         /\ Len(SubSeq(s, k + 1, Len(s))) <= Len(s)
<1>1. Len(s) \in Nat
  BY LenProperties
<1> QED BY <1>1, Piece, k + 1 \in Nat \ {0}

LEMMA One ==
  ASSUME NEW S, NEW s \in Seq(S), NEW e \in S
  PROVE  Append(s, e) \in Seq(S) /\ Len(Append(s, e)) = Len(s) + 1
  OBVIOUS

LEMMA Joined ==
  ASSUME NEW S, NEW s \in Seq(S), NEW t \in Seq(S)
  PROVE  /\ s \o t \in Seq(S) /\ Len(s) \in Nat /\ Len(t) \in Nat
         /\ Len(s \o t) = Len(s) + Len(t)
         /\ \A i \in 1..(Len(s) + Len(t)) :
              (s \o t)[i] = IF i <= Len(s) THEN s[i] ELSE t[i - Len(s)]
  BY ConcatProperties, LenProperties

-----------------------------------------------------------------------------
(* The table. *)

TableType(t) == t \in [Id -> Seq(Byte)] /\ \A id \in Id : Len(t[id]) = Size[id]

LEMMA SizeType == ASSUME NEW id \in Id PROVE Size[id] \in 0..RawMax /\ RawMax \in Nat
  BY ParameterAssumption

LEMMA ValueType ==
  ASSUME NEW n \in Nat, NEW f \in [1..n -> Byte]
  PROVE  f \in Seq(Byte) /\ Len(f) = n
  OBVIOUS

\* Publishing a value changes one parameter, and not its size.
LEMMA PublishType ==
  ASSUME NEW t, TableType(t), NEW id \in Id, NEW bytes,
         \A i \in 1..Size[id] : bytes[i] \in Byte
  PROVE  /\ TableType(Publish(t, id, bytes))
         /\ \A other \in Id : other # id => Publish(t, id, bytes)[other] = t[other]
<1> DEFINE v == [i \in 1..Size[id] |-> bytes[i]]
<1>1. Size[id] \in Nat
  BY SizeType
<1>2. v \in [1..Size[id] -> Byte]
  OBVIOUS
<1>3. v \in Seq(Byte) /\ Len(v) = Size[id]
  BY <1>1, <1>2, ValueType
<1> HIDE DEF v
<1>4. Publish(t, id, bytes) = [t EXCEPT ![id] = v]
  BY DEF Publish, v
<1> QED BY <1>3, <1>4 DEF TableType

LEMMA WipedType == TableType(Wiped)
<1> SUFFICES ASSUME NEW id \in Id
             PROVE  Wiped[id] \in Seq(Byte) /\ Len(Wiped[id]) = Size[id]
  BY DEF TableType, Wiped
<1>1. Size[id] \in Nat /\ 0 \in Byte
  BY SizeType, ParameterAssumption DEF Byte
<1>2. Wiped[id] = [i \in 1..Size[id] |-> 0]
  BY DEF Wiped
<1>3. Wiped[id] \in [1..Size[id] -> Byte]
  BY <1>1, <1>2
<1> QED BY <1>1, <1>3, ValueType

-----------------------------------------------------------------------------
(* Commands on the wire. *)

LEMMA Bounds == RxSize \in Nat /\ RxSize >= 2 /\ FrameMax \in Nat /\ MaxSends \in Nat
                /\ Base \in Nat /\ Base > 3 /\ 0 \in Byte
  BY ProtocolAssumption, ParameterAssumption DEF Byte

LEMMA Digits ==
  ASSUME NEW n \in 0..(Base * Base - 1)
  PROVE  /\ n % Base \in Byte /\ n \div Base \in Byte
         /\ n = (n % Base) + Base * (n \div Base)
  BY Bounds DEF Byte

LEMMA WireIs ==
  ASSUME NEW c \in Command
  PROVE  /\ c.op = "list" => Wire(c) = <<LIST>> /\ Store!Length(c) = 1
         /\ c.op = "read" => /\ Wire(c) = <<READ, c.id % Base, c.id \div Base>>
                             /\ Store!Length(c) = 3
         /\ c.op = "write" =>
              /\ Wire(c) = <<WRITE, c.id % Base, c.id \div Base, Len(c.data)>> \o c.data
              /\ Store!Length(c) = 4 + Len(c.data)
         /\ c.op \in {"list", "read", "write"}
  BY CommandAssumption DEF Wire, Store!Length

\* The bytes of each command, one by one.
LEMMA WireBytes ==
  ASSUME NEW c \in Command
  PROVE  /\ c.op = "list" => Len(Wire(c)) = 1 /\ Wire(c)[1] = LIST
         /\ c.op # "list" => /\ Len(Wire(c)) >= 3
                             /\ Wire(c)[2] + Base * Wire(c)[3] = c.id
         /\ c.op = "read" => Len(Wire(c)) = 3 /\ Wire(c)[1] = READ
         /\ c.op = "write" => /\ Len(Wire(c)) = 4 + Len(c.data) /\ Wire(c)[1] = WRITE
                              /\ Wire(c)[4] = Len(c.data)
                              /\ \A i \in 1..Len(c.data) : Wire(c)[4 + i] = c.data[i]
         /\ Wire(c) \in Seq(Byte) /\ Len(Wire(c)) = Store!Length(c)
         /\ Len(Wire(c)) \in Nat \ {0} /\ c.op \in {"list", "read", "write"}
<1>1. /\ c.id \in 0..(Base * Base - 1) /\ c.data \in Seq(Byte) /\ Len(c.data) < Base
      /\ Len(c.data) \in Nat /\ c.op \in {"list", "read", "write"}
  BY CommandAssumption, LenProperties
<1>2. c.id % Base \in Byte /\ c.id \div Base \in Byte /\ (c.id % Base) + Base * (c.id \div Base) = c.id
  BY <1>1, Digits
<1>3. LIST \in Byte /\ READ \in Byte /\ WRITE \in Byte /\ Len(c.data) \in Byte
  BY <1>1, Bounds DEF LIST, READ, WRITE, Byte
<1>4. CASE c.op = "list"
  <2>1. Wire(c) = <<LIST>> /\ Store!Length(c) = 1
    BY <1>4, WireIs
  <2> QED BY <2>1, <1>3, <1>4
<1>5. CASE c.op = "read"
  <2> DEFINE lo == c.id % Base
             hi == c.id \div Base
  <2>1. Wire(c) = <<READ, lo, hi>> /\ Store!Length(c) = 3
    BY <1>5, WireIs
  <2>2. lo \in Byte /\ hi \in Byte /\ lo + Base * hi = c.id
    BY <1>2
  <2> HIDE DEF lo, hi
  <2>3. /\ Wire(c) \in Seq(Byte) /\ Len(Wire(c)) = 3
        /\ Wire(c)[1] = READ /\ Wire(c)[2] = lo /\ Wire(c)[3] = hi
    BY <2>1, <2>2, <1>3
  <2> QED BY <2>1, <2>2, <2>3, <1>5
<1>6. CASE c.op = "write"
  <2> DEFINE lo == c.id % Base
             hi == c.id \div Base
             head == <<WRITE, lo, hi, Len(c.data)>>
  <2>1. Wire(c) = head \o c.data /\ Store!Length(c) = 4 + Len(c.data)
    BY <1>6, WireIs
  <2>2. lo \in Byte /\ hi \in Byte /\ lo + Base * hi = c.id
    BY <1>2
  <2> HIDE DEF lo, hi
  <2>3. /\ head \in Seq(Byte) /\ Len(head) = 4
        /\ head[1] = WRITE /\ head[2] = lo /\ head[3] = hi /\ head[4] = Len(c.data)
    BY <2>2, <1>3
  <2> HIDE DEF head
  <2>4. /\ Wire(c) \in Seq(Byte) /\ Len(Wire(c)) = 4 + Len(c.data)
        /\ \A i \in 1..(4 + Len(c.data)) :
             Wire(c)[i] = IF i <= 4 THEN head[i] ELSE c.data[i - 4]
    <3>1. /\ head \o c.data \in Seq(Byte) /\ Len(head \o c.data) = Len(head) + Len(c.data)
          /\ \A i \in 1..(Len(head) + Len(c.data)) :
               (head \o c.data)[i] = IF i <= Len(head) THEN head[i] ELSE c.data[i - Len(head)]
      BY <2>3, <1>1, Joined
    <3> QED BY <3>1, <2>1, <2>3
  <2>5. \A i \in 1..Len(c.data) : Wire(c)[4 + i] = c.data[i]
    BY <2>4, <1>1
  <2>6. Wire(c)[1] = WRITE /\ Wire(c)[2] = lo /\ Wire(c)[3] = hi /\ Wire(c)[4] = Len(c.data)
    BY <2>3, <2>4, <1>1, SMTT(30)
  <2> QED BY <2>1, <2>2, <2>4, <2>5, <2>6, <1>1, <1>6, SMTT(30)
<1> QED BY <1>1, <1>4, <1>5, <1>6

-----------------------------------------------------------------------------
(* The type invariant. *)

Packets == Seq(Byte) \ {<< >>}

\* What the device has at hand, and how far a poll has come; the ring; the host;
\* the account.
DeviceType ==
  /\ pc \in Steps /\ toRead \in 0..FrameMax
  /\ frame \in Seq(Byte) /\ Len(frame) + toRead <= FrameMax
  /\ TableType(table) /\ turn \in {0, 1}
  /\ pc = "idle" => frame = << >>
  /\ pc # "read" => toRead = 0
RxType == rx \in Seq(Byte) /\ Len(rx) < RxSize
HostType == /\ half \in BOOLEAN /\ again \in BOOLEAN /\ sendsLeft \in 0..MaxSends
            /\ outbox \in Seq(Packets) /\ command \in Command \cup {Nothing}
AccountType == /\ lost \in BOOLEAN /\ taken \in 0..Len(todo)
               /\ todo \in Seq(Command \cup {Nothing})

Inv == DeviceType /\ RxType /\ HostType /\ AccountType

LEMMA InvTypes == Inv => TypeOK
  BY DEF Inv, TypeOK, DeviceType, RxType, HostType, AccountType, TableType

LEMMA TypeInit == Init => Inv
<1> SUFFICES ASSUME Init PROVE Inv
  OBVIOUS
<1>1. << >> \in Seq(Byte) /\ Len(<< >>) = 0
  BY EmptySeq
<1>2. << >> \in Seq(Packets) /\ << >> \in Seq(Command \cup {Nothing})
  BY EmptySeq
<1>3. 0 \in 0..FrameMax /\ 0 + 0 <= FrameMax /\ 0 < RxSize /\ MaxSends \in 0..MaxSends
      /\ 0 \in 0..0
  BY Bounds
<1>4. DeviceType
  BY <1>1, <1>3, WipedType DEF Init, DeviceType, Steps
<1>5. RxType
  BY <1>1, <1>3 DEF Init, RxType
<1>6. HostType
  BY <1>2, <1>3 DEF Init, HostType
<1>7. AccountType
  BY <1>1, <1>2, <1>3 DEF Init, AccountType
<1> QED BY <1>4, <1>5, <1>6, <1>7 DEF Inv

LEMMA DeviceSame == DeviceType /\ UNCHANGED deviceVars => DeviceType'
  BY DEF DeviceType, deviceVars, TableType

LEMMA HostSame == HostType /\ UNCHANGED hostVars => HostType'
  BY DEF HostType, hostVars

LEMMA SendsType == ASSUME Inv, NEW c \in Command, HostSends(c) PROVE Inv'
<1> DEFINE w == Wire(c)
<1>1. w \in Seq(Byte) /\ w # << >> /\ w \in Packets
  <2>1. w \in Seq(Byte) /\ Len(w) # 0
    BY WireBytes
  <2> QED BY <2>1, EmptySeq DEF Packets
<1> HIDE DEF w
<1>2. Len(w) \in Nat
  BY <1>1, LenProperties
<1>3. <<w>> \in Seq(Packets)
  BY <1>1
<1>4. ASSUME NEW k \in Splits, k < Len(w)
      PROVE  <<SubSeq(w, 1, k), SubSeq(w, k + 1, Len(w))>> \in Seq(Packets)
  <2>1. k \in Nat \ {0}
    BY ProtocolAssumption
  <2>2. SubSeq(w, 1, k) \in Seq(Byte) /\ Len(SubSeq(w, 1, k)) = k
    BY <1>1, <1>2, <1>4, <2>1, Piece
  <2>3. /\ SubSeq(w, k + 1, Len(w)) \in Seq(Byte)
        /\ Len(SubSeq(w, k + 1, Len(w))) = Len(w) - k
    BY <1>1, <1>2, <1>4, <2>1, Piece, k + 1 \in Nat \ {0}
  <2>4. Len(SubSeq(w, 1, k)) # 0 /\ Len(SubSeq(w, k + 1, Len(w))) # 0
    BY <2>1, <2>2, <2>3, <1>2, <1>4
  <2>5. SubSeq(w, 1, k) \in Packets /\ SubSeq(w, k + 1, Len(w)) \in Packets
    BY <2>2, <2>3, <2>4, EmptySeq DEF Packets
  <2> QED BY <2>5
<1>5. outbox' \in Seq(Packets)
  BY <1>3, <1>4 DEF HostSends, w
<1>6. sendsLeft' \in 0..MaxSends /\ command' \in Command \cup {Nothing}
  BY Bounds DEF HostSends, Inv, HostType
<1>7. DeviceType' /\ RxType' /\ AccountType'
  BY DeviceSame DEF HostSends, Inv, RxType, AccountType
<1>8. HostType'
  BY <1>5, <1>6 DEF Inv, HostSends, HostType
<1> QED BY <1>7, <1>8 DEF Inv

LEMMA DataOutType == ASSUME Inv, NEW repeated \in BOOLEAN, HandleDataOut(repeated) PROVE Inv'
<1> DEFINE packet == Head(outbox)
           first == Len(outbox) = 2
<1>1. /\ outbox # << >> /\ rx' = rx \o Kept(packet)
      /\ outbox' = IF repeated THEN outbox ELSE Tail(outbox)
      /\ command' = IF outbox' = << >> THEN Nothing ELSE command
      /\ half' = first /\ again' = repeated
      /\ lost' = (lost \/ Len(packet) > Room)
      /\ todo' = IF lost' THEN << >> ELSE IF first THEN todo ELSE Append(todo, command)
      /\ taken' = IF lost' THEN 0 ELSE taken
      /\ UNCHANGED <<deviceVars, sendsLeft>>
  BY DEF HandleDataOut
<1>2. outbox \in Seq(Packets) /\ rx \in Seq(Byte) /\ Len(rx) < RxSize /\ Len(rx) \in Nat
  BY LenProperties DEF Inv, RxType, HostType
<1>3. packet \in Seq(Byte) /\ Tail(outbox) \in Seq(Packets) /\ Len(packet) \in Nat
  BY <1>1, <1>2, HeadTailProperties, LenProperties DEF Packets
<1>4. first \in BOOLEAN
  OBVIOUS
<1> HIDE DEF packet, first
<1>5. Room \in Nat /\ Room = (RxSize - 1) - Len(rx)
  BY <1>2, Bounds DEF Room
<1>6. Kept(packet) \in Seq(Byte) /\ Len(Kept(packet)) <= Room /\ Len(Kept(packet)) \in Nat
  <2>1. CASE Len(packet) <= Room
    BY <2>1, <1>3 DEF Kept
  <2>2. CASE ~(Len(packet) <= Room)
    <3>1. /\ SubSeq(packet, 1, Room) \in Seq(Byte)
          /\ Len(SubSeq(packet, 1, Room)) = IF 1 <= Room THEN Room - 1 + 1 ELSE 0
      BY <2>2, <1>3, <1>5, Piece
    <3>2. Kept(packet) = SubSeq(packet, 1, Room)
      BY <2>2 DEF Kept
    <3> QED BY <3>1, <3>2, <1>5
  <2> QED BY <2>1, <2>2
<1>7. RxType'
  <2>1. rx \o Kept(packet) \in Seq(Byte) /\ Len(rx \o Kept(packet)) = Len(rx) + Len(Kept(packet))
    BY <1>2, <1>6, ConcatProperties
  <2>2. Len(rx) + Len(Kept(packet)) < RxSize
    BY <1>2, <1>5, <1>6, Bounds
  <2> QED BY <2>1, <2>2, <1>1 DEF RxType
<1>8. HostType'
  BY <1>1, <1>2, <1>3, <1>4 DEF Inv, HostType
<1>9. AccountType'
  <2>1. /\ todo \in Seq(Command \cup {Nothing}) /\ command \in Command \cup {Nothing}
        /\ taken \in 0..Len(todo) /\ lost \in BOOLEAN /\ Len(todo) \in Nat
    BY LenProperties DEF Inv, HostType, AccountType
  <2>2. /\ Append(todo, command) \in Seq(Command \cup {Nothing})
        /\ Len(Append(todo, command)) = Len(todo) + 1
    BY <2>1, One
  <2>3. << >> \in Seq(Command \cup {Nothing}) /\ Len(<< >>) = 0
    BY EmptySeq
  <2>4. lost' \in BOOLEAN
    BY <2>1, <1>1
  <2>5. CASE lost'
    BY <2>5, <2>3, <2>4, <1>1 DEF AccountType
  <2>6. CASE ~lost' /\ first
    BY <2>6, <2>1, <2>4, <1>1 DEF AccountType
  <2>7. CASE ~lost' /\ ~first
    <3>1. todo' = Append(todo, command) /\ taken' = taken
      BY <2>7, <1>1
    <3>2. taken \in 0..Len(Append(todo, command))
      BY <2>1, <2>2
    <3> QED BY <3>1, <3>2, <2>2, <2>4 DEF AccountType
  <2> QED BY <2>4, <2>5, <2>6, <2>7
<1>10. DeviceType'
  BY <1>1, DeviceSame DEF Inv
<1> QED BY <1>7, <1>8, <1>9, <1>10 DEF Inv

-----------------------------------------------------------------------------
(* The poll. *)

LEMMA BeginType == ASSUME Inv, PollBegin PROVE Inv'
<1>1. /\ pc = "idle" /\ pc' = "read"
      /\ toRead' = IF Len(rx) > FrameMax THEN FrameMax ELSE Len(rx)
      /\ lost' = (lost \/ half) /\ todo' = IF lost' THEN << >> ELSE todo
      /\ taken' = IF lost' THEN 0 ELSE Len(todo)
      /\ UNCHANGED <<rx, frame, table, answer, turn, hostVars>>
  BY DEF PollBegin
<1>2. frame = << >> /\ Len(frame) = 0 /\ Len(rx) \in Nat
  BY <1>1, LenProperties, EmptySeq DEF Inv, DeviceType, RxType
<1>3. DeviceType'
  <2>1. (IF Len(rx) > FrameMax THEN FrameMax ELSE Len(rx)) \in 0..FrameMax
    BY <1>2, Bounds
  <2>2. 0 + (IF Len(rx) > FrameMax THEN FrameMax ELSE Len(rx)) <= FrameMax
    BY <1>2, Bounds
  <2>3. frame' \in Seq(Byte) /\ TableType(table') /\ turn' \in {0, 1}
    BY <1>1 DEF Inv, DeviceType
  <2>4. Len(frame') + toRead' <= FrameMax
    BY <2>2, <1>1, <1>2
  <2> QED BY <2>1, <2>3, <2>4, <1>1 DEF DeviceType, Steps
<1>4. AccountType'
  <2>1. << >> \in Seq(Command \cup {Nothing}) /\ Len(<< >>) = 0 /\ 0 \in 0..0
    BY EmptySeq
  <2>2. Len(todo) \in 0..Len(todo) /\ todo \in Seq(Command \cup {Nothing})
    BY LenProperties DEF Inv, AccountType
  <2>3. lost' \in BOOLEAN
    BY <1>1 DEF Inv, AccountType, HostType
  <2> QED BY <2>1, <2>2, <2>3, <1>1 DEF AccountType
<1> QED BY <1>1, <1>3, <1>4, HostSame DEF Inv, RxType

LEMMA ReadType == ASSUME Inv, ReadByte PROVE Inv'
<1>1. /\ pc = "read"
      /\ IF ReadStops
           THEN pc' = "parse" /\ toRead' = 0 /\ UNCHANGED <<rx, frame>>
           ELSE /\ frame' = Append(frame, Head(rx)) /\ rx' = Tail(rx)
                /\ toRead' = IF toRead = 0 THEN 0 ELSE toRead - 1
                /\ UNCHANGED pc
      /\ UNCHANGED <<table, answer, turn, hostVars, todo, taken, lost>>
  BY DEF ReadByte
<1>2. HostType' /\ AccountType'
  BY <1>1, HostSame DEF Inv, AccountType
<1>3. /\ frame \in Seq(Byte) /\ Len(frame) \in Nat /\ rx \in Seq(Byte) /\ Len(rx) < RxSize
      /\ Len(rx) \in Nat /\ toRead \in 0..FrameMax /\ Len(frame) + toRead <= FrameMax
      /\ TableType(table) /\ turn \in {0, 1}
  BY LenProperties DEF Inv, DeviceType, RxType
<1>4. TableType(table') /\ turn' \in {0, 1}
  BY <1>1, <1>3
<1>5. CASE ReadStops
  <2>1. 0 \in 0..FrameMax /\ Len(frame) + 0 <= FrameMax
    BY <1>3, Bounds
  <2>2. DeviceType'
    BY <2>1, <1>1, <1>3, <1>4, <1>5 DEF DeviceType, Steps
  <2> QED BY <2>2, <1>1, <1>2, <1>5 DEF Inv, RxType
<1>6. CASE ~ReadStops
  <2>1. rx # << >> /\ toRead # 0
    BY <1>6 DEF ReadStops
  <2>2. Head(rx) \in Byte /\ Tail(rx) \in Seq(Byte) /\ Len(Tail(rx)) = Len(rx) - 1
    BY <2>1, <1>3, HeadTailProperties
  <2>3. Append(frame, Head(rx)) \in Seq(Byte) /\ Len(Append(frame, Head(rx))) = Len(frame) + 1
    BY <2>2, <1>3, One
  <2>4. /\ toRead - 1 \in 0..FrameMax /\ (Len(frame) + 1) + (toRead - 1) <= FrameMax
        /\ Len(rx) - 1 < RxSize
    BY <2>1, <1>3, Bounds
  <2>5. /\ frame' = Append(frame, Head(rx)) /\ rx' = Tail(rx) /\ toRead' = toRead - 1
        /\ pc' = pc
    BY <2>1, <1>1, <1>6
  <2>6. Len(frame') + toRead' <= FrameMax /\ Len(rx') < RxSize
    BY <2>2, <2>3, <2>4, <2>5
  <2>7. DeviceType'
    BY <2>3, <2>4, <2>5, <2>6, <1>1, <1>4 DEF DeviceType, Steps
  <2> QED BY <2>2, <2>5, <2>6, <2>7, <1>2 DEF Inv, RxType
<1> QED BY <1>5, <1>6

\* Every turn of the loop leaves a part of the frame, and the table typed.
LEMMA SkipType ==
  ASSUME Inv, pc = "parse", NEW k \in Nat, Skip(k), TableType(table'), turn' \in {0, 1}
  PROVE  DeviceType' /\ RxType' /\ HostType'
<1>1. /\ frame' = SubSeq(frame, k + 1, Len(frame))
      /\ UNCHANGED <<rx, pc, toRead, hostVars>>
  BY DEF Skip
<1>2. /\ frame \in Seq(Byte) /\ Len(frame) \in Nat /\ toRead = 0 /\ 0 \in 0..FrameMax
      /\ Len(frame) + 0 <= FrameMax
  BY LenProperties, Bounds DEF Inv, DeviceType
<1>3. SubSeq(frame, k + 1, Len(frame)) \in Seq(Byte) /\ Len(SubSeq(frame, k + 1, Len(frame))) \in Nat
  BY <1>2, Behind, LenProperties
<1>4. Len(SubSeq(frame, k + 1, Len(frame))) + 0 <= FrameMax
  BY <1>2, <1>3, Behind, Bounds
<1>5. DeviceType'
  BY <1>1, <1>2, <1>3, <1>4 DEF DeviceType, Steps
<1> QED BY <1>1, <1>5, HostSame DEF Inv, RxType

LEMMA AnsweredType == ASSUME Inv, Answered PROVE AccountType'
<1>1. /\ todo \in Seq(Command \cup {Nothing}) /\ taken \in 0..Len(todo) /\ Len(todo) \in Nat
      /\ lost \in BOOLEAN
  BY LenProperties DEF Inv, AccountType
<1>2. /\ todo' = IF todo = << >> THEN todo ELSE Tail(todo)
      /\ taken' = IF taken = 0 THEN 0 ELSE taken - 1
      /\ lost' = lost
  BY DEF Answered
<1>3. CASE todo = << >>
  <2>1. Len(todo) = 0 /\ taken = 0
    BY <1>1, <1>3, EmptySeq
  <2> QED BY <2>1, <1>1, <1>2, <1>3 DEF AccountType
<1>4. CASE todo # << >>
  <2>1. Tail(todo) \in Seq(Command \cup {Nothing}) /\ Len(Tail(todo)) = Len(todo) - 1
        /\ Len(todo) \in Nat \ {0}
    BY <1>1, <1>4, HeadTailProperties, EmptySeq
  <2>2. (IF taken = 0 THEN 0 ELSE taken - 1) \in 0..Len(Tail(todo))
    BY <2>1, <1>1
  <2> QED BY <2>1, <2>2, <1>1, <1>2, <1>4 DEF AccountType
<1> QED BY <1>3, <1>4

LEMMA ReplyType == ASSUME Inv, NEW m, Reply(m) PROVE turn' \in {0, 1}
<1>1. turn \in {0, 1} /\ turn' = 1 - turn
  BY DEF Inv, DeviceType, Reply
<1> QED BY <1>1

\* The host's command changes only what the host may write.
LEMMA WriteType ==
  ASSUME Inv, ParseWrite
  PROVE  /\ TableType(table')
         /\ \A id \in Id : table'[id] # table[id] => "rx" \in Direction[id]
<1> DEFINE n == frame[4]
           bytes == SubSeq(frame, 5, 4 + n)
           ok == MayWrite(Id16, n)
<1>1. Len(frame) >= 3 /\ ~PayloadMissing /\ table' = IF ok THEN Publish(table, Id16, bytes) ELSE table
  BY DEF ParseWrite
<1>2. frame \in Seq(Byte) /\ Len(frame) \in Nat /\ TableType(table)
  BY LenProperties DEF Inv, DeviceType
<1>3. Len(frame) > 3 /\ 4 + n <= Len(frame) /\ n \in Nat
  <2>1. Len(frame) > 3 /\ ~(4 + n > Len(frame))
    BY <1>1 DEF PayloadMissing
  <2>2. n \in Byte
    BY <2>1, <1>2, ElementOfSeq
  <2> QED BY <2>1, <2>2, <1>2, Bounds DEF Byte
<1> HIDE DEF n
<1>4. CASE ~ok
  BY <1>1, <1>2, <1>4
<1>5. CASE ok
  <2>1. Id16 \in Id /\ n = Size[Id16] /\ "rx" \in Direction[Id16]
    BY <1>5 DEF MayWrite, Find
  <2>2. bytes \in Seq(Byte) /\ Len(bytes) = n
    BY <1>2, <1>3, Piece, 4 + n \in Nat, 5 \in Nat \ {0}
  <2>3. \A i \in 1..Size[Id16] : bytes[i] \in Byte
    BY <2>1, <2>2, ElementOfSeq
  <2> HIDE DEF bytes
  <2>4. /\ TableType(Publish(table, Id16, bytes))
        /\ \A other \in Id : other # Id16 => Publish(table, Id16, bytes)[other] = table[other]
    BY <2>1, <2>3, <1>2, PublishType
  <2> QED BY <2>1, <2>4, <1>1, <1>5
<1> QED BY <1>4, <1>5

LEMMA ParseType == ASSUME Inv, Parse PROVE Inv'
<1>1. pc = "parse" /\ Len(frame) \in Nat /\ TableType(table) /\ turn \in {0, 1}
  BY LenProperties DEF Inv, DeviceType, Parse
<1>2. CASE ParseList
  <2>1. TableType(table') /\ turn' \in {0, 1}
    BY <1>1, <1>2, ReplyType DEF ParseList
  <2>2. DeviceType' /\ RxType' /\ HostType'
    BY <2>1, <1>1, <1>2, SkipType DEF ParseList
  <2> QED BY <2>2, <1>2, AnsweredType DEF ParseList, Inv
<1>3. CASE ParseShort
  <2>1. DeviceType' /\ RxType' /\ HostType'
    BY <1>1, <1>3, SkipType DEF ParseShort, Break
  <2> QED BY <2>1, <1>3 DEF ParseShort, Inv, AccountType
<1>4. CASE ParseRead
  <2>1. TableType(table') /\ turn' \in {0, 1}
    BY <1>1, <1>4, ReplyType DEF ParseRead
  <2>2. DeviceType' /\ RxType' /\ HostType'
    BY <2>1, <1>1, <1>4, SkipType DEF ParseRead
  <2> QED BY <2>2, <1>4, AnsweredType DEF ParseRead, Inv
<1>5. CASE ParseWriteMissing
  <2>1. TableType(table') /\ turn' \in {0, 1}
    BY <1>1, <1>5, ReplyType DEF ParseWriteMissing
  <2>2. DeviceType' /\ RxType' /\ HostType'
    BY <2>1, <1>1, <1>5, SkipType DEF ParseWriteMissing, Break
  <2>3. todo \in Seq(Command \cup {Nothing}) /\ taken \in Nat /\ lost \in BOOLEAN
    BY LenProperties DEF Inv, AccountType
  <2>4. SubSeq(todo, taken + 1, Len(todo)) \in Seq(Command \cup {Nothing})
    BY <2>3, Behind
  <2>5. todo' \in Seq(Command \cup {Nothing}) /\ taken' = 0 /\ lost' \in BOOLEAN
    BY <2>3, <2>4, <1>5 DEF ParseWriteMissing
  <2>6. 0 \in 0..Len(todo')
    BY <2>5, LenProperties
  <2> QED BY <2>2, <2>5, <2>6 DEF Inv, AccountType
<1>6. CASE ParseWrite
  <2>1. TableType(table') /\ turn' \in {0, 1}
    BY <1>6, WriteType, ReplyType DEF ParseWrite
  <2>2. 4 + frame[4] \in Nat
    <3>1. Len(frame) > 3
      BY <1>6 DEF ParseWrite, PayloadMissing
    <3>2. frame[4] \in Byte
      BY <3>1, <1>1, ElementOfSeq DEF Inv, DeviceType
    <3> QED BY <3>2, Bounds DEF Byte
  <2>3. DeviceType' /\ RxType' /\ HostType'
    BY <2>1, <2>2, <1>1, <1>6, SkipType DEF ParseWrite
  <2> QED BY <2>3, <1>6, AnsweredType DEF ParseWrite, Inv
<1>7. CASE ParseOther
  <2>1. DeviceType' /\ RxType' /\ HostType'
    BY <1>1, <1>7, SkipType DEF ParseOther
  <2> QED BY <2>1, <1>7 DEF ParseOther, Inv, AccountType
<1> QED BY <1>2, <1>3, <1>4, <1>5, <1>6, <1>7 DEF Parse

LEMMA EndType == ASSUME Inv, PollEnd PROVE Inv'
<1>1. /\ pc = "parse" /\ frame = << >> /\ pc' = "idle"
      /\ lost' = (lost /\ (half \/ rx # << >>))
      /\ UNCHANGED <<rx, toRead, frame, table, answer, turn, hostVars, todo, taken>>
  BY DEF PollEnd
<1>2. lost' \in BOOLEAN
  BY <1>1 DEF Inv, AccountType
<1>3. DeviceType'
  BY <1>1 DEF Inv, DeviceType, Steps
<1> QED BY <1>1, <1>2, <1>3, HostSame DEF Inv, RxType, AccountType

\* What a task publishes is not the host's to write.
LEMMA TaskType == ASSUME Inv, TaskPublishes PROVE Inv'
<1>1. PICK id \in Id : \E v \in Measured : table' = Publish(table, id, v)
  BY DEF TaskPublishes
<1>2. PICK v \in Measured : table' = Publish(table, id, v)
  BY <1>1
<1>3. \A i \in 1..Size[id] : v[i] \in Byte
  <2>1. v \in [1..RawMax -> Byte] /\ Size[id] <= RawMax /\ Size[id] \in Nat /\ RawMax \in Nat
    BY ProtocolAssumption, SizeType
  <2> QED BY <2>1
<1>4. TableType(table')
  BY <1>2, <1>3, PublishType DEF Inv, DeviceType
<1> QED BY <1>4, HostSame DEF TaskPublishes, Inv, DeviceType, RxType, AccountType

LEMMA TypeNext == ASSUME Inv, [Next]_vars PROVE Inv'
<1>1. CASE UNCHANGED vars
  BY <1>1, HostSame, DeviceSame DEF vars, Inv, RxType, AccountType
<1> QED BY <1>1, SendsType, DataOutType, BeginType, ReadType, ParseType, EndType, TaskType
        DEF Next, Poll

LEMMA InvAlways == Spec => []Inv
  BY TypeInit, TypeNext, PTL DEF Spec

\* Every variable keeps its type: the ring is never overfilled, the frame never
\* grows beyond its buffer and every value keeps the size of its parameter.
THEOREM TypeCorrect == Spec => []TypeOK
  BY InvTypes, InvAlways, PTL

\* The host changes no value that is the device's to measure, whatever it sends
\* and however much of that is dropped, repeated or parsed out of step.
THEOREM MeasuredKeptCorrect == Spec => MeasuredKept
<1> DEFINE Step == \A id \in Id : table'[id] # table[id] /\ "rx" \notin Direction[id]
                                    => pc = "idle" /\ pc' = "idle"
<1>1. ASSUME Inv, [Next]_vars PROVE Step
  <2> SUFFICES ASSUME NEW id \in Id, table'[id] # table[id], "rx" \notin Direction[id]
               PROVE  pc = "idle" /\ pc' = "idle"
    OBVIOUS
  <2>1. table' # table
    OBVIOUS
  <2>2. ~ ParseWrite
    BY <1>1, WriteType
  <2>3. TaskPublishes
    BY <2>1, <2>2, <1>1 DEF Next, Poll, Parse, HostSends, HandleDataOut, PollBegin, ReadByte,
          PollEnd, ParseList, ParseShort, ParseRead, ParseWriteMissing, ParseOther, deviceVars, vars
  <2> QED BY <2>3 DEF TaskPublishes
<1>2. MeasuredKept <=> [][Step]_vars
  BY PTL DEF MeasuredKept
<1> QED BY <1>1, <1>2, InvAlways, PTL DEF Spec

-----------------------------------------------------------------------------
(* Sequences put together and cut. *)

LEMMA JoinedEmpty ==
  ASSUME NEW S, NEW s \in Seq(S)
  PROVE  s \o << >> = s
  OBVIOUS

LEMMA NotEmpty == ASSUME NEW s, Len(s) # 0 PROVE s # << >>
  BY EmptySeq

LEMMA Pair ==
  ASSUME NEW a, NEW b
  PROVE  /\ Len(<<a, b>>) = 2 /\ <<a, b>> # << >>
         /\ Head(<<a, b>>) = a /\ Head(Tail(<<a, b>>)) = b
  OBVIOUS

LEMMA JoinedTwice ==
  ASSUME NEW S, NEW s \in Seq(S), NEW t \in Seq(S), NEW u \in Seq(S)
  PROVE  (s \o t) \o u = s \o (t \o u)
  OBVIOUS

\* One element moves from the second to the first.
LEMMA Passed ==
  ASSUME NEW S, NEW s \in Seq(S), NEW t \in Seq(S), t # << >>
  PROVE  Append(s, Head(t)) \o Tail(t) = s \o t
  OBVIOUS

\* What lies behind the first k elements.
LEMMA Rest ==
  ASSUME NEW S, NEW s \in Seq(S), NEW k \in 0..Len(s)
  PROVE  /\ SubSeq(s, k + 1, Len(s)) \in Seq(S)
         /\ Len(SubSeq(s, k + 1, Len(s))) = Len(s) - k
         /\ \A i \in 1..(Len(s) - k) : SubSeq(s, k + 1, Len(s))[i] = s[k + i]
<1>1. Len(s) \in Nat /\ k \in Nat /\ k + 1 \in Nat \ {0}
  BY LenProperties
<1>2. /\ SubSeq(s, k + 1, Len(s)) \in Seq(S)
      /\ Len(SubSeq(s, k + 1, Len(s))) = IF k + 1 <= Len(s) THEN Len(s) - (k + 1) + 1 ELSE 0
      /\ \A i \in 1..(Len(s) - (k + 1) + 1) : SubSeq(s, k + 1, Len(s))[i] = s[(k + 1) + i - 1]
  BY <1>1, Piece
<1> QED BY <1>1, <1>2

LEMMA RestJoined ==
  ASSUME NEW S, NEW s \in Seq(S), NEW t \in Seq(S), NEW k \in 0..Len(s)
  PROVE  SubSeq(s, k + 1, Len(s)) \o t = SubSeq(s \o t, k + 1, Len(s \o t))
<1> DEFINE a == SubSeq(s, k + 1, Len(s))
           b == SubSeq(s \o t, k + 1, Len(s \o t))
           n == Len(s) + Len(t) - k
<1>1. /\ s \o t \in Seq(S) /\ Len(s) \in Nat /\ Len(t) \in Nat
      /\ Len(s \o t) = Len(s) + Len(t)
      /\ \A i \in 1..(Len(s) + Len(t)) :
           (s \o t)[i] = IF i <= Len(s) THEN s[i] ELSE t[i - Len(s)]
  BY Joined
<1>2. k \in Nat /\ k <= Len(s) /\ k \in 0..Len(s \o t)
  BY <1>1
<1>3. a \in Seq(S) /\ Len(a) = Len(s) - k /\ \A i \in 1..(Len(s) - k) : a[i] = s[k + i]
  BY Rest
<1>4. b \in Seq(S) /\ Len(b) = n /\ \A i \in 1..n : b[i] = (s \o t)[k + i]
  BY <1>1, <1>2, Rest
<1> HIDE DEF a, b
<1>5. /\ a \o t \in Seq(S) /\ Len(a \o t) = n
      /\ \A i \in 1..n : (a \o t)[i] = IF i <= Len(a) THEN a[i] ELSE t[i - Len(a)]
  <2>1. /\ a \o t \in Seq(S) /\ Len(a \o t) = Len(a) + Len(t)
        /\ \A i \in 1..(Len(a) + Len(t)) :
             (a \o t)[i] = IF i <= Len(a) THEN a[i] ELSE t[i - Len(a)]
    BY <1>3, ConcatProperties
  <2>2. Len(a) + Len(t) = n
    BY <1>1, <1>2, <1>3
  <2> QED BY <2>1, <2>2
<1>6. ASSUME NEW i \in 1..n PROVE (a \o t)[i] = b[i]
  <2>1. k + i \in 1..(Len(s) + Len(t)) /\ b[i] = (s \o t)[k + i]
    BY <1>1, <1>2, <1>4
  <2>2. CASE i <= Len(a)
    BY <2>1, <2>2, <1>1, <1>2, <1>3, <1>5
  <2>3. CASE ~(i <= Len(a))
    <3>1. i - Len(a) = (k + i) - Len(s) /\ ~(k + i <= Len(s))
      BY <2>3, <1>1, <1>2, <1>3
    <3> QED BY <2>1, <2>3, <3>1, <1>1, <1>5
  <2> QED BY <2>2, <2>3
<1>7. a \o t = b
  BY <1>4, <1>5, <1>6, SeqEqual
<1> QED BY <1>7 DEF a, b

-----------------------------------------------------------------------------
(* Commands on the wire. *)

\* The bytes w lie in s, behind the first p.
At(s, p, w) == /\ p + Len(w) <= Len(s)
               /\ \A j \in 1..Len(w) : s[p + j] = w[j]

LEMMA AtJoined ==
  ASSUME NEW s \in Seq(Byte), NEW t \in Seq(Byte), NEW w \in Seq(Byte), NEW p \in Nat,
         At(s, p, w)
  PROVE  At(s \o t, p, w)
<1>1. Len(w) \in Nat /\ p + Len(w) <= Len(s) /\ \A j \in 1..Len(w) : s[p + j] = w[j]
  BY LenProperties DEF At
<1>2. /\ Len(s) \in Nat /\ Len(t) \in Nat /\ Len(s \o t) = Len(s) + Len(t)
      /\ \A i \in 1..(Len(s) + Len(t)) :
           (s \o t)[i] = IF i <= Len(s) THEN s[i] ELSE t[i - Len(s)]
  BY Joined
<1>3. ASSUME NEW j \in 1..Len(w) PROVE (s \o t)[p + j] = w[j]
  BY <1>1, <1>2
<1> QED BY <1>1, <1>2, <1>3 DEF At

LEMMA AtEnd ==
  ASSUME NEW s \in Seq(Byte), NEW w \in Seq(Byte)
  PROVE  At(s \o w, Len(s), w)
<1>1. /\ Len(s) \in Nat /\ Len(w) \in Nat /\ Len(s \o w) = Len(s) + Len(w)
      /\ \A i \in 1..(Len(s) + Len(w)) :
           (s \o w)[i] = IF i <= Len(s) THEN s[i] ELSE w[i - Len(s)]
  BY Joined
<1>2. ASSUME NEW j \in 1..Len(w) PROVE (s \o w)[Len(s) + j] = w[j]
  <2>1. Len(s) + j \in 1..(Len(s) + Len(w)) /\ ~(Len(s) + j <= Len(s))
        /\ (Len(s) + j) - Len(s) = j
    BY <1>1
  <2> QED BY <2>1, <1>1
<1> QED BY <1>1, <1>2 DEF At

LEMMA AtRest ==
  ASSUME NEW s \in Seq(Byte), NEW w \in Seq(Byte), NEW p \in Nat, NEW k \in 0..Len(s),
         p >= k, At(s, p, w)
  PROVE  At(SubSeq(s, k + 1, Len(s)), p - k, w)
<1>1. /\ Len(w) \in Nat /\ Len(s) \in Nat
      /\ p + Len(w) <= Len(s) /\ \A j \in 1..Len(w) : s[p + j] = w[j]
  BY LenProperties DEF At
<1> DEFINE r == SubSeq(s, k + 1, Len(s))
<1>2. Len(r) = Len(s) - k /\ \A i \in 1..(Len(s) - k) : r[i] = s[k + i]
  BY Rest
<1> HIDE DEF r
<1>3. ASSUME NEW j \in 1..Len(w) PROVE r[(p - k) + j] = w[j]
  <2>1. (p - k) + j \in 1..(Len(s) - k) /\ k + ((p - k) + j) = p + j
    BY <1>1
  <2> QED BY <2>1, <1>1, <1>2
<1>4. At(r, p - k, w)
  BY <1>1, <1>2, <1>3 DEF At
<1> QED BY <1>4 DEF r

-----------------------------------------------------------------------------
(* The bytes of several commands. *)

\* s is the bytes of the commands cs, and the i-th of them ends at cut[i].
Spells(s, cs, cut) ==
  /\ cut \in [0..Len(cs) -> Nat] /\ cut[0] = 0 /\ cut[Len(cs)] = Len(s)
  /\ \A i \in 1..Len(cs) : /\ cut[i] = cut[i - 1] + Len(Wire(cs[i]))
                           /\ At(s, cut[i - 1], Wire(cs[i]))
  /\ \A i, j \in 0..Len(cs) : i <= j => cut[i] <= cut[j]

LEMMA SpellsNothing == \E cut : Spells(<< >>, << >>, cut)
<1> DEFINE cut == [i \in 0..0 |-> 0]
<1>1. Len(<< >>) = 0
  BY EmptySeq
<1>2. Spells(<< >>, << >>, cut)
  BY <1>1 DEF Spells
<1> QED BY <1>2

\* One more command.
LEMMA SpellsMore ==
  ASSUME NEW s \in Seq(Byte), NEW cs \in Seq(Command), NEW cut, Spells(s, cs, cut),
         NEW c \in Command
  PROVE  \E new : /\ Spells(s \o Wire(c), cs \o <<c>>, new)
                  /\ \A i \in 0..Len(cs) : new[i] = cut[i]
<1> DEFINE w == Wire(c)
           N == Len(cs)
           new == [i \in 0..(N + 1) |-> IF i <= N THEN cut[i] ELSE Len(s) + Len(w)]
<1>1. /\ cut \in [0..N -> Nat] /\ cut[0] = 0 /\ cut[N] = Len(s)
      /\ \A i \in 1..N : cut[i] = cut[i - 1] + Len(Wire(cs[i])) /\ At(s, cut[i - 1], Wire(cs[i]))
      /\ \A i, j \in 0..N : i <= j => cut[i] <= cut[j]
  BY DEF Spells
<1>2. w \in Seq(Byte) /\ Len(w) \in Nat /\ N \in Nat /\ Len(s) \in Nat
      /\ \A i \in 1..N : cs[i] \in Command
  BY WireBytes, LenProperties, ElementOfSeq
<1>3. /\ cs \o <<c>> \in Seq(Command) /\ Len(cs \o <<c>>) = N + 1
      /\ \A i \in 1..(N + 1) : (cs \o <<c>>)[i] = IF i <= N THEN cs[i] ELSE c
  <2>1. <<c>> \in Seq(Command) /\ Len(<<c>>) = 1 /\ <<c>>[1] = c
    OBVIOUS
  <2>2. /\ cs \o <<c>> \in Seq(Command) /\ Len(cs \o <<c>>) = N + 1
        /\ \A i \in 1..(N + 1) : (cs \o <<c>>)[i] = IF i <= N THEN cs[i] ELSE <<c>>[i - N]
    BY <2>1, Joined
  <2>3. \A i \in 1..(N + 1) : ~(i <= N) => i - N = 1
    BY <1>2
  <2> QED BY <2>1, <2>2, <2>3
<1>4. Len(s \o w) = Len(s) + Len(w)
  BY <1>2, Joined
<1>5. \A i \in 1..N : Wire(cs[i]) \in Seq(Byte)
  BY <1>2, WireBytes
<1> HIDE DEF w, N
<1>6. /\ new \in [0..(N + 1) -> Nat] /\ new[0] = 0 /\ new[N + 1] = Len(s) + Len(w)
      /\ \A i \in 0..N : new[i] = cut[i]
  BY <1>1, <1>2
<1>7. ASSUME NEW i \in 0..(N + 1), NEW j \in 0..(N + 1), i <= j
      PROVE  new[i] <= new[j]
  <2>1. \A n \in 0..N : cut[n] \in Nat /\ cut[n] <= Len(s)
    BY <1>1, <1>2
  <2> QED BY <2>1, <1>1, <1>2, <1>6, <1>7
<1> HIDE DEF new
<1>8. ASSUME NEW i \in 1..(N + 1)
      PROVE  /\ new[i] = new[i - 1] + Len(Wire((cs \o <<c>>)[i]))
             /\ At(s \o w, new[i - 1], Wire((cs \o <<c>>)[i]))
  <2>1. CASE i <= N
    <3>1. i \in 1..N /\ i - 1 \in 0..N /\ i \in 0..N /\ (cs \o <<c>>)[i] = cs[i]
      BY <2>1, <1>2, <1>3
    <3>2. new[i] = cut[i] /\ new[i - 1] = cut[i - 1] /\ cut[i - 1] \in Nat
      BY <3>1, <1>1, <1>6
    <3>3. cut[i] = cut[i - 1] + Len(Wire(cs[i])) /\ At(s, cut[i - 1], Wire(cs[i]))
      BY <3>1, <1>1
    <3>4. At(s \o w, cut[i - 1], Wire(cs[i]))
      BY <3>1, <3>2, <3>3, <1>2, <1>5, AtJoined
    <3> QED BY <3>1, <3>2, <3>3, <3>4
  <2>2. CASE ~(i <= N)
    <3>1. i = N + 1 /\ i - 1 = N /\ N \in 0..N /\ (cs \o <<c>>)[i] = c
      BY <2>2, <1>2, <1>3
    <3>2. new[i - 1] = Len(s) /\ new[i] = Len(s) + Len(w)
      BY <3>1, <1>1, <1>6
    <3>3. At(s \o w, Len(s), w)
      BY <1>2, AtEnd
    <3> QED BY <3>1, <3>2, <3>3 DEF w
  <2> QED BY <2>1, <2>2
<1>9. Spells(s \o w, cs \o <<c>>, new)
  BY <1>3, <1>4, <1>6, <1>7, <1>8 DEF Spells
<1> QED BY <1>6, <1>9 DEF w, N

\* The first n commands are gone.
LEMMA SpellsRest ==
  ASSUME NEW s \in Seq(Byte), NEW cs \in Seq(Command), NEW cut, Spells(s, cs, cut),
         NEW n \in 0..Len(cs)
  PROVE  /\ cut[n] \in 0..Len(s)
         /\ \E new : /\ Spells(SubSeq(s, cut[n] + 1, Len(s)), SubSeq(cs, n + 1, Len(cs)), new)
                     /\ \A i \in 0..(Len(cs) - n) : new[i] = cut[n + i] - cut[n]
<1> DEFINE N == Len(cs)
           k == cut[n]
           r == SubSeq(s, k + 1, Len(s))
           rs == SubSeq(cs, n + 1, N)
           new == [i \in 0..(N - n) |-> cut[n + i] - k]
<1>1. /\ cut \in [0..N -> Nat] /\ cut[0] = 0 /\ cut[N] = Len(s)
      /\ \A i \in 1..N : cut[i] = cut[i - 1] + Len(Wire(cs[i])) /\ At(s, cut[i - 1], Wire(cs[i]))
      /\ \A i, j \in 0..N : i <= j => cut[i] <= cut[j]
  BY DEF Spells
<1>2. /\ N \in Nat /\ n \in Nat /\ n <= N /\ n \in 0..N /\ Len(s) \in Nat
      /\ \A i \in 1..N : cs[i] \in Command
  BY LenProperties, ElementOfSeq
<1>3. \A i \in 1..N : Wire(cs[i]) \in Seq(Byte) /\ Len(Wire(cs[i])) \in Nat
  BY <1>2, WireBytes
<1>4. Len(rs) = N - n /\ \A i \in 1..(N - n) : rs[i] = cs[n + i]
  BY <1>2, Rest
<1>5. k \in 0..Len(s) /\ k \in Nat
  <2>1. 0 \in 0..N /\ N \in 0..N /\ n \in 0..N /\ 0 <= n /\ n <= N
    BY <1>2
  <2> HIDE DEF N
  <2>2. cut[0] <= cut[n] /\ cut[n] <= cut[N] /\ cut[n] \in Nat
    BY <2>1, <1>1
  <2> QED BY <2>2, <1>1, <1>2
<1>6. Len(r) = Len(s) - k
  BY <1>5, Rest
<1> HIDE DEF N, k, r, rs
<1>7. ASSUME NEW i \in 0..(N - n)
      PROVE  n + i \in 0..N /\ cut[n + i] \in Nat /\ cut[n + i] >= k
  <2>1. n + i \in 0..N /\ n <= n + i
    BY <1>2
  <2>2. cut[n] <= cut[n + i] /\ cut[n + i] \in Nat
    BY <2>1, <1>1, <1>2
  <2> QED BY <2>1, <2>2, <1>5 DEF k
<1>8. new \in [0..(N - n) -> Nat] /\ \A i \in 0..(N - n) : new[i] = cut[n + i] - k
  <2>1. \A i \in 0..(N - n) : cut[n + i] - k \in Nat
    BY <1>5, <1>7
  <2> QED BY <2>1
<1>9. new[0] = 0 /\ new[N - n] = Len(s) - k
  <2>1. 0 \in 0..(N - n) /\ N - n \in 0..(N - n) /\ n + 0 = n /\ n + (N - n) = N
    BY <1>2
  <2>2. new[0] = cut[n] - k /\ new[N - n] = cut[N] - k
    BY <2>1, <1>8
  <2> QED BY <2>2, <1>1, <1>5 DEF k
<1> HIDE DEF new
<1>10. ASSUME NEW i \in 0..(N - n), NEW j \in 0..(N - n), i <= j PROVE new[i] <= new[j]
  <2>1. n + i <= n + j /\ n + i \in 0..N /\ n + j \in 0..N
    BY <1>2, <1>10
  <2>2. cut[n + i] <= cut[n + j]
    BY <2>1, <1>1
  <2> QED BY <2>2, <1>5, <1>7, <1>8
<1>11. ASSUME NEW i \in 1..(N - n)
       PROVE  new[i] = new[i - 1] + Len(Wire(rs[i])) /\ At(r, new[i - 1], Wire(rs[i]))
  <2>1. /\ n + i \in 1..N /\ i \in 0..(N - n) /\ i - 1 \in 0..(N - n)
        /\ (n + i) - 1 = n + (i - 1) /\ rs[i] = cs[n + i]
    <3>1. i \in Nat /\ 1 <= i /\ i <= N - n
      BY <1>2
    <3>2. /\ n + i \in 1..N /\ i \in 0..(N - n) /\ i - 1 \in 0..(N - n)
          /\ (n + i) - 1 = n + (i - 1)
      BY <3>1, <1>2
    <3>3. rs[i] = cs[n + i]
      BY <1>4
    <3> QED BY <3>2, <3>3
  <2>2. /\ new[i] = cut[n + i] - k /\ new[i - 1] = cut[n + (i - 1)] - k
        /\ cut[n + (i - 1)] \in Nat /\ cut[n + (i - 1)] >= k
    BY <2>1, <1>7, <1>8
  <2>3. /\ cut[n + i] = cut[n + (i - 1)] + Len(Wire(cs[n + i]))
        /\ At(s, cut[n + (i - 1)], Wire(cs[n + i]))
    BY <2>1, <1>1
  <2>4. Wire(cs[n + i]) \in Seq(Byte) /\ Len(Wire(cs[n + i])) \in Nat
    BY <2>1, <1>3
  <2>5. At(r, cut[n + (i - 1)] - k, Wire(cs[n + i]))
    BY <2>2, <2>3, <2>4, <1>5, AtRest DEF r
  <2> QED BY <2>1, <2>2, <2>3, <2>4, <2>5, <1>5, SMTT(30)
<1>12. Spells(r, rs, new)
  BY <1>4, <1>6, <1>8, <1>9, <1>10, <1>11 DEF Spells
<1> QED BY <1>5, <1>8, <1>12 DEF N, k, r, rs

\* The place where the last command ends is what ParamStore says they take: two
\* functions that grow alike are alike, up to the last place.
LEMMA TotalIs ==
  ASSUME NEW s \in Seq(Byte), NEW cs \in Seq(Command), NEW cut, Spells(s, cs, cut)
  PROVE  Store!Total(cs) = Len(s)
<1> DEFINE N == Len(cs)
           Adds(f) == f = [i \in 0..N |-> IF i = 0 THEN 0 ELSE f[i - 1] + Store!Length(cs[i])]
           g == CHOOSE f : Adds(f)
<1>1. /\ N \in Nat /\ cut \in [0..N -> Nat] /\ cut[0] = 0 /\ cut[N] = Len(s)
      /\ \A i \in 1..N : cut[i] = cut[i - 1] + Len(Wire(cs[i]))
      /\ \A i \in 1..N : cs[i] \in Command
  BY LenProperties, ElementOfSeq DEF Spells
<1>2. \A i \in 1..N : Len(Wire(cs[i])) = Store!Length(cs[i])
  BY <1>1, WireBytes
<1>3. Store!Total(cs) = g[N]
  BY DEF Store!Total
<1> HIDE DEF N
<1>4. Adds(cut)
  <2> DEFINE h == [i \in 0..N |-> IF i = 0 THEN 0 ELSE cut[i - 1] + Store!Length(cs[i])]
  <2>1. ASSUME NEW i \in 0..N PROVE cut[i] = h[i]
    <3>1. CASE i = 0
      BY <3>1, <1>1
    <3>2. CASE i # 0
      <4>1. i \in 1..N
        BY <3>2, <1>1
      <4> QED BY <4>1, <3>2, <1>1, <1>2
    <3> QED BY <3>1, <3>2
  <2>2. cut = [i \in 0..N |-> cut[i]]
    BY <1>1
  <2> QED BY <2>1, <2>2
<1>5. Adds(g)
  BY <1>4
<1> HIDE DEF g
<1>6. g[0] = 0 /\ \A i \in 1..N : g[i] = g[i - 1] + Store!Length(cs[i])
  BY <1>1, <1>5
<1> HIDE DEF Adds
<1> DEFINE Same == {i \in 0..N : g[i] = cut[i]}
<1>7. 0 \in Same
  BY <1>1, <1>6
<1>8. ASSUME NEW i \in 0..N, i \in Same, i < N PROVE i + 1 \in Same
  <2>1. i + 1 \in 1..N /\ (i + 1) - 1 = i /\ i + 1 \in 0..N
    BY <1>1, <1>8
  <2>2. g[i + 1] = g[i] + Store!Length(cs[i + 1])
    BY <2>1, <1>6
  <2>3. cut[i + 1] = cut[i] + Store!Length(cs[i + 1])
    BY <2>1, <1>1, <1>2
  <2> QED BY <2>1, <2>2, <2>3, <1>8
<1> HIDE DEF Same
<1>9. 0..N \subseteq Same
  BY <1>1, <1>7, <1>8, Climb
<1>10. g[N] = cut[N]
  BY <1>1, <1>9 DEF Same
<1> QED BY <1>1, <1>3, <1>10

-----------------------------------------------------------------------------
(* The invariant. *)

\* A command whose first part has arrived counts as if it were all there.
Coming == IF half THEN Head(outbox) ELSE << >>
Expected == IF half THEN <<command>> ELSE << >>
Stream == (frame \o rx) \o Coming
Due == todo \o Expected

\* The packets on their way are the command's bytes.
Packed ==
  /\ outbox # << >> => command \in Command
  /\ Len(outbox) <= 2 /\ (half => Len(outbox) = 1)
  /\ Len(outbox) = 1 /\ ~half => Head(outbox) = Wire(command)
  /\ Len(outbox) = 2 => Head(outbox) \o Head(Tail(outbox)) = Wire(command)

\* A poll takes whole commands: what it still has to read is in the ring, and
\* then the frame ends where one of them does.
Counted(cut) ==
  /\ pc = "read" => toRead <= Len(rx) /\ Len(frame) + toRead = cut[taken]
  /\ pc = "parse" => Len(frame) = cut[taken]

Following ==
  /\ todo \in Seq(Command)
  /\ \E cut : Spells(Stream, Due, cut) /\ Counted(cut)

Linked == Inv /\ Packed /\ (IF lost THEN todo = << >> ELSE Following)

LEMMA LinkedInit == Init => Linked
<1> SUFFICES ASSUME Init PROVE Linked
  OBVIOUS
<1>1. Inv
  BY TypeInit
<1>2. Packed
  <2>1. Len(<< >>) = 0
    BY EmptySeq
  <2> QED BY <2>1 DEF Init, Packed
<1>3. Stream = << >> /\ Due = << >>
  BY DEF Init, Stream, Due, Coming, Expected
<1>4. \E cut : Spells(Stream, Due, cut) /\ Counted(cut)
  BY <1>3, SpellsNothing DEF Counted, Init
<1>5. << >> \in Seq(Command)
  BY EmptySeq
<1> QED BY <1>1, <1>2, <1>4, <1>5 DEF Linked, Following, Init

LEMMA StreamType ==
  ASSUME Linked
  PROVE  /\ Coming \in Seq(Byte) /\ frame \o rx \in Seq(Byte) /\ Stream \in Seq(Byte)
         /\ frame \in Seq(Byte) /\ rx \in Seq(Byte) /\ Len(frame) \in Nat /\ Len(rx) \in Nat
         /\ Len(frame \o rx) = Len(frame) + Len(rx)
         /\ half => command \in Command
<1>1. /\ frame \in Seq(Byte) /\ rx \in Seq(Byte) /\ outbox \in Seq(Packets) /\ half \in BOOLEAN
      /\ Len(frame) \in Nat /\ Len(rx) \in Nat
  BY LenProperties DEF Linked, Inv, DeviceType, RxType, HostType
<1>2. half => outbox # << >> /\ command \in Command
  <2>1. Len(<< >>) = 0
    BY EmptySeq
  <2> QED BY <2>1 DEF Linked, Packed
<1>3. half => Head(outbox) \in Packets
  BY <1>1, <1>2, HeadTailProperties
<1>4. << >> \in Seq(Byte)
  BY EmptySeq
<1>5. Coming \in Seq(Byte)
  BY <1>1, <1>3, <1>4 DEF Coming, Packets
<1>6. frame \o rx \in Seq(Byte) /\ Len(frame \o rx) = Len(frame) + Len(rx)
  BY <1>1, Joined
<1>7. Stream \in Seq(Byte)
  BY <1>5, <1>6, Joined DEF Stream
<1> QED BY <1>1, <1>2, <1>5, <1>6, <1>7

LEMMA DueType ==
  ASSUME Linked, ~lost
  PROVE  /\ todo \in Seq(Command) /\ Expected \in Seq(Command) /\ Due \in Seq(Command)
         /\ Len(todo) \in Nat /\ Len(Due) = Len(todo) + (IF half THEN 1 ELSE 0)
         /\ taken \in 0..Len(todo)
<1>1. todo \in Seq(Command) /\ Len(todo) \in Nat /\ taken \in 0..Len(todo)
  BY LenProperties DEF Linked, Following, Inv, AccountType
<1>2. half => <<command>> \in Seq(Command) /\ Len(<<command>>) = 1
  BY StreamType
<1>3. << >> \in Seq(Command) /\ Len(<< >>) = 0
  BY EmptySeq
<1>4. Expected \in Seq(Command) /\ Len(Expected) = IF half THEN 1 ELSE 0
  BY <1>2, <1>3 DEF Expected
<1>5. Due \in Seq(Command) /\ Len(Due) = Len(todo) + Len(Expected)
  BY <1>1, <1>4, Joined DEF Due
<1> QED BY <1>1, <1>4, <1>5

\* The account stays as it is.
LEMMA FollowingSame ==
  ASSUME Linked, ~lost, todo' = todo, Stream' = Stream, Due' = Due,
         \A cut : Counted(cut) => Counted(cut)'
  PROVE  Following'
<1>1. todo \in Seq(Command) /\ \E cut : Spells(Stream, Due, cut) /\ Counted(cut)
  BY DEF Linked, Following
<1>2. PICK cut : Spells(Stream, Due, cut) /\ Counted(cut)
  BY <1>1
<1>3. Spells(Stream', Due', cut) /\ Counted(cut)'
  BY <1>2
<1> QED BY <1>1, <1>3 DEF Following

-----------------------------------------------------------------------------
(* The host and the interrupt. *)

LEMMA LinkedSends ==
  ASSUME Linked, Inv', NEW c \in Command, HostSends(c)
  PROVE  Linked'
<1> DEFINE w == Wire(c)
<1>1. /\ outbox = << >> /\ command' = c
      /\ \/ outbox' = <<w>>
         \/ \E k \in Splits : /\ k < Len(w)
                              /\ outbox' = <<SubSeq(w, 1, k), SubSeq(w, k + 1, Len(w))>>
      /\ UNCHANGED <<rx, deviceVars, half, again, todo, taken, lost>>
  BY DEF HostSends
<1>2. ~half
  <2>1. Len(<< >>) = 0
    BY EmptySeq
  <2> QED BY <2>1, <1>1 DEF Linked, Packed
<1>3. w \in Seq(Byte) /\ Len(w) \in Nat
  BY WireBytes
<1>4. Packed'
  <2>1. CASE outbox' = <<w>>
    <3>1. Len(outbox') = 1 /\ Head(outbox') = w
      BY <2>1
    <3> QED BY <3>1, <1>1, <1>2 DEF Packed
  <2>2. CASE \E k \in Splits : /\ k < Len(w)
                               /\ outbox' = <<SubSeq(w, 1, k), SubSeq(w, k + 1, Len(w))>>
    <3>1. PICK k \in Splits : /\ k < Len(w)
                              /\ outbox' = <<SubSeq(w, 1, k), SubSeq(w, k + 1, Len(w))>>
      BY <2>2
    <3>2. k \in 0..Len(w) /\ 1 \in 1..(Len(w) + 1) /\ k \in (1 - 1)..Len(w) /\ Len(w) \in k..Len(w)
      BY <3>1, <1>3, ProtocolAssumption
    <3>3. SubSeq(w, 1, k) \o SubSeq(w, k + 1, Len(w)) = SubSeq(w, 1, Len(w))
      BY <3>2, <1>3, ConcatAdjacentSubSeq
    <3>4. SubSeq(w, 1, Len(w)) = w
      BY <1>3, SubSeqFull
    <3> HIDE DEF w
    <3>5. /\ Len(outbox') = 2 /\ Head(outbox') = SubSeq(w, 1, k)
          /\ Head(Tail(outbox')) = SubSeq(w, k + 1, Len(w)) /\ outbox' # << >>
      BY <3>1, Pair
    <3>6. Head(outbox') \o Head(Tail(outbox')) = w
      BY <3>3, <3>4, <3>5
    <3>7. command' \in Command /\ Wire(command') = w /\ ~half'
      BY <1>1, <1>2 DEF w
    <3>8. Len(outbox') <= 2 /\ ~(Len(outbox') = 1)
      BY <3>5
    <3> QED BY <3>5, <3>6, <3>7, <3>8, Zenon DEF Packed
  <2> QED BY <2>1, <2>2, <1>1
<1>5. Stream' = Stream /\ Due' = Due
  BY <1>1, <1>2 DEF Stream, Coming, Due, Expected, deviceVars
<1>6. \A cut : Counted(cut) => Counted(cut)'
  BY <1>1 DEF Counted, deviceVars
<1>7. ~lost => Following'
  BY <1>1, <1>5, <1>6, FollowingSame
<1> QED BY <1>1, <1>4, <1>7 DEF Linked

\* What a packet does while nothing is dropped: a whole command, or the first
\* part of one, makes the account longer; a second part was counted before.
LEMMA Arrives ==
  ASSUME Linked, Inv', NEW repeated \in BOOLEAN, HandleDataOut(repeated), ~lost'
  PROVE  /\ half /\ ~half' => Stream' = Stream /\ Due' = Due
         /\ ~half => /\ Stream' = Stream \o Wire(command) /\ Due' = Due \o <<command>>
                     /\ command \in Command
         /\ ~(half /\ half')
         /\ todo' = IF half' THEN todo ELSE Append(todo, command)
         /\ command \in Command /\ rx' = rx \o Head(outbox)
<1> DEFINE packet == Head(outbox)
           first == Len(outbox) = 2
<1>1. /\ outbox # << >> /\ rx' = rx \o Kept(packet)
      /\ outbox' = IF repeated THEN outbox ELSE Tail(outbox)
      /\ command' = IF outbox' = << >> THEN Nothing ELSE command
      /\ half' = first /\ ~lost /\ ~(Len(packet) > Room)
      /\ repeated => ~first /\ ~half
      /\ todo' = IF first THEN todo ELSE Append(todo, command)
      /\ UNCHANGED <<deviceVars, sendsLeft>>
  BY DEF HandleDataOut
<1>2. /\ outbox \in Seq(Packets) /\ rx \in Seq(Byte) /\ Len(rx) \in Nat /\ Len(outbox) \in Nat
      /\ packet \in Seq(Byte) /\ Len(packet) \in Nat /\ Tail(outbox) \in Seq(Packets)
      /\ Len(Tail(outbox)) = Len(outbox) - 1 /\ half \in BOOLEAN
  BY <1>1, HeadTailProperties, LenProperties DEF Linked, Inv, RxType, HostType, Packets
<1>3. Room \in Int
  BY <1>2, Bounds DEF Room
<1>4. rx' = rx \o packet
  BY <1>1, <1>2, <1>3 DEF Kept
<1>5. command \in Command /\ Len(outbox) \in {1, 2}
  <2>1. Len(outbox) # 0
    BY <1>1, <1>2, EmptySeq
  <2> QED BY <2>1, <1>1, <1>2 DEF Linked, Packed
<1>6. /\ frame \in Seq(Byte) /\ Coming \in Seq(Byte) /\ Stream \in Seq(Byte)
      /\ frame' = frame /\ frame \o rx \in Seq(Byte)
  BY <1>1, StreamType DEF deviceVars
<1> HIDE DEF packet
<1>7. frame \o (rx \o packet) = (frame \o rx) \o packet
  <2>1. frame \in Seq(Byte) /\ rx \in Seq(Byte) /\ packet \in Seq(Byte)
    BY <1>2, <1>6
  <2> QED BY <2>1, JoinedTwice, SMTT(30)
<1>8. todo \in Seq(Command) /\ Append(todo, command) = todo \o <<command>>
  BY <1>1, <1>5, DueType
<1>9. CASE half
  <2>1. Len(outbox) = 1 /\ ~first /\ ~half'
    <3>1. Len(outbox) = 1
      BY <1>9 DEF Linked, Packed
    <3>2. ~first
      BY <3>1
    <3> QED BY <3>1, <3>2, <1>1
  <2>2. Stream = (frame \o rx) \o packet
    BY <1>9 DEF Stream, Coming, packet
  <2>3. Stream' = ((frame \o rx) \o packet) \o << >>
    BY <2>1, <1>4, <1>6, <1>7 DEF Stream, Coming
  <2>4. (frame \o rx) \o packet \in Seq(Byte)
    BY <1>2, <1>6, Joined
  <2>5. Stream' = Stream
    BY <2>2, <2>3, <2>4, JoinedEmpty
  <2>6. Due = todo \o <<command>>
    BY <1>9 DEF Due, Expected
  <2>7. Due' = (todo \o <<command>>) \o << >>
    BY <2>1, <1>1, <1>8 DEF Due, Expected
  <2>8. <<command>> \in Seq(Command)
    BY <1>5
  <2>9. todo \o <<command>> \in Seq(Command)
    BY <2>8, <1>8, Joined
  <2>10. Due' = Due
    BY <2>6, <2>7, <2>9, JoinedEmpty
  <2> QED BY <2>1, <2>5, <2>10, <1>1, <1>4, <1>5, <1>9 DEF packet
<1>10. CASE ~half
  <2>1. Stream = (frame \o rx) /\ Due = todo
    BY <1>6, <1>8, <1>10, JoinedEmpty DEF Stream, Coming, Due, Expected
  <2>2. CASE first
    <3>1. /\ half' /\ ~repeated /\ outbox' = Tail(outbox) /\ Len(outbox) = 2
          /\ packet \o Head(Tail(outbox)) = Wire(command)
      BY <2>2, <1>1 DEF Linked, Packed, packet
    <3>2. Len(Tail(outbox)) = 1 /\ Tail(outbox) # << >>
      <4>1. Len(Tail(outbox)) = 1
        BY <3>1, <1>2
      <4>2. Len(Tail(outbox)) # 0
        BY <4>1
      <4> QED BY <4>1, <4>2, NotEmpty
    <3>3. command' = command
      BY <3>1, <3>2, <1>1
    <3>4. Head(Tail(outbox)) \in Seq(Byte)
      <4>1. Head(Tail(outbox)) \in Packets
        BY <3>2, <1>2, HeadTailProperties
      <4> QED BY <4>1 DEF Packets
    <3>5. Stream' = ((frame \o rx) \o packet) \o Head(Tail(outbox))
      BY <3>1, <1>4, <1>6, <1>7 DEF Stream, Coming
    <3>6. Stream' = (frame \o rx) \o (packet \o Head(Tail(outbox)))
      <4>1. frame \o rx \in Seq(Byte) /\ packet \in Seq(Byte)
        BY <1>2, <1>6
      <4>2. ((frame \o rx) \o packet) \o Head(Tail(outbox))
              = (frame \o rx) \o (packet \o Head(Tail(outbox)))
        <5> DEFINE a == frame \o rx
                   b == Head(Tail(outbox))
        <5>1. a \in Seq(Byte) /\ packet \in Seq(Byte) /\ b \in Seq(Byte)
          BY <4>1, <3>4
        <5> HIDE DEF a, b
        <5>2. (a \o packet) \o b = a \o (packet \o b)
          BY <5>1, JoinedTwice
        <5> QED BY <5>2 DEF a, b
      <4> QED BY <4>2, <3>5
    <3>7. Stream' = Stream \o Wire(command)
      BY <3>1, <3>6, <2>1
    <3>8. Due' = Due \o <<command>>
      BY <3>1, <3>3, <2>1, <2>2, <1>1 DEF Due, Expected
    <3> QED BY <3>1, <3>7, <3>8, <2>2, <1>1, <1>4, <1>5, <1>10 DEF packet
  <2>3. CASE ~first
    <3>1. ~half' /\ Len(outbox) = 1 /\ packet = Wire(command)
      BY <2>3, <1>1, <1>5, <1>10 DEF Linked, Packed, packet
    <3>2. Stream' = ((frame \o rx) \o packet) \o << >>
      BY <3>1, <1>4, <1>6, <1>7 DEF Stream, Coming
    <3>3. (frame \o rx) \o packet \in Seq(Byte)
      BY <1>2, <1>6, Joined
    <3>4. Stream' = Stream \o Wire(command)
      BY <3>1, <3>2, <3>3, <2>1, JoinedEmpty
    <3>5. Due' = (todo \o <<command>>) \o << >>
      BY <3>1, <2>3, <1>1, <1>8 DEF Due, Expected
    <3>6. <<command>> \in Seq(Command)
      BY <1>5
    <3>7. todo \o <<command>> \in Seq(Command)
      BY <3>6, <1>8, Joined
    <3>8. Due' = Due \o <<command>>
      BY <3>5, <3>7, <2>1, JoinedEmpty
    <3> QED BY <3>1, <3>4, <3>8, <2>3, <1>1, <1>4, <1>5, <1>10 DEF packet
  <2> QED BY <2>2, <2>3
<1> QED BY <1>2, <1>9, <1>10

LEMMA PackedDataOut ==
  ASSUME Linked, Inv', NEW repeated \in BOOLEAN, HandleDataOut(repeated)
  PROVE  Packed'
<1>1. /\ outbox # << >>
      /\ outbox' = IF repeated THEN outbox ELSE Tail(outbox)
      /\ command' = IF outbox' = << >> THEN Nothing ELSE command
      /\ half' = (Len(outbox) = 2)
      /\ repeated => Len(outbox) # 2 /\ ~half
  BY DEF HandleDataOut
<1>2. /\ outbox \in Seq(Packets) /\ Len(outbox) \in Nat /\ Tail(outbox) \in Seq(Packets)
      /\ Len(Tail(outbox)) = Len(outbox) - 1
  BY <1>1, HeadTailProperties, LenProperties DEF Linked, Inv, HostType
<1>3. command \in Command /\ Len(outbox) \in {1, 2}
  <2>1. Len(outbox) # 0
    BY <1>1, <1>2, EmptySeq
  <2> QED BY <2>1, <1>1, <1>2 DEF Linked, Packed
<1>4. CASE repeated
  <2>1. outbox' = outbox /\ Len(outbox) = 1 /\ ~half /\ ~half' /\ command' = command
    BY <1>1, <1>3, <1>4
  <2> QED BY <2>1, <1>3 DEF Linked, Packed
<1>5. CASE ~repeated /\ Len(outbox) = 2
  <2>1. outbox' = Tail(outbox) /\ Len(outbox') = 1 /\ half'
    <3>1. half' /\ outbox' = Tail(outbox)
      BY <1>1, <1>5
    <3>2. Len(Tail(outbox)) = 1
      BY <1>2, <1>5
    <3> QED BY <3>1, <3>2
  <2>2. outbox' # << >>
    BY <2>1, NotEmpty
  <2>3. command' = command
    BY <2>2, <1>1
  <2>4. Len(outbox') <= 2 /\ ~(Len(outbox') = 2)
    BY <2>1
  <2> QED BY <2>1, <2>3, <2>4, <1>3, Zenon DEF Packed
<1>6. CASE ~repeated /\ Len(outbox) = 1
  <2>1. outbox' = Tail(outbox) /\ Len(outbox') = 0 /\ ~half' /\ outbox' \in Seq(Packets)
    BY <1>1, <1>2, <1>6
  <2>2. outbox' = << >>
    BY <2>1, EmptySeq
  <2>3. Len(outbox') <= 2 /\ ~(Len(outbox') = 2) /\ ~(Len(outbox') = 1)
    <3>1. Len(outbox') = 0
      BY <2>1
    <3> QED BY <3>1
  <2> QED BY <2>1, <2>2, <2>3, Zenon DEF Packed
<1> QED BY <1>3, <1>4, <1>5, <1>6

LEMMA LinkedDataOut ==
  ASSUME Linked, Inv', NEW repeated \in BOOLEAN, HandleDataOut(repeated)
  PROVE  Linked'
<1>1. Packed'
  BY PackedDataOut
<1>2. /\ lost => lost'
      /\ lost' => todo' = << >>
      /\ UNCHANGED deviceVars /\ (~lost' => taken' = taken)
  BY DEF HandleDataOut
<1>3. ASSUME ~lost' PROVE Following'
  <2>1. /\ half /\ ~half' => Stream' = Stream /\ Due' = Due
        /\ ~half => Stream' = Stream \o Wire(command) /\ Due' = Due \o <<command>>
        /\ ~(half /\ half')
        /\ todo' = IF half' THEN todo ELSE Append(todo, command)
        /\ command \in Command /\ rx' = rx \o Head(outbox)
    BY <1>3, Arrives
  <2>2. /\ ~lost /\ todo \in Seq(Command) /\ Due \in Seq(Command) /\ Stream \in Seq(Byte)
        /\ taken \in 0..Len(todo) /\ Len(todo) \in Nat /\ Len(Due) \in Nat
        /\ Len(todo) <= Len(Due)
    <3>1. ~lost
      BY <1>2, <1>3
    <3>2. Stream \in Seq(Byte)
      BY StreamType
    <3>3. /\ todo \in Seq(Command) /\ Due \in Seq(Command)
          /\ Len(todo) \in Nat /\ Len(Due) = Len(todo) + (IF half THEN 1 ELSE 0)
          /\ taken \in 0..Len(todo)
      BY <3>1, DueType
    <3> QED BY <3>1, <3>2, <3>3
  <2>3. todo' \in Seq(Command)
    BY <2>1, <2>2
  <2>4. PICK cut : Spells(Stream, Due, cut) /\ Counted(cut)
    BY <2>2 DEF Linked, Following
  <2>5. Len(rx) <= Len(rx')
    <3>1. outbox # << >> /\ outbox \in Seq(Packets) /\ rx \in Seq(Byte)
      BY DEF HandleDataOut, Linked, Inv, HostType, RxType
    <3>2. Head(outbox) \in Seq(Byte)
      BY <3>1, HeadTailProperties DEF Packets
    <3> HIDE DEF Linked
    <3>3. Len(rx \o Head(outbox)) = Len(rx) + Len(Head(outbox))
          /\ Len(rx) \in Nat /\ Len(Head(outbox)) \in Nat
      BY <3>1, <3>2, Joined
    <3> QED BY <2>1, <3>3
  <2>6. ASSUME NEW new, new[taken] = cut[taken] PROVE Counted(new)'
    <3>1. /\ pc' = pc /\ toRead' = toRead /\ frame' = frame /\ taken' = taken
          /\ toRead \in Int /\ Len(rx) \in Int /\ Len(rx') \in Int
      BY <1>2, <1>3, LenProperties DEF deviceVars, Linked, Inv, DeviceType, RxType
    <3> QED BY <3>1, <2>4, <2>5, <2>6 DEF Counted
  <2>7. CASE half
    <3>1. Spells(Stream', Due', cut) /\ Counted(cut)'
      BY <2>1, <2>4, <2>6, <2>7
    <3> QED BY <3>1, <2>3 DEF Following
  <2>8. CASE ~half
    <3>1. \E new : /\ Spells(Stream \o Wire(command), Due \o <<command>>, new)
                   /\ \A i \in 0..Len(Due) : new[i] = cut[i]
      BY <2>1, <2>2, <2>4, SpellsMore
    <3>2. PICK new : /\ Spells(Stream', Due', new)
                     /\ \A i \in 0..Len(Due) : new[i] = cut[i]
      BY <3>1, <2>1, <2>8
    <3>3. taken \in 0..Len(Due)
      BY <2>2
    <3>4. Counted(new)'
      BY <3>2, <3>3, <2>6
    <3> QED BY <3>2, <3>4, <2>3 DEF Following
  <2> QED BY <2>7, <2>8
<1>4. CASE lost'
  BY <1>1, <1>2, <1>4 DEF Linked
<1>5. CASE ~lost'
  BY <1>1, <1>3, <1>5 DEF Linked
<1> QED BY <1>4, <1>5

-----------------------------------------------------------------------------
(* The poll. *)

LEMMA LinkedBegin == ASSUME Linked, Inv', PollBegin PROVE Linked'
<1>1. /\ pc = "idle" /\ pc' = "read"
      /\ toRead' = IF Len(rx) > FrameMax THEN FrameMax ELSE Len(rx)
      /\ lost' = (lost \/ half) /\ todo' = IF lost' THEN << >> ELSE todo
      /\ taken' = IF lost' THEN 0 ELSE Len(todo)
      /\ UNCHANGED <<rx, frame, table, answer, turn, hostVars>>
  BY DEF PollBegin
<1>2. Packed'
  BY <1>1 DEF Linked, Packed, hostVars
<1>3. ASSUME ~lost' PROVE Following'
  <2>1. ~lost /\ ~half /\ ~half' /\ todo' = todo /\ taken' = Len(todo) /\ rx' = rx /\ frame' = frame
        /\ command' = command /\ outbox' = outbox
    BY <1>1, <1>3 DEF hostVars
  <2>2. /\ todo \in Seq(Command) /\ Stream \in Seq(Byte) /\ Len(Due) = Len(todo)
        /\ frame \o rx \in Seq(Byte) /\ Len(frame \o rx) = Len(frame) + Len(rx) /\ Len(rx) \in Nat
    BY <2>1, StreamType, DueType
  <2>3. PICK cut : Spells(Stream, Due, cut) /\ Counted(cut)
    BY <2>1 DEF Linked, Following
  <2>4. Len(frame) = 0
    BY <1>1, EmptySeq DEF Linked, Inv, DeviceType
  <2>5. toRead' = Len(rx)
    <3>1. Len(rx) < RxSize
      BY DEF Linked, Inv, RxType
    <3> QED BY <3>1, <1>1, <2>2, ProtocolAssumption
  <2>6. Stream = frame \o rx
    BY <2>1, <2>2, JoinedEmpty DEF Stream, Coming
  <2>7. cut[Len(todo)] = Len(rx)
    BY <2>2, <2>3, <2>4, <2>6 DEF Spells
  <2>8. Counted(cut)'
    BY <1>1, <2>1, <2>2, <2>4, <2>5, <2>7 DEF Counted
  <2>9. Stream' = Stream /\ Due' = Due
    BY <2>1 DEF Stream, Due, Coming, Expected
  <2>10. Spells(Stream', Due', cut)
    BY <2>3, <2>9
  <2> QED BY <2>1, <2>2, <2>8, <2>10 DEF Following
<1> QED BY <1>1, <1>2, <1>3 DEF Linked

LEMMA LinkedRead == ASSUME Linked, Inv', ReadByte PROVE Linked'
<1>1. /\ pc = "read"
      /\ IF ReadStops
           THEN pc' = "parse" /\ toRead' = 0 /\ UNCHANGED <<rx, frame>>
           ELSE /\ frame' = Append(frame, Head(rx)) /\ rx' = Tail(rx)
                /\ toRead' = IF toRead = 0 THEN 0 ELSE toRead - 1
                /\ UNCHANGED pc
      /\ UNCHANGED <<table, answer, turn, hostVars, todo, taken, lost>>
  BY DEF ReadByte
<1>2. Packed'
  BY <1>1 DEF Linked, Packed, hostVars
<1>3. ASSUME ~lost' PROVE Following'
  <2>1. ~lost
    BY <1>1, <1>3
  <2>2. /\ frame \in Seq(Byte) /\ rx \in Seq(Byte) /\ Len(frame) \in Nat /\ Len(rx) \in Nat
        /\ toRead \in Nat
    BY StreamType, Bounds DEF Linked, Inv, DeviceType
  <2>3. CASE ReadStops
    <3>1. pc' = "parse" /\ rx' = rx /\ frame' = frame
      BY <1>1, <2>3
    <3>2. \A cut : Counted(cut) => toRead = 0
      <4>1. rx = << >> => Len(rx) = 0
        BY EmptySeq
      <4> QED BY <4>1, <1>1, <2>2, <2>3 DEF ReadStops, Counted
    <3>3. \A cut : Counted(cut) => Counted(cut)'
      BY <3>1, <3>2, <1>1, <2>2 DEF Counted
    <3>4. Stream' = Stream /\ Due' = Due
      BY <3>1, <1>1 DEF Stream, Due, Coming, Expected, hostVars
    <3> QED BY <3>3, <3>4, <1>1, <2>1, FollowingSame
  <2>4. CASE ~ReadStops
    <3>1. /\ rx # << >> /\ toRead # 0 /\ frame' = Append(frame, Head(rx)) /\ rx' = Tail(rx)
          /\ toRead' = toRead - 1 /\ pc' = "read"
      BY <1>1, <2>4 DEF ReadStops
    <3>2. frame' \o rx' = frame \o rx
      BY <3>1, <2>2, Passed
    <3>3. /\ Len(rx') = Len(rx) - 1 /\ Len(frame') = Len(frame) + 1
      <4>1. Head(rx) \in Byte /\ Len(Tail(rx)) = Len(rx) - 1
        BY <3>1, <2>2, HeadTailProperties
      <4>2. Len(Append(frame, Head(rx))) = Len(frame) + 1
        BY <4>1, <2>2, One
      <4> QED BY <4>1, <4>2, <3>1
    <3>4. \A cut : Counted(cut) => Counted(cut)'
      BY <3>1, <3>3, <1>1, <2>2 DEF Counted
    <3>5. Stream' = Stream /\ Due' = Due
      BY <3>2, <1>1 DEF Stream, Due, Coming, Expected, hostVars
    <3> QED BY <3>4, <3>5, <1>1, <2>1, FollowingSame
  <2> QED BY <2>3, <2>4
<1> QED BY <1>1, <1>2, <1>3 DEF Linked

\* The account starts anew: nothing is left of what went wrong.
LEMMA LinkedEnd == ASSUME Linked, Inv', PollEnd PROVE Linked'
<1>1. /\ pc = "parse" /\ frame = << >> /\ pc' = "idle"
      /\ lost' = (lost /\ (half \/ rx # << >>))
      /\ UNCHANGED <<rx, toRead, frame, table, answer, turn, hostVars, todo, taken>>
  BY DEF PollEnd
<1>2. Packed'
  BY <1>1 DEF Linked, Packed, hostVars
<1>3. Stream' = Stream /\ Due' = Due
  BY <1>1 DEF Stream, Due, Coming, Expected, hostVars
<1>4. CASE ~lost
  <2>1. \A cut : Counted(cut) => Counted(cut)'
    BY <1>1 DEF Counted
  <2>2. Following'
    BY <2>1, <1>1, <1>3, <1>4, FollowingSame
  <2> QED BY <2>2, <1>1, <1>2, <1>4 DEF Linked
<1>5. CASE lost /\ lost'
  BY <1>1, <1>2, <1>5 DEF Linked
<1>6. CASE lost /\ ~lost'
  <2>1. ~half /\ rx = << >> /\ todo = << >>
    BY <1>1, <1>6 DEF Linked
  <2>2. Stream = << >> /\ Due = << >>
    BY <2>1, <1>1 DEF Stream, Due, Coming, Expected
  <2>3. PICK cut : Spells(<< >>, << >>, cut)
    BY SpellsNothing
  <2>4. Spells(Stream', Due', cut) /\ Counted(cut)'
    BY <2>2, <2>3, <1>1, <1>3 DEF Counted
  <2>5. << >> \in Seq(Command)
    BY EmptySeq
  <2>6. Following'
    BY <2>1, <2>4, <2>5, <1>1 DEF Following
  <2> QED BY <2>6, <1>2, <1>6 DEF Linked
<1> QED BY <1>4, <1>5, <1>6

\* The frame begins with the oldest command of the account.
LEMMA First ==
  ASSUME Linked, ~lost, pc = "parse", frame # << >>,
         NEW cut, Spells(Stream, Due, cut), Counted(cut)
  PROVE  LET c == Head(todo)
         IN  /\ taken >= 1 /\ todo # << >> /\ c \in Command
             /\ cut[1] = Len(Wire(c)) /\ Len(Wire(c)) <= Len(frame)
             /\ \A j \in 1..Len(Wire(c)) : frame[j] = Wire(c)[j]
             /\ Head(frame) = frame[1]
<1> DEFINE c == Head(todo)
           w == Wire(c)
<1>1. /\ frame \in Seq(Byte) /\ frame \o rx \in Seq(Byte) /\ Coming \in Seq(Byte)
      /\ Len(frame) \in Nat /\ rx \in Seq(Byte) /\ Len(rx) \in Nat
      /\ Len(frame \o rx) = Len(frame) + Len(rx)
  BY StreamType
<1>2. /\ todo \in Seq(Command) /\ Expected \in Seq(Command) /\ Len(todo) \in Nat
      /\ taken \in 0..Len(todo)
  BY DueType
<1>3. /\ Len(frame) = cut[taken] /\ cut \in [0..Len(Due) -> Nat] /\ cut[0] = 0
      /\ \A i \in 1..Len(Due) : /\ cut[i] = cut[i - 1] + Len(Wire(Due[i]))
                                /\ At(Stream, cut[i - 1], Wire(Due[i]))
      /\ \A i, j \in 0..Len(Due) : i <= j => cut[i] <= cut[j]
  BY DEF Spells, Counted
<1>4. Len(frame) # 0
  BY <1>1, EmptySeq
<1>5. taken >= 1 /\ Len(todo) >= 1
  BY <1>2, <1>3, <1>4
<1>6. todo # << >>
  BY <1>5, EmptySeq
<1>7. c \in Command /\ c = todo[1]
  BY <1>2, <1>6, HeadTailProperties
<1>8. Len(Due) \in Nat /\ Len(Due) >= Len(todo) /\ Due[1] = c
  <2>1. /\ Len(Due) = Len(todo) + Len(Expected) /\ Len(Expected) \in Nat
        /\ \A i \in 1..(Len(todo) + Len(Expected)) :
             Due[i] = IF i <= Len(todo) THEN todo[i] ELSE Expected[i - Len(todo)]
    BY <1>2, Joined DEF Due
  <2> QED BY <2>1, <1>2, <1>5, <1>7
<1> HIDE DEF c
<1>9. w \in Seq(Byte) /\ Len(w) \in Nat
  BY <1>7, WireBytes
<1>10. cut[1] = Len(w) /\ At(Stream, 0, w)
  <2>1. 1 \in 1..Len(Due) /\ 1 - 1 = 0
    BY <1>5, <1>8, <1>2
  <2>2. cut[1] = cut[0] + Len(Wire(Due[1])) /\ At(Stream, cut[0], Wire(Due[1]))
    BY <2>1, <1>3
  <2> QED BY <2>2, <1>3, <1>8, <1>9
<1>11. Len(w) <= Len(frame)
  <2>1. 1 \in 0..Len(Due) /\ taken \in 0..Len(Due) /\ 1 <= taken
    BY <1>2, <1>5, <1>8
  <2>2. cut[1] <= cut[taken]
    BY <2>1, <1>3
  <2> QED BY <2>2, <1>3, <1>10
<1>12. \A j \in 1..Len(frame) : Stream[j] = frame[j]
  <2>1. \A i \in 1..(Len(frame) + Len(rx)) :
          (frame \o rx)[i] = IF i <= Len(frame) THEN frame[i] ELSE rx[i - Len(frame)]
    BY <1>1, Joined
  <2>2. \A i \in 1..(Len(frame \o rx) + Len(Coming)) :
          Stream[i] = IF i <= Len(frame \o rx) THEN (frame \o rx)[i]
                                               ELSE Coming[i - Len(frame \o rx)]
    BY <1>1, Joined DEF Stream
  <2>3. Len(Coming) \in Nat
    BY <1>1, LenProperties
  <2>4. ASSUME NEW j \in 1..Len(frame) PROVE Stream[j] = frame[j]
    <3>1. j \in 1..(Len(frame) + Len(rx)) /\ j \in 1..(Len(frame \o rx) + Len(Coming))
          /\ j <= Len(frame \o rx) /\ j <= Len(frame)
      BY <2>3, <1>1
    <3> QED BY <3>1, <2>1, <2>2
  <2> QED BY <2>4
<1>13. ASSUME NEW j \in 1..Len(w) PROVE frame[j] = w[j]
  <2>1. j \in 1..Len(frame) /\ 0 + j = j
    BY <1>1, <1>9, <1>11
  <2>2. Stream[0 + j] = w[j]
    BY <1>10 DEF At
  <2> QED BY <2>1, <2>2, <1>12
<1>14. Head(frame) = frame[1]
  BY <1>1, HeadTailProperties
<1> QED BY <1>5, <1>6, <1>7, <1>10, <1>11, <1>13, <1>14 DEF c

\* The poll goes on behind n of the commands.
LEMMA Advance ==
  ASSUME Linked, ~lost, pc = "parse", NEW cut, Spells(Stream, Due, cut), Counted(cut),
         NEW n \in 0..taken, Skip(cut[n]),
         todo' = SubSeq(todo, n + 1, Len(todo)), taken' = taken - n
  PROVE  Following'
<1> DEFINE k == cut[n]
<1>1. /\ frame \in Seq(Byte) /\ frame \o rx \in Seq(Byte) /\ Coming \in Seq(Byte)
      /\ Len(frame) \in Nat /\ rx \in Seq(Byte) /\ Len(rx) \in Nat /\ Stream \in Seq(Byte)
      /\ Len(frame \o rx) = Len(frame) + Len(rx)
  BY StreamType
<1>2. /\ todo \in Seq(Command) /\ Expected \in Seq(Command) /\ Len(todo) \in Nat
      /\ taken \in 0..Len(todo) /\ Due \in Seq(Command) /\ Len(Due) \in Nat /\ Len(Due) >= Len(todo)
  <2>1. /\ todo \in Seq(Command) /\ Expected \in Seq(Command) /\ Len(todo) \in Nat
        /\ taken \in 0..Len(todo) /\ Due \in Seq(Command)
        /\ Len(Due) = Len(todo) + (IF half THEN 1 ELSE 0)
    BY DueType
  <2> QED BY <2>1
<1>3. n \in 0..Len(todo) /\ n \in 0..Len(Due) /\ taken \in 0..Len(Due) /\ n <= taken /\ n \in Nat
      /\ taken \in Nat
  BY <1>2
<1>4. /\ Len(frame) = cut[taken] /\ cut \in [0..Len(Due) -> Nat]
      /\ \A i, j \in 0..Len(Due) : i <= j => cut[i] <= cut[j]
  BY DEF Spells, Counted
<1>5. k \in 0..Len(frame) /\ k \in 0..Len(frame \o rx)
  <2>1. cut[n] <= cut[taken] /\ cut[n] \in Nat
    BY <1>3, <1>4
  <2> QED BY <2>1, <1>1, <1>4
<1>6. frame' = SubSeq(frame, k + 1, Len(frame)) /\ UNCHANGED <<rx, pc, toRead, hostVars>>
  BY DEF Skip
<1>7. \E new : /\ Spells(SubSeq(Stream, k + 1, Len(Stream)), SubSeq(Due, n + 1, Len(Due)), new)
               /\ \A i \in 0..(Len(Due) - n) : new[i] = cut[n + i] - k
  BY <1>1, <1>2, <1>3, SpellsRest
<1> HIDE DEF k
<1>8. Stream' = SubSeq(Stream, k + 1, Len(Stream))
  <2>1. frame' \o rx = SubSeq(frame \o rx, k + 1, Len(frame \o rx))
    BY <1>1, <1>5, <1>6, RestJoined
  <2>2. SubSeq(frame \o rx, k + 1, Len(frame \o rx)) \o Coming
          = SubSeq((frame \o rx) \o Coming, k + 1, Len((frame \o rx) \o Coming))
    BY <1>1, <1>5, RestJoined
  <2>3. Coming' = Coming /\ rx' = rx
    BY <1>6 DEF Coming, hostVars
  <2> QED BY <2>1, <2>2, <2>3 DEF Stream
<1>9. Due' = SubSeq(Due, n + 1, Len(Due))
  <2>1. SubSeq(todo, n + 1, Len(todo)) \o Expected
          = SubSeq(todo \o Expected, n + 1, Len(todo \o Expected))
    BY <1>2, <1>3, RestJoined
  <2>2. Expected' = Expected
    BY <1>6 DEF Expected, hostVars
  <2> QED BY <2>1, <2>2 DEF Due
<1>10. PICK new : /\ Spells(Stream', Due', new)
                  /\ \A i \in 0..(Len(Due) - n) : new[i] = cut[n + i] - k
  BY <1>7, <1>8, <1>9
<1>11. Counted(new)'
  <2>1. Len(frame') = Len(frame) - k
    BY <1>1, <1>5, <1>6, Rest
  <2>2. taken - n \in 0..(Len(Due) - n) /\ n + (taken - n) = taken
    BY <1>2, <1>3
  <2>3. new[taken'] = cut[taken] - k
    BY <2>2, <1>10
  <2> QED BY <2>1, <2>3, <1>4, <1>6 DEF Counted
<1>12. todo' \in Seq(Command)
  BY <1>2, <1>3, Rest
<1> QED BY <1>10, <1>11, <1>12 DEF Following

LEMMA TailIsRest ==
  ASSUME NEW S, NEW s \in Seq(S), s # << >>
  PROVE  Tail(s) = SubSeq(s, 1 + 1, Len(s))
  BY TailIsSubSeq

\* One command is answered and the next comes to the front.
LEMMA AdvanceOne ==
  ASSUME Linked, ~lost, pc = "parse", frame # << >>,
         NEW cut, Spells(Stream, Due, cut), Counted(cut),
         NEW k, k = Len(Wire(Head(todo))), Skip(k), Answered
  PROVE  Following' /\ lost' = lost /\ todo' = Tail(todo) /\ half' = half
<1>1. taken >= 1 /\ todo # << >> /\ cut[1] = k
  BY First
<1>2. taken \in 0..Len(todo) /\ Len(todo) \in Nat /\ todo \in Seq(Command)
  BY DueType
<1>3. todo' = Tail(todo) /\ taken' = taken - 1 /\ lost' = lost
  BY <1>1, <1>2 DEF Answered
<1>4. Tail(todo) = SubSeq(todo, 1 + 1, Len(todo))
  BY <1>1, <1>2, TailIsRest
<1>5. 1 \in 0..taken
  BY <1>1, <1>2
<1>6. Following'
  BY <1>1, <1>3, <1>4, <1>5, Advance
<1> QED BY <1>3, <1>6 DEF Skip, hostVars

\* What a command asks for, read from the frame.
LEMMA Understood ==
  ASSUME Linked, ~lost, pc = "parse", frame # << >>,
         NEW cut, Spells(Stream, Due, cut), Counted(cut)
  PROVE  LET c == Head(todo)
         IN  /\ c \in Command /\ todo # << >> /\ c.op \in {"list", "read", "write"}
             /\ Head(frame) = CASE c.op = "list" -> LIST
                                [] c.op = "read" -> READ
                                [] c.op = "write" -> WRITE
             /\ c.op = "list" => Len(Wire(c)) = 1
             /\ c.op # "list" => Len(frame) >= 3 /\ Id16 = c.id
             /\ c.op = "read" => Len(Wire(c)) = 3
             /\ c.op = "write" => /\ Len(Wire(c)) = 4 + Len(c.data) /\ 4 + Len(c.data) <= Len(frame)
                                  /\ frame[4] = Len(c.data)
                                  /\ SubSeq(frame, 5, 4 + Len(c.data)) = c.data
                                  /\ c.data \in Seq(Byte) /\ Len(c.data) \in Nat
<1> DEFINE c == Head(todo)
           w == Wire(c)
<1>1. /\ todo # << >> /\ c \in Command /\ Len(w) <= Len(frame)
      /\ \A j \in 1..Len(w) : frame[j] = w[j]
      /\ Head(frame) = frame[1]
  BY First
<1>2. frame \in Seq(Byte) /\ Len(frame) \in Nat
  BY StreamType
<1> HIDE DEF c
<1>3. /\ c.op = "list" => Len(w) = 1 /\ w[1] = LIST
      /\ c.op # "list" => Len(w) >= 3 /\ w[2] + Base * w[3] = c.id
      /\ c.op = "read" => Len(w) = 3 /\ w[1] = READ
      /\ c.op = "write" => /\ Len(w) = 4 + Len(c.data) /\ w[1] = WRITE
                           /\ w[4] = Len(c.data)
                           /\ \A i \in 1..Len(c.data) : w[4 + i] = c.data[i]
      /\ Len(w) \in Nat \ {0} /\ c.op \in {"list", "read", "write"}
  BY <1>1, WireBytes
<1>4. c.data \in Seq(Byte) /\ Len(c.data) \in Nat
  BY <1>1, CommandAssumption, LenProperties
<1> HIDE DEF w
<1>5. Head(frame) = w[1]
  <2>1. 1 \in 1..Len(w)
    BY <1>3
  <2> QED BY <2>1, <1>1
<1>6. c.op # "list" => Len(frame) >= 3 /\ Id16 = c.id
  <2>1. ASSUME c.op # "list" PROVE 2 \in 1..Len(w) /\ 3 \in 1..Len(w) /\ Len(frame) >= 3
    BY <2>1, <1>1, <1>2, <1>3
  <2>2. ASSUME c.op # "list" PROVE frame[2] = w[2] /\ frame[3] = w[3]
    BY <2>1, <2>2, <1>1
  <2>3. ASSUME c.op # "list" PROVE frame[2] + Base * frame[3] = c.id
    BY <2>2, <2>3, <1>3
  <2> QED BY <2>1, <2>3 DEF Id16
<1>7. ASSUME c.op = "write"
      PROVE  frame[4] = Len(c.data) /\ SubSeq(frame, 5, 4 + Len(c.data)) = c.data
  <2> DEFINE n == Len(c.data)
             t == SubSeq(frame, 5, 4 + n)
  <2>1. Len(w) = 4 + n /\ w[4] = n /\ (\A i \in 1..n : w[4 + i] = c.data[i]) /\ 4 + n <= Len(frame)
        /\ n \in Nat
    BY <1>1, <1>3, <1>4, <1>7
  <2>2. frame[4] = n
    <3>1. 4 \in 1..Len(w)
      BY <2>1
    <3> QED BY <3>1, <2>1, <1>1
  <2> HIDE DEF n
  <2>3. /\ t \in Seq(Byte) /\ Len(t) = (IF 5 <= 4 + n THEN (4 + n) - 5 + 1 ELSE 0)
        /\ \A i \in 1..((4 + n) - 5 + 1) : t[i] = frame[5 + i - 1]
    <3>1. 5 \in Nat \ {0} /\ 4 + n \in Nat /\ 4 + n <= Len(frame)
      BY <2>1
    <3> QED BY <3>1, <1>2, Piece
  <2> HIDE DEF t
  <2>4. Len(t) = n
    BY <2>1, <2>3
  <2>5. ASSUME NEW i \in 1..n PROVE t[i] = c.data[i]
    <3>1. 4 + i \in 1..Len(w) /\ 5 + i - 1 = 4 + i /\ i \in 1..((4 + n) - 5 + 1)
      BY <2>1
    <3>2. t[i] = frame[5 + i - 1] /\ frame[4 + i] = w[4 + i]
      BY <3>1, <2>3, <1>1
    <3> QED BY <3>1, <3>2, <2>1
  <2>6. t = c.data
    BY <2>3, <2>4, <2>5, <1>4, SeqEqual DEF n
  <2> QED BY <2>2, <2>6 DEF n, t
<1>8. Head(frame) = CASE c.op = "list" -> LIST
                      [] c.op = "read" -> READ
                      [] c.op = "write" -> WRITE
  BY <1>3, <1>5
<1>9. c.op = "write" => 4 + Len(c.data) <= Len(frame)
  BY <1>1, <1>3
<1> QED BY <1>1, <1>3, <1>4, <1>6, <1>7, <1>8, <1>9 DEF c, w

\* A turn of the loop carries out the oldest command, as ParamStore does.
LEMMA ParseServes ==
  ASSUME Linked, ~lost, Parse
  PROVE  Following' /\ ~lost' /\ taken > 0 /\ Store!Serve
<1> DEFINE c == Head(todo)
<1>1. pc = "parse" /\ frame # << >>
  <2>1. frame = << >> => Len(frame) = 0
    BY EmptySeq
  <2>2. pc = "parse" /\ (frame # << >> \/ Len(frame) >= 3)
    BY DEF Parse, ParseList, ParseShort, ParseRead, ParseWriteMissing, ParseWrite, ParseOther
  <2> QED BY <2>1, <2>2
<1>2. PICK cut : Spells(Stream, Due, cut) /\ Counted(cut)
  BY DEF Linked, Following
<1>3. /\ c \in Command /\ todo # << >> /\ c.op \in {"list", "read", "write"}
      /\ Head(frame) = CASE c.op = "list" -> LIST
                         [] c.op = "read" -> READ
                         [] c.op = "write" -> WRITE
      /\ c.op = "list" => Len(Wire(c)) = 1
      /\ c.op # "list" => Len(frame) >= 3 /\ Id16 = c.id
      /\ c.op = "read" => Len(Wire(c)) = 3
      /\ c.op = "write" => /\ Len(Wire(c)) = 4 + Len(c.data) /\ 4 + Len(c.data) <= Len(frame)
                           /\ frame[4] = Len(c.data)
                           /\ SubSeq(frame, 5, 4 + Len(c.data)) = c.data
                           /\ c.data \in Seq(Byte) /\ Len(c.data) \in Nat
  BY <1>1, <1>2, Understood
<1>4. /\ Head(frame) = LIST <=> c.op = "list"
      /\ Head(frame) = READ <=> c.op = "read"
      /\ Head(frame) = WRITE <=> c.op = "write"
  BY <1>3 DEF LIST, READ, WRITE
<1>5. \A id : /\ id \in Store!Readable <=> MayRead(id)
              /\ id \in Store!Writable <=> id \in Id /\ "rx" \in Direction[id]
  BY DEF Store!Readable, Store!Writable, MayRead, Find
<1>6. \A k : k = Len(Wire(c)) /\ Skip(k) /\ Answered
               => Following' /\ lost' = lost /\ todo' = Tail(todo) /\ half' = half
  BY <1>1, <1>2, AdvanceOne
<1>0. taken > 0 /\ (Answered => taken' = taken - 1)
  <2>1. taken >= 1
    BY <1>1, <1>2, First
  <2>2. taken \in Nat
    BY DueType
  <2> QED BY <2>1, <2>2 DEF Answered
<1> HIDE DEF c
<1>7. CASE ParseList
  <2>1. /\ Skip(1) /\ Answered /\ c.op = "list" /\ table' = table
        /\ answer' = Store!Catalogue /\ turn' = 1 - turn
    BY <1>4, <1>7 DEF ParseList, Reply
  <2>2. Following' /\ lost' = lost /\ todo' = Tail(todo) /\ half' = half
    BY <2>1, <1>3, <1>6
  <2>3. Store!Answer(c) = Store!Catalogue /\ ~Store!Accepted(c) /\ ~Store!Empty(c)
    BY <2>1 DEF Store!Answer, Store!Accepted, Store!Empty
  <2> QED BY <2>1, <2>2, <2>3, <1>0, <1>3 DEF Store!Serve, c
<1>8. CASE ParseShort
  BY <1>3, <1>4, <1>8, StreamType DEF ParseShort
<1>9. CASE ParseRead
  <2>1. /\ Skip(3) /\ Answered /\ c.op = "read" /\ table' = table /\ turn' = 1 - turn
        /\ answer' = IF MayRead(Id16) THEN Store!Object(Id16, table[Id16]) ELSE Store!Status(FALSE)
    BY <1>4, <1>9 DEF ParseRead, Reply
  <2>2. Following' /\ lost' = lost /\ todo' = Tail(todo) /\ half' = half
    BY <2>1, <1>3, <1>6
  <2>3. Store!Answer(c) = answer' /\ ~Store!Accepted(c) /\ ~Store!Empty(c)
    BY <2>1, <1>3, <1>5 DEF Store!Answer, Store!Accepted, Store!Empty
  <2> QED BY <2>1, <2>2, <2>3, <1>0, <1>3 DEF Store!Serve, c
<1>10. CASE ParseWriteMissing
  <2>1. /\ Skip(Len(frame)) /\ c.op = "write" /\ table' = table /\ turn' = 1 - turn /\ lost' = lost
        /\ answer' = Store!Status(FALSE) /\ PayloadMissing
        /\ todo' = SubSeq(todo, taken + 1, Len(todo)) /\ taken' = 0
    BY <1>3, <1>4, <1>10 DEF ParseWriteMissing, Break, Reply
  <2>2. Len(c.data) = 0 /\ c.data = << >>
    <3>1. Len(c.data) = 0
      <4>1. Len(frame) \in Nat
        BY StreamType
      <4> QED BY <4>1, <2>1, <1>3 DEF PayloadMissing
    <3> QED BY <3>1, <2>1, <1>3, EmptySeq
  <2>3. ~Store!Accepted(c)
    <3>1. \A id \in Store!Writable : Size[id] > 0
      BY <1>5, ParameterAssumption
    <3>2. \A id \in Store!Writable : Size[id] # 0
      <4>1. \A id \in Store!Writable : Size[id] \in Nat
        BY <1>5, SizeType
      <4> QED BY <3>1, <4>1
    <3> QED BY <3>2, <2>2 DEF Store!Accepted
  <2>4. Store!Answer(c) = Store!Status(FALSE) /\ Store!Empty(c)
    <3>1. Store!Accepted(c) = FALSE
      BY <2>3 DEF Store!Accepted
    <3> QED BY <2>1, <2>2, <3>1 DEF Store!Answer, Store!Empty
  <2>5. taken >= 1 /\ taken \in 1..Len(todo) /\ Len(frame) = cut[taken] /\ taken \in 0..taken
        /\ taken - taken = 0
    <3>1. taken >= 1
      BY <1>1, <1>2, First
    <3>2. taken \in 0..Len(todo) /\ Len(todo) \in Nat
      BY DueType
    <3> QED BY <3>1, <3>2, <1>1, <1>2 DEF Counted
  <2>6. Following'
    BY <2>1, <2>5, <1>1, <1>2, Advance
  <2>7. half' = half
    BY <2>1 DEF Skip, hostVars
  <2> QED BY <2>1, <2>3, <2>4, <2>6, <2>7, <1>0, <1>3 DEF Store!Serve, c
<1>11. CASE ParseWrite
  <2> DEFINE n == Len(c.data)
             ok == MayWrite(Id16, n)
  <2>1. /\ Skip(4 + frame[4]) /\ Answered /\ c.op = "write" /\ ~PayloadMissing /\ turn' = 1 - turn
    BY <1>4, <1>11 DEF ParseWrite, Reply
  <2>2. /\ table' = IF ok THEN Publish(table, Id16, SubSeq(frame, 5, 4 + n)) ELSE table
        /\ answer' = Store!Status(ok)
    BY <2>1, <1>3, <1>11 DEF ParseWrite, Reply
  <2>3. n # 0 /\ c.data # << >>
    <3>1. n # 0
      BY <2>1, <1>3 DEF PayloadMissing
    <3> QED BY <3>1, NotEmpty
  <2>4. Following' /\ lost' = lost /\ todo' = Tail(todo) /\ half' = half
    BY <2>1, <1>3, <1>6
  <2>5. ok = Store!Accepted(c)
    BY <2>1, <1>3, <1>5 DEF Store!Accepted, MayWrite, Find
  <2>6. Store!Answer(c) = Store!Status(ok) /\ ~Store!Empty(c)
    BY <2>1, <2>3, <2>5 DEF Store!Answer, Store!Empty
  <2>7. ok => Publish(table, Id16, SubSeq(frame, 5, 4 + n)) = [table EXCEPT ![c.id] = c.data]
    <3> SUFFICES ASSUME ok
                 PROVE  [i \in 1..Size[c.id] |-> c.data[i]] = c.data
      BY <2>1, <1>3 DEF Publish
    <3>1. Size[c.id] = n
      BY <2>1, <1>3 DEF MayWrite
    <3>2. c.data = [i \in 1..n |-> c.data[i]]
      BY <2>1, <1>3, LenProperties
    <3> QED BY <3>1, <3>2
  <2> HIDE DEF ok, n
  <2>8. table' = IF Store!Accepted(c) THEN [table EXCEPT ![c.id] = c.data] ELSE table
    BY <2>2, <2>5, <2>7
  <2> QED BY <2>1, <2>2, <2>4, <2>6, <2>8, <1>0, <1>3 DEF Store!Serve, c
<1>12. CASE ParseOther
  BY <1>3, <1>4, <1>12 DEF ParseOther
<1> QED BY <1>7, <1>8, <1>9, <1>10, <1>11, <1>12 DEF Parse

LEMMA LinkedParse == ASSUME Linked, Inv', Parse PROVE Linked'
<1>1. UNCHANGED hostVars
  BY DEF Parse, ParseList, ParseShort, ParseRead, ParseWriteMissing, ParseWrite, ParseOther,
         Break, Skip
<1>2. Packed'
  BY <1>1 DEF Linked, Packed, hostVars
<1>3. CASE ~lost
  <2>1. Following' /\ ~lost'
    BY <1>3, ParseServes
  <2> QED BY <2>1, <1>2 DEF Linked
<1>4. CASE lost
  <2>1. todo = << >>
    BY <1>4 DEF Linked
  <2>2. todo' = << >> /\ lost'
    BY <2>1, <1>4 DEF Parse, ParseList, ParseShort, ParseRead, ParseWriteMissing, ParseWrite,
          ParseOther, Answered
  <2> QED BY <2>2, <1>2 DEF Linked
<1> QED BY <1>3, <1>4

LEMMA LinkedNext == ASSUME Linked, [Next]_vars PROVE Linked'
<1>1. Inv'
  BY TypeNext DEF Linked
<1>2. ASSUME UNCHANGED <<rx, pc, toRead, frame, todo, taken, lost, hostVars>> PROVE Linked'
  <2>1. Packed'
    BY <1>2 DEF Linked, Packed, hostVars
  <2>2. Stream' = Stream /\ Due' = Due
    BY <1>2 DEF Stream, Due, Coming, Expected, hostVars
  <2>3. \A cut : Counted(cut) => Counted(cut)'
    BY <1>2 DEF Counted
  <2>4. ~lost => Following'
    BY <2>2, <2>3, <1>2, FollowingSame
  <2> QED BY <2>1, <2>4, <1>1, <1>2 DEF Linked
<1>3. CASE UNCHANGED vars
  BY <1>2, <1>3 DEF vars, deviceVars
<1>4. CASE TaskPublishes
  BY <1>2, <1>4 DEF TaskPublishes
<1> QED BY <1>1, <1>3, <1>4, LinkedSends, LinkedDataOut, LinkedBegin, LinkedRead, LinkedParse,
        LinkedEnd DEF Next, Poll

\* Between two polls no command is left that a poll has taken.
Polled == Linked /\ (pc = "idle" => taken = 0)

LEMMA NoneTaken ==
  ASSUME Linked, frame = << >>, pc = "parse" \/ lost
  PROVE  taken = 0
<1>1. CASE lost
  <2>1. todo = << >> /\ taken \in 0..Len(todo)
    BY <1>1 DEF Linked, Inv, AccountType
  <2>2. Len(todo) = 0
    BY <2>1, EmptySeq
  <2> QED BY <2>1, <2>2
<1>2. CASE ~lost /\ pc = "parse"
  <2>1. PICK cut : Spells(Stream, Due, cut) /\ Counted(cut)
    BY <1>2 DEF Linked, Following
  <2>2. cut[taken] = 0
    <3>1. Len(frame) = 0
      BY EmptySeq
    <3> QED BY <3>1, <2>1, <1>2 DEF Counted
  <2>3. /\ taken \in 0..Len(todo) /\ Len(todo) \in Nat /\ Len(Due) \in Nat
        /\ Len(Due) >= Len(todo) /\ Due \in Seq(Command)
    BY <1>2, DueType, LenProperties
  <2>4. ASSUME taken > 0 PROVE cut[taken] > 0
    <3>1. 1 \in 1..Len(Due) /\ 1 \in 0..Len(Due) /\ taken \in 0..Len(Due) /\ 1 <= taken /\ 1 - 1 = 0
      BY <2>3, <2>4
    <3>2. Due[1] \in Command
      BY <3>1, <2>3, ElementOfSeq
    <3>3. cut[1] = Len(Wire(Due[1])) /\ Len(Wire(Due[1])) \in Nat
      BY <3>1, <3>2, <2>1, WireBytes DEF Spells
    <3>4. Len(Wire(Due[1])) >= 1
      BY <3>2, WireBytes
    <3>5. cut[1] <= cut[taken] /\ cut[taken] \in Nat
      BY <3>1, <2>1 DEF Spells
    <3> QED BY <3>3, <3>4, <3>5
  <2> QED BY <2>2, <2>3, <2>4
<1> QED BY <1>1, <1>2

LEMMA PolledNext == ASSUME Polled, [Next]_vars PROVE Polled'
<1>1. Linked'
  BY LinkedNext DEF Polled
<1>2. CASE PollEnd
  <2>1. pc = "parse" /\ frame = << >> /\ taken' = taken
    BY <1>2 DEF PollEnd
  <2> QED BY <2>1, <1>1, NoneTaken DEF Polled
<1>3. CASE \E repeated \in BOOLEAN : HandleDataOut(repeated)
  BY <1>1, <1>3 DEF HandleDataOut, deviceVars, Polled
<1>4. CASE PollBegin \/ ReadByte \/ Parse
  <2>1. pc' # "idle"
    BY <1>4 DEF PollBegin, ReadByte, Parse, ParseList, ParseShort, ParseRead, ParseWriteMissing,
       ParseWrite, ParseOther, Skip, Break
  <2> QED BY <2>1, <1>1 DEF Polled
<1>5. CASE UNCHANGED vars \/ TaskPublishes \/ \E c \in Command : HostSends(c)
  BY <1>1, <1>5 DEF vars, deviceVars, TaskPublishes, HostSends, Polled
<1> QED BY <1>2, <1>3, <1>4, <1>5 DEF Next, Poll

-----------------------------------------------------------------------------
(* Every step is one of ParamStore. *)

LEMMA ServesInit == Init => Store!Init
  BY DEF Init, Store!Init, Wiped, Store!Wiped

LEMMA TaskServes == ASSUME TaskPublishes PROVE Store!Refresh
<1>1. PICK id \in Id : /\ Direction[id] = {"tx"}
                       /\ \E v \in Measured : table' = Publish(table, id, v)
  BY DEF TaskPublishes
<1>2. id \in Id \ Store!Writable
  BY <1>1 DEF Store!Writable
<1>3. PICK v \in Measured : table' = Publish(table, id, v)
  BY <1>1
<1>4. v \in [1..RawMax -> Byte]
  BY ProtocolAssumption
<1>5. table' = Store!Publish(table, id, v)
  BY <1>3 DEF Publish, Store!Publish
<1>6. \E i \in Id \ Store!Writable, b \in [1..RawMax -> Byte] : table' = Store!Publish(table, i, b)
  BY <1>2, <1>4, <1>5
<1>7. UNCHANGED <<todo, taken, answer, turn, half, lost>>
  BY DEF TaskPublishes, hostVars
<1> QED BY <1>6, <1>7, Zenon DEF Store!Refresh, Store!Byte, Byte

\* While the account is lost, and when it is found again.
LEMMA LostServes ==
  ASSUME Linked, lost, Next
  PROVE  Store!Next
<1>1. CASE TaskPublishes
  BY <1>1, TaskServes DEF Store!Next
<1>2. CASE ~TaskPublishes
  <2>1. ASSUME NEW id \in Id \ Store!Writable PROVE table'[id] = table[id]
    <3>1. "rx" \notin Direction[id] /\ id \in Id
      BY DEF Store!Writable
    <3>2. ParseWrite => table'[id] = table[id]
      BY <3>1, WriteType DEF Linked
    <3> QED BY <3>2, <1>2 DEF Next, Poll, Parse, HostSends, HandleDataOut, PollBegin, ReadByte,
          PollEnd, ParseList, ParseShort, ParseRead, ParseWriteMissing, ParseOther, deviceVars
  <2>2. ASSUME lost' = FALSE PROVE todo' = << >> /\ taken' = 0 /\ half' = FALSE
    <3>1. PollEnd
      BY <2>2, Zenon DEF Next, Poll, Parse, HostSends, HandleDataOut, PollBegin, ReadByte,
         ParseList, ParseShort, ParseRead, ParseWriteMissing, ParseWrite, ParseOther, Answered,
         TaskPublishes
    <3>2. ~half /\ frame = << >> /\ UNCHANGED <<half, todo, taken>>
      BY <3>1, <2>2 DEF PollEnd, hostVars
    <3>3. half \in BOOLEAN /\ todo = << >> /\ taken = 0
      BY <3>2, NoneTaken DEF Linked, Inv, HostType
    <3> QED BY <3>2, <3>3
  <2> QED BY <2>1, <2>2 DEF Store!Next, Store!Astray
<1> QED BY <1>1, <1>2

\* A packet is one more command, the first part of one, or too much.
LEMMA DataOutServes ==
  ASSUME Linked, Inv', ~lost, NEW repeated \in BOOLEAN, HandleDataOut(repeated)
  PROVE  Store!Next
<1>1. UNCHANGED deviceVars /\ lost' \in BOOLEAN /\ half' \in BOOLEAN /\ half \in BOOLEAN
      /\ lost \in BOOLEAN
  BY DEF HandleDataOut, Inv, AccountType, HostType, Linked
<1>2. CASE ~lost'
  <2>1. /\ ~(half /\ half') /\ todo' = (IF half' THEN todo ELSE Append(todo, command))
        /\ command \in Command
    BY <1>2, Arrives
  <2>2. lost' = lost
    BY <1>1, <1>2
  <2>3. \/ half' /\ ~half /\ UNCHANGED todo
        \/ ~half' /\ \E c \in Command : todo' = Append(todo, c)
    BY <2>1
  <2>4. Store!Send
    BY <2>2, <2>3, <1>1, <1>2 DEF Store!Send, deviceVars, HandleDataOut
  <2> QED BY <2>4 DEF Store!Next, Store!InStep
<1>3. CASE lost'
  <2>1. CASE half \/ half'
    BY <2>1, <1>1, <1>3 DEF Store!Next, Store!Lose, deviceVars
  <2>2. CASE ~half /\ ~half'
    <3>1. /\ outbox # << >> /\ half' = (Len(outbox) = 2) /\ Len(Head(outbox)) > Room
      BY <1>3 DEF HandleDataOut
    <3>2. outbox \in Seq(Packets) /\ Len(outbox) \in Nat
      BY LenProperties DEF Linked, Inv, HostType
    <3>3. Len(outbox) = 1 /\ command \in Command
      <4>1. Len(outbox) # 0
        BY <3>1, <3>2, EmptySeq
      <4>2. Len(outbox) # 2
        BY <3>1, <2>2
      <4>3. Len(outbox) <= 2 /\ command \in Command
        BY <3>1 DEF Linked, Packed
      <4>4. Len(outbox) \in Nat
        BY <3>2
      <4>5. \A n \in Nat : n # 0 /\ n # 2 /\ n <= 2 => n = 1
        OBVIOUS
      <4> QED BY <4>1, <4>2, <4>3, <4>4, <4>5, Zenon
    <3>4. Len(Wire(command)) > Room
      BY <3>1, <3>3, <2>2 DEF Linked, Packed
    <3>5. PICK cut : Spells(Stream, Due, cut) /\ Counted(cut)
      BY DEF Linked, Following
    <3>6. Due \in Seq(Command) /\ Due = todo
      BY <2>2, DueType, JoinedEmpty DEF Due, Expected
    <3>7. Stream \in Seq(Byte) /\ Stream = frame \o rx /\ Len(Stream) = Len(frame) + Len(rx)
          /\ Len(frame) \in Nat /\ Len(rx) \in Nat
      BY <2>2, StreamType, JoinedEmpty DEF Stream, Coming
    <3>8. Store!Total(todo) = Len(frame) + Len(rx)
      BY <3>5, <3>6, <3>7, TotalIs
    <3>9. Len(Wire(command)) = Store!Length(command) /\ Len(Wire(command)) \in Nat
      BY <3>3, WireBytes
    <3>10. Store!Total(todo) + Store!Length(command) > RxSize - 1
      BY <3>4, <3>7, <3>8, <3>9, Bounds DEF Room
    <3>11. \E c \in Command : Store!Total(todo) + Store!Length(c) > RxSize - 1
      BY <3>3, <3>10
    <3> QED BY <3>11, <1>1, <1>3 DEF Store!Next, Store!Lose, deviceVars
  <2> QED BY <2>1, <2>2
<1> QED BY <1>1, <1>2, <1>3

LEMMA NextServes == ASSUME Polled, [Next]_vars PROVE [Store!Next]_Store!vars
<1> USE DEF Polled
<1>1. Inv'
  BY TypeNext DEF Linked
<1>2. CASE UNCHANGED <<table, todo, taken, answer, turn, half, lost>>
  BY <1>2 DEF Store!vars
<1>3. CASE UNCHANGED vars
  BY <1>2, <1>3 DEF vars, deviceVars, hostVars
<1>4. CASE lost /\ Next
  BY <1>4, LostServes
<1>5. CASE ~lost /\ \E c \in Command : HostSends(c)
  BY <1>2, <1>5 DEF HostSends, deviceVars
<1>6. CASE ~lost /\ \E repeated \in BOOLEAN : HandleDataOut(repeated)
  BY <1>1, <1>6, DataOutServes
<1>7. CASE ~lost /\ PollBegin
  <2>1. /\ UNCHANGED <<table, answer, turn, half>> /\ lost' = half /\ half \in BOOLEAN
        /\ todo' = (IF lost' THEN << >> ELSE todo) /\ lost \in BOOLEAN
        /\ taken' = (IF lost' THEN 0 ELSE Len(todo)) /\ taken = 0
    BY <1>7 DEF PollBegin, hostVars, Linked, Inv, HostType, AccountType
  <2>2. CASE half
    BY <2>1, <2>2, <1>7 DEF Store!Next, Store!Lose
  <2>3. CASE ~half
    BY <2>1, <2>3, <1>7 DEF Store!Next, Store!InStep, Store!Round
  <2> QED BY <2>2, <2>3
<1>8. CASE ~lost /\ ReadByte
  BY <1>2, <1>8 DEF ReadByte, hostVars
<1>9. CASE ~lost /\ Parse
  BY <1>9, ParseServes DEF Store!Next, Store!InStep
<1>10. CASE ~lost /\ PollEnd
  <2>1. lost' = lost
    BY <1>10 DEF PollEnd, Linked, Inv, AccountType
  <2> QED BY <2>1, <1>2, <1>10 DEF PollEnd, hostVars
<1>11. CASE ~lost /\ TaskPublishes
  BY <1>11, TaskServes DEF Store!Next, Store!InStep
<1> QED BY <1>3, <1>4, <1>5, <1>6, <1>7, <1>8, <1>9, <1>10, <1>11 DEF Next, Poll

\* Whatever the interrupt and the poll do to each other, the device serves the
\* commands that arrive one by one in their order, each answered from the table
\* as it then is.  It loses track only when more bytes wait than the ring holds
\* or a poll finds the first part of a command without the second, and is back
\* in step as soon as nothing of that is left.
THEOREM ServesCorrect == Spec => Serves
<1>1. Init => Polled
  BY LinkedInit DEF Init, Polled
<1>2. Spec => []Polled
  BY <1>1, PolledNext, PTL DEF Spec
<1> QED BY <1>2, ServesInit, NextServes, PTL DEF Spec, Serves, Store!Spec
=============================================================================
