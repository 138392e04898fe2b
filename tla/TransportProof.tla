--------------------------- MODULE TransportProof ---------------------------
(***************************************************************************)
(* Theorems about Transport, for every size of a frame, sync word, set of  *)
(* requests and values, and for every number of frames and requests.       *)
(***************************************************************************)
EXTENDS Transport, BasicFacts

-----------------------------------------------------------------------------
(* Parts of sequences. *)

LEMMA Constants ==
  /\ Base \in Nat /\ Base > 3 /\ FrameSize \in Nat /\ FrameSize >= 4
  /\ Byte = 0..(Base - 1) /\ Byte \subseteq Nat /\ Sync \in Seq(Byte) /\ Len(Sync) = 2
  /\ REPLY \in Byte /\ REPLY # 0 /\ REPLY # 1 /\ REPLY # Sync[1]
  /\ MaxSize \in Nat /\ MaxSize < Base
  BY PortAssumption, TransportAssumption DEF FrameSize, Byte

LEMMA FromType ==
  ASSUME NEW S, NEW s \in Seq(S), NEW p \in 1..(Len(s) + 1)
  PROVE  /\ From(s, p) \in Seq(S) /\ Len(From(s, p)) = Len(s) - p + 1
         /\ \A i \in 1..(Len(s) - p + 1) : From(s, p)[i] = s[p + i - 1]
<1>1. Len(s) \in Int /\ p <= Len(s) + 1 /\ Len(s) <= Len(s)
  OBVIOUS
<1> QED BY <1>1, SubType DEF From

\* m elements of s from d + 1 on are those of t from e + 1 on.
Agree(s, d, t, e, m) == \A i \in 1..m : s[d + i] = t[e + i]

LEMMA SameSub ==
  ASSUME NEW S, NEW s \in Seq(S), NEW t \in Seq(S), NEW d \in Nat, NEW e \in Nat, NEW m \in Nat,
         d + m <= Len(s), e + m <= Len(t), Agree(s, d, t, e, m)
  PROVE  SubSeq(s, d + 1, d + m) = SubSeq(t, e + 1, e + m)
<1> DEFINE x == SubSeq(s, d + 1, d + m)  y == SubSeq(t, e + 1, e + m)
<1>1. x \in Seq(S) /\ Len(x) = m /\ \A i \in 1..m : x[i] = s[d + i]
  <2>1. d + 1 \in 1..(Len(s) + 1) /\ d + m \in Int /\ d + 1 <= (d + m) + 1 /\ (d + m) - (d + 1) + 1 = m
        /\ \A i \in 1..m : (d + 1) + i - 1 = d + i
    OBVIOUS
  <2>2. /\ x \in Seq(S) /\ Len(x) = (d + m) - (d + 1) + 1
        /\ \A i \in 1..((d + m) - (d + 1) + 1) : x[i] = s[(d + 1) + i - 1]
    BY <2>1, SubType
  <2> HIDE DEF x
  <2> QED BY <2>1, <2>2
<1>2. y \in Seq(S) /\ Len(y) = m /\ \A i \in 1..m : y[i] = t[e + i]
  <2>1. e + 1 \in 1..(Len(t) + 1) /\ e + m \in Int /\ e + 1 <= (e + m) + 1 /\ (e + m) - (e + 1) + 1 = m
        /\ \A i \in 1..m : (e + 1) + i - 1 = e + i
    OBVIOUS
  <2>2. /\ y \in Seq(S) /\ Len(y) = (e + m) - (e + 1) + 1
        /\ \A i \in 1..((e + m) - (e + 1) + 1) : y[i] = t[(e + 1) + i - 1]
    BY <2>1, SubType
  <2> HIDE DEF y
  <2> QED BY <2>1, <2>2
<1> HIDE DEF x, y
<1>3. \A i \in 1..Len(x) : x[i] = y[i]
  BY <1>1, <1>2 DEF Agree
<1> QED BY <1>1, <1>2, <1>3, SameSeq DEF x, y

\* Whether a frame is at some place depends on the bytes there alone.
LEMMA SameFrame ==
  ASSUME NEW s \in Seq(Byte), NEW t \in Seq(Byte), NEW d \in Nat, NEW e \in Nat,
         d + FrameSize <= Len(s), e + FrameSize <= Len(t), Agree(s, d, t, e, FrameSize)
  PROVE  IsFrameAt(s, d + 1) <=> IsFrameAt(t, e + 1)
<1> DEFINE F == FrameSize
<1>1. F \in Nat /\ F >= 4 /\ F - 1 \in Nat /\ Len(s) \in Nat /\ Len(t) \in Nat
  BY Constants, SMTT(30)
<1>2. Agree(s, d, t, e, 2) /\ Agree(s, d, t, e, F - 1) /\ s[d + F] = t[e + F]
  <2> HIDE DEF F
  <2>1. \A i \in 1..F : s[d + i] = t[e + i]
    BY DEF Agree, F
  <2>2. 1..2 \subseteq 1..F /\ 1..(F - 1) \subseteq 1..F /\ F \in 1..F
    BY <1>1
  <2> QED BY <2>1, <2>2 DEF Agree
<1> HIDE DEF F
<1>3. SubSeq(s, d + 1, d + 2) = SubSeq(t, e + 1, e + 2)
  <2>1. 2 \in Nat /\ d + 2 <= Len(s) /\ e + 2 <= Len(t)
    BY <1>1 DEF F
  <2> QED BY <2>1, <1>2, SameSub
<1>4. SubSeq(s, d + 1, d + (F - 1)) = SubSeq(t, e + 1, e + (F - 1))
  <2> DEFINE m == F - 1
  <2>1. m \in Nat /\ d + m <= Len(s) /\ e + m <= Len(t) /\ Agree(s, d, t, e, m)
    BY <1>1, <1>2 DEF F
  <2> HIDE DEF m
  <2>2. SubSeq(s, d + 1, d + m) = SubSeq(t, e + 1, e + m)
    BY <2>1, SameSub
  <2> QED BY <2>2 DEF m
<1>5. /\ (d + 1) + 1 = d + 2 /\ (d + 1) + F - 2 = d + (F - 1) /\ (d + 1) + F - 1 = d + F
      /\ (e + 1) + 1 = e + 2 /\ (e + 1) + F - 2 = e + (F - 1) /\ (e + 1) + F - 1 = e + F
      /\ d + F <= Len(s) /\ e + F <= Len(t)
  BY <1>1 DEF F
<1>6. IsFrameAt(s, d + 1) <=> /\ SubSeq(s, d + 1, d + 2) = Sync
                              /\ Checksum(SubSeq(s, d + 1, d + (F - 1))) = s[d + F]
  BY <1>5 DEF IsFrameAt, F
<1>7. IsFrameAt(t, e + 1) <=> /\ SubSeq(t, e + 1, e + 2) = Sync
                              /\ Checksum(SubSeq(t, e + 1, e + (F - 1))) = t[e + F]
  BY <1>5 DEF IsFrameAt, F
<1> QED BY <1>2, <1>3, <1>4, <1>6, <1>7

-----------------------------------------------------------------------------
(* Frames. *)

Whole == {frame \in Seq(Byte) : Len(frame) = FrameSize /\ IsFrameAt(frame, 1)}

LEMMA ChecksumType ==
  ASSUME NEW bytes \in Seq(Byte)
  PROVE  Checksum(bytes) \in Byte
<1> DEFINE n == Len(bytes)
           Rule(g) == g = [i \in 0..n |-> IF i = 0 THEN 0 ELSE ByteXor(g[i - 1], bytes[i])]
           g == CHOOSE h : Rule(h)
           step == [xi \in Byte \X (1..n) |-> ByteXor(xi[1], bytes[xi[2]])]
           InByte == {i \in 0..n : g[i] \in Byte}
<1>1. n \in Nat /\ 0 \in Byte /\ \A a, b \in Byte : ByteXor(a, b) \in Byte
  BY PortAssumption DEF Byte
<1>2. Checksum(bytes) = g[n]
  BY DEF Checksum
<1>3. IsStep(step, Byte, n)
  <2>1. ASSUME NEW x \in Byte, NEW i \in 1..n PROVE ByteXor(x, bytes[i]) \in Byte
    <3>1. bytes[i] \in Byte
      OBVIOUS
    <3> QED BY <1>1, <3>1
  <2> QED BY <2>1 DEF IsStep
<1>4. PICK u : Ascends(u, Byte, n, 0, step)
  <2> HIDE DEF step, n
  <2> QED BY <1>1, <1>3, Ascent
<1>5. u \in [0..n -> Byte] /\ u[0] = 0 /\ \A i \in 1..n : u[i] = ByteXor(u[i - 1], bytes[i])
  <2>1. u \in [0..n -> Byte] /\ u[0] = 0 /\ \A i \in 1..n : u[i] = step[<<u[i - 1], i>>]
    <3> HIDE DEF step, n
    <3> QED BY <1>4 DEF Ascends
  <2>2. ASSUME NEW i \in 1..n PROVE step[<<u[i - 1], i>>] = ByteXor(u[i - 1], bytes[i])
    <3>1. u[i - 1] \in Byte
      BY <2>1, <1>1, i - 1 \in 0..n
    <3> QED BY <3>1
  <2> QED BY <2>1, <2>2
<1>6. Rule(u)
  BY <1>5
<1>7. Rule(g)
  BY <1>6
<1> HIDE DEF g, n
<1>8. g[0] = 0 /\ \A i \in 1..n : g[i] = ByteXor(g[i - 1], bytes[i])
  BY <1>1, <1>7
<1> HIDE DEF Rule
<1>9. 0 \in InByte
  BY <1>1, <1>8
<1>10. ASSUME NEW i \in 0..n, i \in InByte, i < n PROVE i + 1 \in InByte
  <2>1. i + 1 \in 1..n /\ (i + 1) - 1 = i /\ i + 1 \in 0..n /\ g[i] \in Byte
    BY <1>1, <1>10
  <2>2. bytes[i + 1] \in Byte
    BY <2>1 DEF n
  <2> HIDE DEF InByte
  <2>3. g[i + 1] = ByteXor(g[i], bytes[i + 1])
    BY <1>8, <2>1
  <2>4. g[i + 1] \in Byte
    BY <1>1, <2>1, <2>2, <2>3
  <2> QED BY <2>1, <2>4 DEF InByte
<1>11. n \in InByte
  <2> HIDE DEF InByte
  <2>1. 0..n \subseteq InByte
    BY <1>1, <1>9, <1>10, Climb
  <2> QED BY <2>1, <1>1
<1> QED BY <1>2, <1>11

\* What telemetry_capture sends is a whole frame.
LEMMA FrameIs ==
  ASSUME NEW seq \in Byte, NEW payload \in Seq(Byte), Len(payload) = PayloadSize
  PROVE  Frame(seq, payload) \in Whole
<1> DEFINE t == <<seq>>  a == Sync \o t  head == a \o payload
<1>1. Sync \in Seq(Byte) /\ Len(Sync) = 2 /\ PayloadSize \in Nat /\ FrameSize = 4 + PayloadSize
  BY PortAssumption DEF Byte, FrameSize
<1>2. t \in Seq(Byte) /\ Len(t) = 1
  OBVIOUS
<1> HIDE DEF t
<1>3. a \in Seq(Byte) /\ Len(a) = 3 /\ \A i \in 1..2 : a[i] = Sync[i]
  <2>1. a \in Seq(Byte) /\ IsCat(a, Sync, t)
    BY <1>1, <1>2, Catenated
  <2> HIDE DEF a
  <2> QED BY <2>1, <1>1, <1>2 DEF IsCat
<1> HIDE DEF a
<1>4. head \in Seq(Byte) /\ Len(head) = 3 + PayloadSize /\ \A i \in 1..2 : head[i] = Sync[i]
  <2>1. head \in Seq(Byte) /\ IsCat(head, a, payload)
    BY <1>3, Catenated
  <2> HIDE DEF head
  <2> QED BY <2>1, <1>3 DEF IsCat
<1> HIDE DEF head
<1>5. Checksum(head) \in Byte
  BY <1>4, ChecksumType
<1> DEFINE sum == Checksum(head)  frame == Append(head, sum)  n == 3 + PayloadSize
<1> HIDE DEF sum
<1>6. /\ frame \in Seq(Byte) /\ Len(frame) = FrameSize /\ frame[FrameSize] = sum
      /\ \A i \in 1..n : frame[i] = head[i]
  BY <1>1, <1>4, <1>5 DEF sum
<1> HIDE DEF frame
<1>7. n \in Nat /\ Len(head) = n /\ FrameSize = n + 1 /\ n >= 3
  BY <1>1, <1>4
<1> HIDE DEF n
<1>8. SubSeq(frame, 1, 2) = Sync
  <2>1. SubSeq(frame, 0 + 1, 0 + 2) = SubSeq(Sync, 0 + 1, 0 + 2)
    <3>1. \A i \in 1..2 : frame[i] = Sync[i]
      BY <1>4, <1>6, <1>7
    <3>2. Agree(frame, 0, Sync, 0, 2)
      BY <3>1 DEF Agree
    <3>3. 0 + 2 <= Len(frame) /\ 0 + 2 <= Len(Sync)
      BY <1>1, <1>6, <1>7
    <3> DEFINE m == 2
    <3>4. /\ Agree(frame, 0, Sync, 0, m) /\ 0 + m <= Len(frame) /\ 0 + m <= Len(Sync)
          /\ m \in Nat /\ 0 \in Nat /\ frame \in Seq(Byte) /\ Sync \in Seq(Byte)
      BY <3>2, <3>3, <1>1, <1>6
    <3> HIDE DEF m
    <3>5. SubSeq(frame, 0 + 1, 0 + m) = SubSeq(Sync, 0 + 1, 0 + m)
      BY ONLY <3>4, SameSub
    <3> QED BY <3>5 DEF m
  <2>2. SubSeq(Sync, 1, 2) = Sync
    BY <1>1
  <2> QED BY <2>1, <2>2
<1>9. SubSeq(frame, 1, n) = head
  <2>1. SubSeq(frame, 0 + 1, 0 + n) = SubSeq(head, 0 + 1, 0 + n)
    <3>1. Agree(frame, 0, head, 0, n)
      BY <1>6, <1>7 DEF Agree
    <3>2. 0 + n <= Len(frame) /\ 0 + n <= Len(head)
      BY <1>6, <1>7
    <3> QED BY <3>1, <3>2, <1>4, <1>6, <1>7, SameSub, 0 \in Nat
  <2>2. SubSeq(head, 1, n) = head
    BY <1>4, <1>7
  <2>3. 0 + 1 = 1 /\ 0 + n = n
    BY <1>7
  <2> QED BY <2>1, <2>2, <2>3
<1>10. IsFrameAt(frame, 1)
  <2>1. /\ 1 + FrameSize - 1 = FrameSize /\ 1 + FrameSize - 2 = n /\ 1 + 1 = 2
        /\ FrameSize <= Len(frame)
    BY <1>6, <1>7
  <2> QED BY <2>1, <1>6, <1>8, <1>9 DEF IsFrameAt, sum
<1>11. Frame(seq, payload) = frame
  BY DEF Frame, frame, head, a, t, sum
<1> QED BY <1>6, <1>10, <1>11 DEF Whole

-----------------------------------------------------------------------------
(* Frames one after the other, and what stands behind them. *)

\* bytes begins with n frames.
Framed(bytes, n) ==
  /\ n \in Nat /\ n * FrameSize <= Len(bytes)
  /\ \A k \in 0..(n - 1) : IsFrameAt(bytes, k * FrameSize + 1)

\* Nothing but frames; frames and the first byte of a status; frames and the
\* status.
Quiet(bytes) == \E n \in Nat : Framed(bytes, n) /\ Len(bytes) = n * FrameSize

Half(bytes) == \E n \in Nat : /\ Framed(bytes, n) /\ Len(bytes) = n * FrameSize + 1
                              /\ bytes[n * FrameSize + 1] = REPLY

Told(bytes, answer) ==
  \E n \in Nat : /\ Framed(bytes, n) /\ n * FrameSize + 2 <= Len(bytes)
                 /\ bytes[n * FrameSize + 1] = REPLY /\ bytes[n * FrameSize + 2] = answer[2]

LEMMA Times ==
  ASSUME NEW n \in Nat, NEW k \in 0..(n - 1)
  PROVE  /\ k * FrameSize \in Nat /\ n * FrameSize \in Nat
         /\ k * FrameSize + FrameSize <= n * FrameSize
         /\ (k + 1) * FrameSize = k * FrameSize + FrameSize
<1> DEFINE F == FrameSize
<1>1. F \in Nat /\ k \in Nat /\ k + 1 <= n
  BY Constants
<1> HIDE DEF F
<1>2. k * F \in Nat /\ n * F \in Nat /\ (k + 1) * F = k * F + F /\ (k + 1) * F <= n * F
  BY <1>1
<1> QED BY <1>2 DEF F

LEMMA TimesType ==
  ASSUME NEW n \in Nat
  PROVE  n * FrameSize \in Nat /\ (n + 1) * FrameSize = n * FrameSize + FrameSize
<1> DEFINE F == FrameSize
<1>1. F \in Nat
  BY Constants
<1> HIDE DEF F
<1>2. n * F \in Nat /\ (n + 1) * F = n * F + F
  BY <1>1
<1> QED BY <1>2 DEF F

\* What comes behind changes nothing.
LEMMA FramedOn ==
  ASSUME NEW b \in Seq(Byte), NEW x \in Seq(Byte), NEW n \in Nat, Framed(b, n)
  PROVE  Framed(b \o x, n)
<1> DEFINE c == b \o x
<1>1. c \in Seq(Byte) /\ IsCat(c, b, x)
  BY Catenated
<1> HIDE DEF c
<1>2. Len(c) = Len(b) + Len(x) /\ \A i \in 1..Len(b) : c[i] = b[i]
  BY <1>1 DEF IsCat
<1>3. ASSUME NEW k \in 0..(n - 1) PROVE IsFrameAt(c, k * FrameSize + 1)
  <2> DEFINE d == k * FrameSize
  <2>1. d \in Nat /\ d + FrameSize <= Len(b) /\ Len(b) \in Nat /\ Len(x) \in Nat
    <3>1. d \in Nat /\ n * FrameSize \in Nat /\ d + FrameSize <= n * FrameSize
      BY Times
    <3> HIDE DEF d
    <3> QED BY <3>1, Constants DEF Framed
  <2>2. IsFrameAt(b, d + 1)
    BY DEF Framed
  <2> HIDE DEF d
  <2>3. Agree(c, d, b, d, FrameSize)
    <3>1. \A i \in 1..FrameSize : d + i \in 1..Len(b)
      BY <2>1, Constants
    <3> QED BY <3>1, <1>2 DEF Agree
  <2>4. d + FrameSize <= Len(c)
    BY <2>1, <1>2, Constants
  <2>5. IsFrameAt(c, d + 1)
    BY <1>1, <2>1, <2>2, <2>3, <2>4, SameFrame
  <2> QED BY <2>5 DEF d
<1>4. n * FrameSize <= Len(c)
  <2>1. n * FrameSize <= Len(b) /\ n * FrameSize \in Nat
    BY TimesType DEF Framed
  <2> QED BY <2>1, <1>2
<1> QED BY <1>3, <1>4 DEF Framed, c

LEMMA FramedMore ==
  ASSUME NEW b \in Seq(Byte), NEW x \in Whole, NEW n \in Nat, Framed(b, n),
         Len(b) = n * FrameSize
  PROVE  Framed(b \o x, n + 1) /\ Len(b \o x) = (n + 1) * FrameSize
<1> DEFINE c == b \o x  d == n * FrameSize
<1>1. x \in Seq(Byte) /\ Len(x) = FrameSize /\ IsFrameAt(x, 0 + 1)
  BY DEF Whole
<1>2. c \in Seq(Byte) /\ IsCat(c, b, x)
  BY <1>1, Catenated
<1>3. Framed(c, n)
  BY <1>1, FramedOn
<1>4. d \in Nat /\ (n + 1) * FrameSize = d + FrameSize /\ FrameSize \in Nat
  BY TimesType, Constants
<1> HIDE DEF c
<1>5. Len(c) = d + FrameSize /\ \A i \in 1..FrameSize : c[d + i] = x[i]
  BY <1>1, <1>2 DEF IsCat
<1>6. IsFrameAt(c, d + 1)
  <2> HIDE DEF d
  <2>1. \A i \in 1..FrameSize : 0 + i = i
    BY <1>4
  <2>2. Agree(c, d, x, 0, FrameSize)
    BY <1>5, <2>1 DEF Agree
  <2>3. 0 + FrameSize <= Len(x) /\ d + FrameSize <= Len(c)
    BY <1>1, <1>4, <1>5
  <2> QED BY <1>1, <1>2, <1>4, <2>2, <2>3, SameFrame, 0 \in Nat
<1>7. ASSUME NEW k \in 0..((n + 1) - 1) PROVE IsFrameAt(c, k * FrameSize + 1)
  <2>1. CASE k = n
    BY <2>1, <1>6
  <2>2. CASE k # n
    <3>1. k \in 0..(n - 1)
      BY <2>2
    <3> QED BY <3>1, <1>3 DEF Framed
  <2> QED BY <2>1, <2>2
<1>8. (n + 1) * FrameSize <= Len(c) /\ n + 1 \in Nat
  <2> HIDE DEF d
  <2> QED BY <1>4, <1>5
<1> QED BY <1>4, <1>5, <1>7, <1>8 DEF Framed, c

LEMMA Extended ==
  ASSUME NEW b \in Seq(Byte), NEW x \in Seq(Byte)
  PROVE  /\ b \o x \in Seq(Byte) /\ Len(b \o x) = Len(b) + Len(x)
         /\ Len(b) \in Nat /\ Len(x) \in Nat
         /\ \A i \in 1..Len(b) : (b \o x)[i] = b[i]
         /\ \A i \in 1..Len(x) : (b \o x)[Len(b) + i] = x[i]
<1> DEFINE c == b \o x
<1>1. c \in Seq(Byte) /\ IsCat(c, b, x)
  BY Catenated
<1> HIDE DEF c
<1>2. c \in Seq(Byte) /\ Len(c) = Len(b) + Len(x) /\ Len(b) \in Nat /\ Len(x) \in Nat
  BY <1>1 DEF IsCat
<1>3. (\A i \in 1..Len(b) : c[i] = b[i]) /\ \A i \in 1..Len(x) : c[Len(b) + i] = x[i]
  BY <1>1 DEF IsCat
<1> QED BY <1>2, <1>3 DEF c

LEMMA QuietFrame ==
  ASSUME NEW b \in Seq(Byte), NEW x \in Whole, Quiet(b)
  PROVE  Quiet(b \o x)
<1>1. PICK n \in Nat : Framed(b, n) /\ Len(b) = n * FrameSize
  BY DEF Quiet
<1>2. Framed(b \o x, n + 1) /\ Len(b \o x) = (n + 1) * FrameSize /\ n + 1 \in Nat
  BY <1>1, FramedMore
<1> QED BY <1>2 DEF Quiet

LEMMA QuietHalf ==
  ASSUME NEW b \in Seq(Byte), NEW x \in Seq(Byte), Quiet(b), Len(x) = 1, x[1] = REPLY
  PROVE  Half(b \o x)
<1> DEFINE c == b \o x
<1>1. PICK n \in Nat : Framed(b, n) /\ Len(b) = n * FrameSize
  BY DEF Quiet
<1>2. Framed(c, n)
  BY <1>1, FramedOn
<1>3. Len(c) = Len(b) + Len(x) /\ \A i \in 1..Len(x) : c[Len(b) + i] = x[i]
  BY Extended
<1> HIDE DEF c
<1>4. Len(c) = n * FrameSize + 1 /\ c[n * FrameSize + 1] = REPLY
  BY <1>1, <1>3
<1> QED BY <1>2, <1>4 DEF Half, c

LEMMA QuietTold ==
  ASSUME NEW b \in Seq(Byte), NEW x \in Seq(Byte), Quiet(b), Len(x) = 2, x[1] = REPLY
  PROVE  Told(b \o x, x)
<1> DEFINE c == b \o x
<1>1. PICK n \in Nat : Framed(b, n) /\ Len(b) = n * FrameSize
  BY DEF Quiet
<1>2. Framed(c, n)
  BY <1>1, FramedOn
<1>3. Len(c) = Len(b) + Len(x) /\ \A i \in 1..Len(x) : c[Len(b) + i] = x[i]
  BY Extended
<1> HIDE DEF c
<1>4. n * FrameSize \in Nat
  BY TimesType
<1>5. c[n * FrameSize + 1] = REPLY /\ c[n * FrameSize + 2] = x[2] /\ n * FrameSize + 2 <= Len(c)
  BY <1>1, <1>3, <1>4
<1> QED BY <1>2, <1>5 DEF Told, c

LEMMA HalfTold ==
  ASSUME NEW b \in Seq(Byte), NEW x \in Seq(Byte), NEW answer, Half(b), Len(x) = 1, x[1] = answer[2]
  PROVE  Told(b \o x, answer)
<1> DEFINE c == b \o x
<1>1. PICK n \in Nat : /\ Framed(b, n) /\ Len(b) = n * FrameSize + 1
                       /\ b[n * FrameSize + 1] = REPLY
  BY DEF Half
<1>2. Framed(c, n)
  BY <1>1, FramedOn
<1>3. /\ Len(c) = Len(b) + Len(x) /\ \A i \in 1..Len(x) : c[Len(b) + i] = x[i]
      /\ \A i \in 1..Len(b) : c[i] = b[i]
  BY Extended
<1> HIDE DEF c
<1> DEFINE d == n * FrameSize
<1>4. d \in Nat /\ Len(b) = d + 1 /\ b[d + 1] = REPLY
  BY <1>1, TimesType
<1> HIDE DEF d
<1>5. c[d + 1] = REPLY
  BY <1>3, <1>4
<1>6. (d + 1) + 1 = d + 2 /\ c[(d + 1) + 1] = x[1]
  BY <1>3, <1>4
<1>7. c[d + 2] = answer[2] /\ d + 2 <= Len(c)
  BY <1>3, <1>4, <1>6
<1> QED BY <1>2, <1>5, <1>7 DEF Told, c, d

LEMMA ToldOn ==
  ASSUME NEW b \in Seq(Byte), NEW x \in Seq(Byte), NEW answer, Told(b, answer)
  PROVE  Told(b \o x, answer)
<1> DEFINE c == b \o x
<1>1. PICK n \in Nat : /\ Framed(b, n) /\ n * FrameSize + 2 <= Len(b)
                       /\ b[n * FrameSize + 1] = REPLY /\ b[n * FrameSize + 2] = answer[2]
  BY DEF Told
<1>2. Framed(c, n)
  BY <1>1, FramedOn
<1>3. Len(c) = Len(b) + Len(x) /\ \A i \in 1..Len(b) : c[i] = b[i]
  BY Extended
<1> HIDE DEF c
<1> DEFINE d == n * FrameSize
<1>4. d \in Nat /\ d + 2 <= Len(b) /\ Len(b) \in Nat /\ Len(x) \in Nat
  <2>1. d \in Nat
    BY TimesType
  <2>2. d + 2 <= Len(b)
    BY <1>1
  <2> HIDE DEF d
  <2> QED BY <2>1, <2>2
<1>5. b[d + 1] = REPLY /\ b[d + 2] = answer[2]
  BY <1>1
<1> HIDE DEF d
<1>6. c[d + 1] = REPLY /\ c[d + 2] = answer[2] /\ d + 2 <= Len(c)
  BY <1>3, <1>4, <1>5
<1> QED BY <1>2, <1>6 DEF Told, c, d

-----------------------------------------------------------------------------
(* _extract_status_reply. *)

\* f is the search from every place on.
Found(bytes, f) ==
  \A p \in 1..(Len(bytes) + 1) :
    f[p] = IF p >= Len(bytes) THEN None
           ELSE IF ~IsFrameAt(bytes, p) /\ IsStatusAt(bytes, p) THEN SubSeq(bytes, p, p + 1)
           ELSE f[Behind(bytes, p)]

LEMMA StatusInIs ==
  ASSUME NEW bytes \in Seq(Byte)
  PROVE  \E f : Found(bytes, f) /\ StatusIn(bytes) = f[1]
<1> DEFINE l == Len(bytes)  N == l + 1
           Stops == {p \in 1..N : p >= l \/ (~IsFrameAt(bytes, p) /\ IsStatusAt(bytes, p))}
           end == [p \in 1..N |-> IF p >= l THEN None ELSE SubSeq(bytes, p, p + 1)]
           next == [p \in 1..N |-> Behind(bytes, p)]
           comb == [px \in (1..N) \X Seq(Byte) |-> px[2]]
           Rule(g) == g = [p \in 1..(Len(bytes) + 1) |->
                             IF p >= Len(bytes) THEN None
                             ELSE IF ~IsFrameAt(bytes, p) /\ IsStatusAt(bytes, p) THEN SubSeq(bytes, p, p + 1)
                             ELSE g[Behind(bytes, p)]]
           g == CHOOSE h : Rule(h)
<1>1. StatusIn(bytes) = g[1]
  BY DEF StatusIn
<1>2. l \in Nat /\ N \in Nat /\ N = l + 1
  OBVIOUS
<1>3. end \in [1..N -> Seq(Byte)]
  <2>1. ASSUME NEW p \in 1..N PROVE (IF p >= l THEN None ELSE SubSeq(bytes, p, p + 1)) \in Seq(Byte)
    <3>1. CASE p >= l
      BY <3>1 DEF None
    <3>2. CASE ~(p >= l)
      <4>1. p \in 1..(l + 1) /\ p + 1 \in Int /\ p <= (p + 1) + 1 /\ p + 1 <= l
        BY <3>2, <1>2
      <4>2. SubSeq(bytes, p, p + 1) \in Seq(Byte)
        BY <4>1, SubType
      <4> QED BY <3>2, <4>2
    <3> QED BY <3>1, <3>2
  <2> QED BY <2>1
<1>4. ASSUME NEW p \in 1..N, p \notin Stops PROVE next[p] \in (p + 1)..N
  <2>1. p < l /\ next[p] = Behind(bytes, p)
    BY <1>4, <1>2
  <2>2. CASE IsFrameAt(bytes, p)
    <3>1. p + FrameSize - 1 <= l /\ Behind(bytes, p) = p + FrameSize
      BY <2>2 DEF IsFrameAt, Behind
    <3> QED BY <3>1, <2>1, <1>2, Constants
  <2>3. CASE ~IsFrameAt(bytes, p)
    <3>1. Behind(bytes, p) = p + 1
      BY <2>3 DEF Behind
    <3> QED BY <3>1, <2>1, <1>2
  <2> QED BY <2>2, <2>3
<1>5. comb \in [(1..N) \X Seq(Byte) -> Seq(Byte)]
  OBVIOUS
<1>6. Turns(Seq(Byte), N, Stops, end, next, comb)
  <2> HIDE DEF N, Stops, end, next, comb
  <2> QED BY <1>3, <1>4, <1>5 DEF Turns
<1>7. PICK u : Descends(u, Seq(Byte), N, Stops, end, next, comb)
  <2>1. Seq(Byte) # {}
    BY << >> \in Seq(Byte)
  <2> HIDE DEF N, Stops, end, next, comb
  <2> QED BY <1>2, <1>6, <2>1, Descent
<1>8. u \in [1..N -> Seq(Byte)] /\ \A p \in 1..N : u[p] = IF p \in Stops THEN end[p] ELSE comb[<<p, u[next[p]]>>]
  <2> HIDE DEF N, Stops, end, next, comb
  <2> QED BY <1>7 DEF Descends
<1>9. ASSUME NEW p \in 1..N
      PROVE  u[p] = IF p >= l THEN None
                    ELSE IF ~IsFrameAt(bytes, p) /\ IsStatusAt(bytes, p) THEN SubSeq(bytes, p, p + 1)
                    ELSE u[Behind(bytes, p)]
  <2>1. CASE p \in Stops
    <3>1. u[p] = end[p]
      BY <1>8, <2>1
    <3>2. end[p] = IF p >= l THEN None ELSE SubSeq(bytes, p, p + 1)
      OBVIOUS
    <3>3. p >= l \/ (~IsFrameAt(bytes, p) /\ IsStatusAt(bytes, p))
      BY <2>1
    <3> HIDE DEF end, Stops
    <3> QED BY <3>1, <3>2, <3>3
  <2>2. CASE p \notin Stops
    <3>1. u[p] = comb[<<p, u[next[p]]>>] /\ next[p] = Behind(bytes, p)
      <4>1. next[p] = Behind(bytes, p)
        OBVIOUS
      <4> HIDE DEF next, comb, Stops
      <4> QED BY <4>1, <1>8, <2>2
    <3>2. next[p] \in 1..N
      <4>1. next[p] \in (p + 1)..N
        BY <1>4, <2>2
      <4> HIDE DEF next
      <4> QED BY <4>1, <1>2
    <3>3. u[next[p]] \in Seq(Byte)
      <4> HIDE DEF next, N
      <4> QED BY <3>2, <1>8
    <3>4. comb[<<p, u[next[p]]>>] = u[next[p]]
      <4> HIDE DEF next, N
      <4> QED BY <3>3
    <3>5. ~(p >= l) /\ ~(~IsFrameAt(bytes, p) /\ IsStatusAt(bytes, p))
      BY <2>2
    <3> HIDE DEF next, comb, Stops
    <3> QED BY <3>1, <3>4, <3>5
  <2> QED BY <2>1, <2>2
<1> HIDE DEF Stops, end, next, comb
<1>10. Rule(u)
  <2> DEFINE r == [p \in 1..(Len(bytes) + 1) |->
                             IF p >= Len(bytes) THEN None
                             ELSE IF ~IsFrameAt(bytes, p) /\ IsStatusAt(bytes, p) THEN SubSeq(bytes, p, p + 1)
                             ELSE u[Behind(bytes, p)]]
  <2>1. \A p \in 1..N : u[p] = r[p]
    BY <1>9
  <2>2. u = [p \in 1..N |-> u[p]]
    BY <1>8
  <2> QED BY <2>1, <2>2
<1>11. Rule(g)
  BY <1>10
<1> HIDE DEF g
<1>12. \A p \in 1..N : g[p] = IF p >= l THEN None
                    ELSE IF ~IsFrameAt(bytes, p) /\ IsStatusAt(bytes, p) THEN SubSeq(bytes, p, p + 1)
                    ELSE g[Behind(bytes, p)]
  BY <1>11
<1> HIDE DEF Rule
<1>13. Found(bytes, g)
  BY <1>12 DEF Found
<1> QED BY <1>1, <1>13

\* The search comes past the frames at the beginning.
LEMMA Skips ==
  ASSUME NEW b \in Seq(Byte), NEW f, Found(b, f), NEW n \in Nat, Framed(b, n)
  PROVE  f[n * FrameSize + 1] = f[1]
<1> DEFINE At(k) == k * FrameSize + 1
           Same == {k \in 0..n : f[At(k)] = f[1]}
<1>1. 0 \in Same
  <2>1. 0 * FrameSize + 1 = 1
    BY Constants
  <2> QED BY <2>1
<1>2. ASSUME NEW k \in 0..n, k \in Same, k < n PROVE k + 1 \in Same
  <2> DEFINE p == k * FrameSize + 1
  <2>1. /\ k * FrameSize \in Nat /\ k * FrameSize + FrameSize <= n * FrameSize /\ n * FrameSize \in Nat
        /\ (k + 1) * FrameSize = k * FrameSize + FrameSize
    <3>1. k \in 0..(n - 1)
      BY <1>2
    <3> QED BY <3>1, Times
  <2>2. n * FrameSize <= Len(b) /\ IsFrameAt(b, p)
    <3>1. k \in 0..(n - 1)
      BY <1>2
    <3> QED BY <3>1 DEF Framed
  <2> DEFINE q == n * FrameSize  r == (k + 1) * FrameSize + 1
  <2>3. r = p + FrameSize
    <3> DEFINE d == k * FrameSize
    <3>1. d \in Nat /\ (k + 1) * FrameSize = d + FrameSize
      BY <2>1
    <3> HIDE DEF d
    <3> QED BY <3>1, Constants DEF d
  <2>4. p \in Nat /\ p >= 1 /\ p + FrameSize - 1 <= q /\ q <= Len(b) /\ q \in Nat
    <3> DEFINE d == k * FrameSize
    <3>1. d \in Nat /\ d + FrameSize <= q /\ q <= Len(b) /\ q \in Nat
      BY <2>1, <2>2
    <3>2. p = d + 1
      OBVIOUS
    <3> HIDE DEF d, q, p
    <3> QED BY <3>1, <3>2, Constants
  <2> HIDE DEF p, q, r
  <2>5. p \in 1..(Len(b) + 1) /\ ~(p >= Len(b))
    BY <2>4, Constants
  <2>6. f[p] = f[p + FrameSize]
    BY <2>2, <2>5 DEF Found, Behind
  <2>7. f[p] = f[1]
    BY <1>2 DEF p
  <2>8. f[r] = f[1]
    BY <2>3, <2>6, <2>7
  <2> QED BY <2>8, <1>2 DEF r
<1> HIDE DEF Same
<1>3. 0..n \subseteq Same
  BY <1>1, <1>2, Climb
<1>4. n \in Same
  BY <1>3
<1> QED BY <1>4 DEF Same

LEMMA NoStatus ==
  ASSUME NEW b \in Seq(Byte), Quiet(b) \/ Half(b)
  PROVE  StatusIn(b) = None
<1>1. PICK n \in Nat : /\ Framed(b, n)
                       /\ Len(b) = n * FrameSize \/ Len(b) = n * FrameSize + 1
  BY DEF Quiet, Half
<1>2. PICK f : Found(b, f) /\ StatusIn(b) = f[1]
  BY StatusInIs
<1> DEFINE d == n * FrameSize
<1>3. f[d + 1] = f[1]
  BY <1>1, <1>2, Skips
<1>4. d \in Nat /\ (Len(b) = d \/ Len(b) = d + 1)
  BY <1>1, TimesType
<1> HIDE DEF d
<1>5. d + 1 \in 1..(Len(b) + 1) /\ d + 1 >= Len(b)
  BY <1>4
<1>6. f[d + 1] = None
  BY <1>2, <1>5 DEF Found
<1> QED BY <1>2, <1>3, <1>6

LEMMA TheStatus ==
  ASSUME NEW b \in Seq(Byte), NEW answer \in {Status(TRUE), Status(FALSE)}, Told(b, answer),
         REPLY # Sync[1]
  PROVE  StatusIn(b) = answer
<1>1. PICK n \in Nat : /\ Framed(b, n) /\ n * FrameSize + 2 <= Len(b)
                       /\ b[n * FrameSize + 1] = REPLY /\ b[n * FrameSize + 2] = answer[2]
  BY DEF Told
<1>2. PICK f : Found(b, f) /\ StatusIn(b) = f[1]
  BY StatusInIs
<1> DEFINE p == n * FrameSize + 1
<1>3. f[p] = f[1]
  BY <1>1, <1>2, Skips
<1>4. p \in Nat /\ p >= 1 /\ p + 1 <= Len(b) /\ b[p] = REPLY /\ b[p + 1] = answer[2]
  <2> DEFINE d == n * FrameSize
  <2>1. d \in Nat
    BY TimesType
  <2>2. d + 2 <= Len(b) /\ b[d + 1] = REPLY /\ b[d + 2] = answer[2]
    BY <1>1
  <2> HIDE DEF d
  <2>3. (d + 1) + 1 = d + 2 /\ d + 1 \in Nat /\ d + 1 >= 1
    BY <2>1
  <2> QED BY <2>2, <2>3 DEF d
<1> HIDE DEF p
<1>5. /\ answer \in Seq(Byte) /\ Len(answer) = 2 /\ answer[1] = REPLY /\ answer[2] \in {0, 1}
  <2>1. 0 \in Byte /\ 1 \in Byte /\ REPLY \in Byte
    BY Constants
  <2>2. answer = <<REPLY, 0>> \/ answer = <<REPLY, 1>>
    BY DEF Status
  <2>3. ASSUME NEW x \in {0, 1} PROVE /\ <<REPLY, x>> \in Seq(Byte) /\ Len(<<REPLY, x>>) = 2
                                     /\ <<REPLY, x>>[1] = REPLY /\ <<REPLY, x>>[2] = x
    BY <2>1
  <2> QED BY <2>2, <2>3
<1> DEFINE x == SubSeq(b, p, p + 1)
<1>6. x \in Seq(Byte) /\ Len(x) = 2 /\ x[1] = b[p] /\ x[2] = b[p + 1]
  <2>1. p \in 1..(Len(b) + 1) /\ p + 1 \in Int /\ p <= (p + 1) + 1 /\ p + 1 <= Len(b) /\ (p + 1) - p + 1 = 2
    BY <1>4
  <2>2. x \in Seq(Byte) /\ Len(x) = (p + 1) - p + 1 /\ \A i \in 1..((p + 1) - p + 1) : x[i] = b[p + i - 1]
    BY <2>1, SubType
  <2> HIDE DEF x
  <2>3. p + 1 - 1 = p /\ p + 2 - 1 = p + 1 /\ 1 \in 1..2 /\ 2 \in 1..2
    BY <1>4
  <2> QED BY <2>1, <2>2, <2>3
<1>7. x[1] # Sync[1]
  BY <1>4, <1>6
<1>8. ~IsFrameAt(b, p)
  BY <1>7 DEF IsFrameAt
<1> HIDE DEF x
<1>9. x = answer
  <2>1. \A i \in 1..Len(x) : x[i] = answer[i]
    BY <1>4, <1>5, <1>6
  <2> QED BY <2>1, <1>5, <1>6, SameSeq
<1>10. IsStatusAt(b, p) /\ p \in 1..(Len(b) + 1) /\ ~(p >= Len(b))
  BY <1>4, <1>5 DEF IsStatusAt
<1>11. f[p] = x
  BY <1>2, <1>8, <1>10 DEF Found, x
<1> QED BY <1>2, <1>3, <1>9, <1>11

-----------------------------------------------------------------------------
(* The rest of extract_reply_frame: it returns something that could be the  *)
(* value of the id, if there is any.                                        *)

LEMMA NoObject ==
  ASSUME NEW bytes, NEW id, ObjectStarts(bytes, id) = {}
  PROVE  ObjectIn(bytes, id) = None
  BY DEF ObjectIn

LEMMA ObjectOf ==
  ASSUME NEW b \in Seq(Byte), NEW id, ObjectStarts(b, id) # {}
  PROVE  \E p \in ObjectStarts(b, id) : ObjectIn(b, id) = SubSeq(b, p, ObjectEnd(b, p))
<1> DEFINE S == ObjectStarts(b, id)  L == {b[s + 3] : s \in S}
           B == {s \in S : b[s + 3] = Max(L)}
<1>1. ASSUME NEW s \in S PROVE s \in Nat /\ b[s + 3] \in 0..MaxSize
  <2>1. s \in 1..(Len(b) - 3) /\ b[s + 3] <= MaxSize
    BY DEF ObjectStarts
  <2>2. s + 3 \in 1..Len(b)
    BY <2>1
  <2>3. b[s + 3] \in Byte
    BY <2>2
  <2> DEFINE v == b[s + 3]
  <2>4. v \in Nat /\ v <= MaxSize
    BY <2>1, <2>3, Constants
  <2> HIDE DEF v
  <2>5. v \in 0..MaxSize
    BY <2>4
  <2>6. s \in Nat
    BY <2>1
  <2> QED BY <2>5, <2>6 DEF v
<1>2. ObjectIn(b, id) = SubSeq(b, Min(B), ObjectEnd(b, Min(B))) /\ S # {}
  BY DEF ObjectIn
<1> HIDE DEF S
<1>3. Max(L) \in L
  <2> DEFINE R == {MaxSize - y : y \in L}
  <2>1. L \subseteq 0..MaxSize /\ L # {} /\ MaxSize \in Nat
    BY <1>1, <1>2, Constants
  <2> HIDE DEF L
  <2>2. R \in SUBSET Nat /\ R # {}
    <3>1. \A y \in L : MaxSize - y \in Nat
      BY <2>1
    <3> QED BY <3>1, <2>1
  <2>3. PICK x \in R : \A y \in R : x <= y
    BY <2>2, Least
  <2>4. PICK z \in L : x = MaxSize - z
    OBVIOUS
  <2>5. ASSUME NEW y \in L PROVE z >= y
    <3>1. MaxSize - y \in R
      OBVIOUS
    <3> HIDE DEF R
    <3>2. MaxSize - z <= MaxSize - y
      BY <3>1, <2>3, <2>4
    <3>3. z \in Int /\ y \in Int
      BY <2>1
    <3> QED BY <3>2, <3>3, <2>1
  <2> QED BY <2>5 DEF Max
<1>4. B # {} /\ B \in SUBSET Nat /\ B \subseteq S
  BY <1>1, <1>3
<1>5. Min(B) \in B
  <2> HIDE DEF B
  <2>1. \E x \in B : \A y \in B : x <= y
    BY <1>4, Least
  <2> QED BY <2>1 DEF Min
<1> HIDE DEF B
<1>6. Min(B) \in S
  BY <1>4, <1>5
<1> QED BY <1>2, <1>6 DEF S

\* It is never nothing.
LEMMA SomeObject ==
  ASSUME NEW b \in Seq(Byte), NEW id, ObjectStarts(b, id) # {}
  PROVE  ObjectIn(b, id) # None
<1>1. PICK p \in ObjectStarts(b, id) : ObjectIn(b, id) = SubSeq(b, p, ObjectEnd(b, p))
  BY ObjectOf
<1> DEFINE v == b[p + 3]  e == ObjectEnd(b, p)
<1>2. p \in 1..(Len(b) - 3) /\ e <= Len(b) /\ v \in Byte
  BY DEF ObjectStarts
<1>3. e = p + 3 + v
  BY DEF ObjectEnd
<1> HIDE DEF v, e
<1>4. p \in 1..(Len(b) + 1) /\ e \in Int /\ p <= e + 1 /\ e - p + 1 > 0
  BY <1>2, <1>3, Constants
<1>5. Len(SubSeq(b, p, e)) = e - p + 1
  BY <1>2, <1>4, SubType
<1>6. Len(SubSeq(b, p, e)) # Len(None)
  BY <1>4, <1>5 DEF None
<1> QED BY <1>1, <1>6 DEF e

LEMMA Digits ==
  ASSUME NEW n \in 0..(Base * Base - 1)
  PROVE  /\ n % Base \in Byte /\ n \div Base \in Byte
         /\ n = (n % Base) + Base * (n \div Base)
<1>1. Base \in Nat /\ Base > 3 /\ Byte = 0..(Base - 1)
  BY Constants
<1> QED BY ONLY <1>1, n \in 0..(Base * Base - 1)

LEMMA StatusIs ==
  ASSUME NEW answer \in {Status(TRUE), Status(FALSE)}
  PROVE  /\ answer \in Seq(Byte) /\ Len(answer) = 2
         /\ answer[1] = REPLY /\ answer[2] \in {0, 1}
<1>1. 0 \in Byte /\ 1 \in Byte /\ REPLY \in Byte
  BY Constants
<1>2. answer = <<REPLY, 0>> \/ answer = <<REPLY, 1>>
  BY DEF Status
<1>3. ASSUME NEW x \in {0, 1} PROVE /\ <<REPLY, x>> \in Seq(Byte) /\ Len(<<REPLY, x>>) = 2
                                   /\ <<REPLY, x>>[1] = REPLY /\ <<REPLY, x>>[2] = x
  BY <1>1
<1> QED BY <1>2, <1>3

\* The answers of the device: two bytes, or a value of an id.
Replies == UNION {Answers(c) : c \in Command}

IsStatus(a) == a \in Seq(Byte) /\ Len(a) = 2 /\ a[1] = REPLY /\ a[2] \in {0, 1}

IsValueOf(a, c, d) ==
  /\ c.op = "read" /\ a \in Answers(c)
  /\ a \in Seq(Byte) /\ Len(a) = 4 + Len(d)
  /\ a[1] = REPLY /\ a[2] = c.id % Base /\ a[3] = c.id \div Base /\ a[4] = Len(d)
  /\ \A q \in 1..Len(d) : a[4 + q] = d[q]

LEMMA ReplyIs ==
  ASSUME NEW a \in Replies
  PROVE  IsStatus(a) \/ \E c \in Command, d \in Data : IsValueOf(a, c, d)
<1>1. PICK c \in Command : a \in Answers(c)
  BY DEF Replies
<1>2. CASE a \in {Status(TRUE), Status(FALSE)}
  BY <1>2, StatusIs DEF IsStatus
<1>3. CASE a \notin {Status(TRUE), Status(FALSE)}
  <2>1. c.op # "write" /\ c.op = "read"
    BY <1>1, <1>3, TransportAssumption DEF Answers
  <2>2. PICK d \in Data : a = <<REPLY, c.id % Base, c.id \div Base, Len(d)>> \o d
    BY <1>1, <1>3, <2>1 DEF Answers
  <2> DEFINE lo == c.id % Base  hi == c.id \div Base  n == Len(d)  h == <<REPLY, lo, hi, n>>
  <2>3. d \in Seq(Byte) /\ n \in Byte /\ lo \in Byte /\ hi \in Byte /\ REPLY \in Byte
    <3>1. d \in Seq(Byte) /\ n < Base /\ n \in Nat
      BY TransportAssumption, Constants
    <3>2. c.id \in 0..(Base * Base - 1)
      BY TransportAssumption
    <3>3. lo \in Byte /\ hi \in Byte
      BY <3>2, Digits
    <3> HIDE DEF n, lo, hi
    <3>4. n \in Byte
      BY <3>1, Constants
    <3> QED BY <3>1, <3>3, <3>4, Constants
  <2> HIDE DEF lo, hi, n
  <2>4. h \in Seq(Byte) /\ Len(h) = 4 /\ h[1] = REPLY /\ h[2] = lo /\ h[3] = hi /\ h[4] = n
    BY <2>3
  <2>5. a = h \o d
    BY <2>2 DEF lo, hi, n
  <2> HIDE DEF h
  <2>6. /\ a \in Seq(Byte) /\ Len(a) = 4 + n
        /\ \A i \in 1..4 : a[i] = h[i]
        /\ \A q \in 1..n : a[4 + q] = d[q]
    <3> DEFINE y == h \o d
    <3>1. h \in Seq(Byte) /\ d \in Seq(Byte) /\ Len(h) = 4 /\ Len(d) = n
      BY <2>3, <2>4 DEF n
    <3>2. /\ y \in Seq(Byte) /\ Len(y) = Len(h) + Len(d)
          /\ \A i \in 1..Len(h) : y[i] = h[i]
          /\ \A i \in 1..Len(d) : y[Len(h) + i] = d[i]
      BY ONLY <3>1, Extended
    <3>3. a = y
      BY <2>5
    <3> HIDE DEF y
    <3> QED BY ONLY <3>1, <3>2, <3>3
  <2>7. 1 \in 1..4 /\ 2 \in 1..4 /\ 3 \in 1..4 /\ 4 \in 1..4
    OBVIOUS
  <2>8. IsValueOf(a, c, d)
    BY <2>1, <2>4, <2>6, <2>7, <1>1 DEF IsValueOf, lo, hi, n
  <2> QED BY <2>8
<1> QED BY <1>2, <1>3

LEMMA ReplyType ==
  ASSUME NEW a \in Replies
  PROVE  a \in Seq(Byte) /\ Len(a) \in Nat /\ Len(a) >= 2 /\ a[1] = REPLY
<1>1. CASE IsStatus(a)
  BY <1>1 DEF IsStatus
<1>2. CASE ~IsStatus(a)
  <2>1. PICK c \in Command, d \in Data : IsValueOf(a, c, d)
    BY <1>2, ReplyIs
  <2>2. Len(d) \in Nat
    BY TransportAssumption
  <2> QED BY <2>1, <2>2 DEF IsValueOf
<1> QED BY <1>1, <1>2

\* f says which answer begins where; the last begins at t.
LEMMA AnswersType ==
  ASSUME NEW c \in Command, NEW answer \in Answers(c)
  PROVE  answer \in Replies /\ answer \in Seq(Byte)
  BY ReplyType DEF Replies

\* An answer with a value is longer than a status.
LEMMA ValueLong ==
  ASSUME NEW c \in Command, c.op = "read", c.id \in Readable, NEW answer \in Answers(c)
  PROVE  Len(answer) > 2
<1>1. PICK d \in Data : answer = <<REPLY, c.id % Base, c.id \div Base, Len(d)>> \o d
  <2>1. c.op # "write"
    OBVIOUS
  <2> QED BY <2>1 DEF Answers
<1> DEFINE lo == c.id % Base  hi == c.id \div Base  n == Len(d)  h == <<REPLY, lo, hi, n>>
<1>2. d \in Seq(Byte) /\ n \in Nat /\ n < Base /\ c.id \in 0..(Base * Base - 1)
  BY TransportAssumption, Constants
<1>3. lo \in Byte /\ hi \in Byte
  BY <1>2, Digits
<1> HIDE DEF lo, hi
<1>4. n \in Byte /\ REPLY \in Byte
  <2> HIDE DEF n
  <2> QED BY <1>2, Constants
<1>5. h \in Seq(Byte) /\ Len(h) = 4
  <2> HIDE DEF n
  <2> QED BY <1>3, <1>4
<1>6. answer = h \o d
  BY <1>1 DEF lo, hi
<1> HIDE DEF h
<1>7. Len(h \o d) = Len(h) + Len(d)
  BY <1>2, <1>5, Extended
<1>8. Len(answer) = 4 + n
  BY <1>5, <1>6, <1>7
<1> HIDE DEF n
<1> QED BY <1>2, <1>8

\* a stands in b from p on, as far as b goes.
StandsAt(b, p, a) == \A q \in 1..Len(a) : p + q - 1 <= Len(b) => b[p + q - 1] = a[q]

\* Where an answer with a value stands, nothing else can be taken for one.
LEMMA ValueFound ==
  ASSUME NEW b \in Seq(Byte), NEW c \in Command, c.op = "read", NEW a \in Replies, Len(a) > 2,
         NEW p \in ObjectStarts(b, c.id), StandsAt(b, p, a)
  PROVE  SubSeq(b, p, ObjectEnd(b, p)) = a /\ a \in Answers(c)
<1>1. PICK k \in Command, d \in Data : IsValueOf(a, k, d)
  <2>1. ~IsStatus(a)
    <3> SUFFICES ASSUME IsStatus(a) PROVE FALSE
      OBVIOUS
    <3>1. Len(a) = 2
      BY DEF IsStatus
    <3> QED BY <3>1
  <2> QED BY <2>1, ReplyIs
<1> DEFINE n == Len(d)
<1>2. /\ k.op = "read" /\ a \in Answers(k) /\ a \in Seq(Byte) /\ Len(a) = 4 + n
      /\ a[2] = k.id % Base /\ a[3] = k.id \div Base /\ a[4] = n
  BY <1>1 DEF IsValueOf
<1>3. n \in Nat
  BY TransportAssumption
<1>4. p \in 1..(Len(b) - 3) /\ b[p + 1] + Base * b[p + 2] = c.id /\ ObjectEnd(b, p) <= Len(b)
  BY DEF ObjectStarts
<1> HIDE DEF n
<1>5. b[p + 1] = a[2] /\ b[p + 2] = a[3] /\ b[p + 3] = a[4]
  <2>1. \A q \in 2..4 : q \in 1..Len(a) /\ p + q - 1 <= Len(b)
    BY <1>2, <1>3, <1>4
  <2>2. \A q \in 2..4 : b[p + q - 1] = a[q]
    BY <2>1 DEF StandsAt
  <2>3. p + 2 - 1 = p + 1 /\ p + 3 - 1 = p + 2 /\ p + 4 - 1 = p + 3
    BY <1>4
  <2>4. 2 \in 2..4 /\ 3 \in 2..4 /\ 4 \in 2..4
    OBVIOUS
  <2>5. b[p + 2 - 1] = a[2] /\ b[p + 3 - 1] = a[3] /\ b[p + 4 - 1] = a[4]
    BY <2>2, <2>4
  <2> QED BY <2>3, <2>5
<1>6. k = c
  <2>1. k.id = (k.id % Base) + Base * (k.id \div Base)
    BY TransportAssumption, Digits
  <2>2. k.id = c.id
    BY <2>1, <1>2, <1>4, <1>5
  <2>3. k \in [op : {"read", "write"}, id : 0..(Base * Base - 1)]
        /\ c \in [op : {"read", "write"}, id : 0..(Base * Base - 1)]
    BY TransportAssumption
  <2> QED BY <2>2, <2>3, <1>2
<1> DEFINE e == ObjectEnd(b, p)
<1>7. e = p + 3 + n
  BY <1>2, <1>5 DEF ObjectEnd
<1>8. e <= Len(b)
  BY <1>4
<1> HIDE DEF e
<1>9. SubSeq(b, p, e) = a
  <2>1. p \in 1..(Len(b) + 1) /\ e \in Int /\ p <= e + 1 /\ e <= Len(b) /\ e - p + 1 = 4 + n
    BY <1>3, <1>4, <1>7, <1>8
  <2> DEFINE s == SubSeq(b, p, e)
  <2>2. /\ s \in Seq(Byte) /\ Len(s) = e - p + 1 /\ \A i \in 1..(e - p + 1) : s[i] = b[p + i - 1]
    BY <2>1, SubType
  <2> HIDE DEF s
  <2>3. ASSUME NEW i \in 1..Len(s) PROVE s[i] = a[i]
    <3>1. i \in 1..Len(a) /\ p + i - 1 <= Len(b) /\ i \in 1..(e - p + 1)
      <4>1. i \in 1..(e - p + 1)
        BY <2>2
      <4>2. p \in Int /\ Len(b) \in Int /\ Len(a) = e - p + 1
        BY <2>1, <1>2
      <4> QED BY <4>1, <4>2, <2>1
    <3>2. b[p + i - 1] = a[i]
      BY <3>1 DEF StandsAt
    <3> QED BY <3>1, <3>2, <2>2
  <2>4. Len(s) = Len(a)
    BY <2>1, <2>2, <1>2
  <2>5. s = a
    BY <2>2, <2>3, <2>4, <1>2, SameSeq
  <2> QED BY <2>5 DEF s
<1> QED BY <1>2, <1>6, <1>9 DEF e

\* Where it stands whole it is found.
LEMMA ValueThere ==
  ASSUME NEW b \in Seq(Byte), NEW c \in Command, c.op = "read", NEW a \in Answers(c), Len(a) > 2,
         NEW p \in Nat \ {0}, p + Len(a) - 1 <= Len(b), StandsAt(b, p, a)
  PROVE  p \in ObjectStarts(b, c.id)
<1>1. PICK d \in Data : a = <<REPLY, c.id % Base, c.id \div Base, Len(d)>> \o d
  <2>1. a # Status(FALSE)
    <3> DEFINE m == Len(a)  n == Len(Status(FALSE))
    <3>1. m > 2 /\ n = 2
      BY StatusIs
    <3> HIDE DEF m, n
    <3>2. m # n
      BY <3>1
    <3> QED BY <3>2 DEF m, n
  <2>2. c.op # "write"
    OBVIOUS
  <2> QED BY <2>1, <2>2 DEF Answers
<1> DEFINE lo == c.id % Base  hi == c.id \div Base  n == Len(d)  h == <<REPLY, lo, hi, n>>
<1>2. d \in Seq(Byte) /\ n \in Nat /\ n <= MaxSize /\ c.id \in 0..(Base * Base - 1)
  BY TransportAssumption
<1>3. lo \in Byte /\ hi \in Byte /\ c.id = lo + Base * hi
  BY <1>2, Digits
<1> HIDE DEF lo, hi
<1>4. n \in Byte /\ REPLY \in Byte
  <2> HIDE DEF n
  <2> QED BY <1>2, Constants
<1> HIDE DEF n
<1>5. h \in Seq(Byte) /\ Len(h) = 4 /\ h[1] = REPLY /\ h[2] = lo /\ h[3] = hi /\ h[4] = n
  BY <1>3, <1>4
<1>6. a = h \o d
  BY <1>1 DEF lo, hi, n
<1> HIDE DEF h
<1>7. Len(a) = 4 + n /\ \A i \in 1..4 : a[i] = h[i]
  <2> DEFINE y == h \o d
  <2>1. Len(y) = Len(h) + Len(d) /\ \A i \in 1..Len(h) : y[i] = h[i]
    BY <1>2, <1>5, Extended
  <2>2. a = y
    BY <1>6
  <2> HIDE DEF y
  <2> QED BY <2>1, <2>2, <1>5 DEF n
<1>8. b[p] = REPLY /\ b[p + 1] = lo /\ b[p + 2] = hi /\ b[p + 3] = n
  <2>1. \A q \in 1..4 : q \in 1..Len(a) /\ p + q - 1 <= Len(b)
    BY <1>2, <1>7
  <2>2. \A q \in 1..4 : b[p + q - 1] = h[q]
    BY <2>1, <1>7 DEF StandsAt
  <2>3. p + 1 - 1 = p /\ p + 2 - 1 = p + 1 /\ p + 3 - 1 = p + 2 /\ p + 4 - 1 = p + 3
    OBVIOUS
  <2>4. 1 \in 1..4 /\ 2 \in 1..4 /\ 3 \in 1..4 /\ 4 \in 1..4
    OBVIOUS
  <2>5. /\ b[p + 1 - 1] = h[1] /\ b[p + 2 - 1] = h[2]
        /\ b[p + 3 - 1] = h[3] /\ b[p + 4 - 1] = h[4]
    BY <2>2, <2>4
  <2> QED BY <2>3, <2>5, <1>5
<1>9. p \in 1..(Len(b) - 3) /\ p + 3 + n <= Len(b)
  BY <1>2, <1>7
<1>10. ObjectEnd(b, p) <= Len(b) /\ b[p + 3] <= MaxSize /\ b[p + 1] + Base * b[p + 2] = c.id
  BY <1>2, <1>3, <1>8, <1>9 DEF ObjectEnd
<1> QED BY <1>8, <1>9, <1>10 DEF ObjectStarts

-----------------------------------------------------------------------------
(* What a read adds to the bytes received, a message at a time.            *)

LEMMA CatAssoc ==
  ASSUME NEW S, NEW a \in Seq(S), NEW b \in Seq(S), NEW c \in Seq(S)
  PROVE  (a \o b) \o c = a \o (b \o c)
  OBVIOUS

LEMMA FlattenIs ==
  ASSUME NEW S, NEW seqs \in Seq(Seq(S))
  PROVE  \E u \in [0..Len(seqs) -> Seq(S)] :
           /\ u[0] = << >> /\ \A i \in 1..Len(seqs) : u[i] = u[i - 1] \o seqs[i]
           /\ FlattenSeq(seqs) = u[Len(seqs)]
<1> DEFINE n == Len(seqs)
           Rule(g) == g = [i \in 1..n |-> IF i = 1 THEN seqs[i] ELSE g[i - 1] \o seqs[i]]
           g == CHOOSE h : Rule(h)
           step == [xi \in Seq(S) \X (1..n) |-> xi[1] \o seqs[xi[2]]]
<1>1. n \in Nat /\ \A i \in 1..n : seqs[i] \in Seq(S)
  OBVIOUS
<1>2. IsStep(step, Seq(S), n)
  <2>1. ASSUME NEW x \in Seq(S), NEW i \in 1..n PROVE x \o seqs[i] \in Seq(S)
    <3>1. seqs[i] \in Seq(S)
      BY <1>1
    <3> QED BY <3>1
  <2> QED BY <2>1 DEF IsStep
<1>3. PICK u : Ascends(u, Seq(S), n, << >>, step)
  <2>1. << >> \in Seq(S)
    OBVIOUS
  <2> HIDE DEF step, n
  <2> QED BY <2>1, <1>1, <1>2, Ascent
<1>4. u \in [0..n -> Seq(S)] /\ u[0] = << >> /\ \A i \in 1..n : u[i] = u[i - 1] \o seqs[i]
  <2>1. u \in [0..n -> Seq(S)] /\ u[0] = << >> /\ \A i \in 1..n : u[i] = step[<<u[i - 1], i>>]
    <3> HIDE DEF step, n
    <3> QED BY <1>3 DEF Ascends
  <2>2. ASSUME NEW i \in 1..n PROVE step[<<u[i - 1], i>>] = u[i - 1] \o seqs[i]
    <3>1. u[i - 1] \in Seq(S)
      <4>1. i - 1 \in 0..n
        BY <1>1
      <4> QED BY <2>1, <4>1
    <3> QED BY <3>1
  <2> QED BY <2>1, <2>2
<1>5. CASE n = 0
  <2>1. FlattenSeq(seqs) = << >>
    BY <1>5 DEF FlattenSeq
  <2> HIDE DEF n
  <2>2. FlattenSeq(seqs) = u[n]
    BY <2>1, <1>4, <1>5
  <2> QED BY <1>4, <2>2 DEF n
<1>6. CASE n # 0
  <2>1. FlattenSeq(seqs) = g[n]
    BY <1>6 DEF FlattenSeq
  <2> DEFINE r == [i \in 1..n |-> u[i]]
  <2>2. u[1] = seqs[1]
    <3>1. 1 \in 1..n /\ 1 - 1 = 0
      BY <1>1, <1>6
    <3>2. u[1] = << >> \o seqs[1] /\ seqs[1] \in Seq(S)
      <4>1. u[1] = u[1 - 1] \o seqs[1]
        BY <3>1, <1>4
      <4> QED BY <4>1, <3>1, <1>1, <1>4
    <3> QED BY <3>2
  <2>3. ASSUME NEW i \in 1..n PROVE r[i] = IF i = 1 THEN seqs[i] ELSE r[i - 1] \o seqs[i]
    <3>1. CASE i = 1
      BY <3>1, <2>2
    <3>2. CASE i # 1
      <4>1. i - 1 \in 1..n
        BY <3>2, <1>1
      <4>2. r[i] = u[i] /\ r[i - 1] = u[i - 1]
        BY <4>1
      <4> HIDE DEF r
      <4> QED BY <3>2, <4>2, <1>4
    <3> QED BY <3>1, <3>2
  <2>4. Rule(r)
    <3>1. r = [i \in 1..n |-> r[i]]
      OBVIOUS
    <3> HIDE DEF r, n
    <3> QED BY <2>3, <3>1
  <2>5. Rule(g)
    <3> HIDE DEF r
    <3> QED BY <2>4
  <2> HIDE DEF g, n, r
  <2>6. \A i \in 1..n : g[i] = IF i = 1 THEN seqs[i] ELSE g[i - 1] \o seqs[i]
    BY <2>5
  <2> HIDE DEF Rule
  <2> DEFINE Same == {i \in 0..n : i = 0 \/ g[i] = u[i]}
  <2>7. 0 \in Same
    BY <1>1
  <2>8. ASSUME NEW i \in 0..n, i \in Same, i < n PROVE i + 1 \in Same
    <3>1. i + 1 \in 1..n /\ (i + 1) - 1 = i /\ i + 1 \in 0..n
      BY <1>1, <2>8
    <3>2. CASE i = 0
      <4>1. g[1] = seqs[1]
        BY <3>1, <3>2, <2>6
      <4> QED BY <4>1, <2>2, <3>1, <3>2
    <3>3. CASE i # 0
      <4>1. i + 1 # 1 /\ g[i] = u[i]
        BY <3>3, <2>8
      <4>2. g[i + 1] = g[i] \o seqs[i + 1]
        BY <3>1, <4>1, <2>6
      <4>3. u[i + 1] = u[i] \o seqs[i + 1]
        BY <3>1, <1>4
      <4> QED BY <3>1, <4>1, <4>2, <4>3
    <3> QED BY <3>2, <3>3
  <2>9. n \in Same
    <3> HIDE DEF Same
    <3>1. 0..n \subseteq Same
      BY <1>1, <2>7, <2>8, Climb
    <3> QED BY <3>1, <1>1
  <2>10. FlattenSeq(seqs) = u[n]
    BY <2>1, <2>9, <1>6
  <2> QED BY <1>4, <2>10 DEF n
<1> QED BY <1>5, <1>6

-----------------------------------------------------------------------------
(* The port. *)

Message == [kind : {"frame", "reply", "cut"}, bytes : Seq(Byte)]

PortInv == /\ wire \in Seq(Message)
           /\ split \in BOOLEAN /\ (split => wire # << >>)

LEMMA PortIs == PortInv => PortTypeOK
<1> SUFFICES ASSUME PortInv PROVE PortTypeOK
  OBVIOUS
<1>1. \A i \in 1..Len(wire) : wire[i] \in Message
  BY DEF PortInv
<1>2. \A m \in Message : m.bytes \in Seq(Byte)
  BY DEF Message
<1> QED BY <1>1, <1>2 DEF PortInv, PortTypeOK

LEMMA Arrival ==
  ASSUME PortInv, NEW kind \in {"frame", "reply", "cut"}, NEW bytes \in Seq(Byte),
         Arrives(kind, bytes)
  PROVE  /\ PortInv' /\ Len(wire') = Len(wire) + 1 /\ Len(wire) \in Nat
         /\ \A i \in 1..Len(wire) : wire'[i] = wire[i]
         /\ wire'[Len(wire) + 1].kind = kind /\ wire'[Len(wire) + 1].bytes = bytes
<1> DEFINE m == [kind |-> kind, bytes |-> bytes]
<1>1. m \in Message /\ m.kind = kind /\ m.bytes = bytes
  BY DEF Message
<1>2. wire' = Append(wire, m) /\ split' = split
  BY DEF Arrives
<1> HIDE DEF m
<1>3. wire \in Seq(Message) /\ split \in BOOLEAN
  BY DEF PortInv
<1>4. /\ wire' \in Seq(Message) /\ Len(wire') = Len(wire) + 1 /\ Len(wire) \in Nat
      /\ wire'[Len(wire) + 1] = m /\ \A i \in 1..Len(wire) : wire'[i] = wire[i]
  BY <1>1, <1>2, <1>3
<1>5. wire' # << >>
  BY <1>4
<1> QED BY <1>1, <1>2, <1>3, <1>4, <1>5 DEF PortInv

LEMMA PartIs ==
  ASSUME PortInv, NEW part \in Parts
  PROVE  /\ part.whole \in 0..Len(wire) /\ part.more \in Nat /\ Len(wire) \in Nat
         /\ part.more > 0 => /\ part.whole < Len(wire)
                             /\ part.more < Len(wire[part.whole + 1].bytes)
<1> DEFINE w == part.whole  e == part.more
<1>1. part \in [whole : 0..Len(wire), more : {0} \cup Splits]
  BY DEF Parts
<1>2. e > 0 => w < Len(wire) /\ e < Len(wire[w + 1].bytes)
  BY DEF Parts
<1>3. w \in 0..Len(wire) /\ e \in {0} \cup Splits /\ Len(wire) \in Nat
  BY <1>1 DEF PortInv
<1> HIDE DEF w, e
<1>4. w \in 0..Len(wire) /\ e \in Nat
  BY <1>3, PortAssumption
<1> QED BY <1>2, <1>3, <1>4 DEF w, e

LEMMA BytesType ==
  ASSUME PortInv
  PROVE  \A i \in 1..Len(wire) : wire[i] \in Message /\ wire[i].bytes \in Seq(Byte)
<1>1. \A i \in 1..Len(wire) : wire[i] \in Message
  BY DEF PortInv
<1>2. \A m \in Message : m.bytes \in Seq(Byte)
  BY DEF Message
<1> QED BY <1>1, <1>2

\* What a read leaves at the port.
LEMMA Advances ==
  ASSUME PortInv, NEW part \in Parts, Advance(part)
  PROVE  /\ PortInv' /\ Len(wire') = Len(wire) - part.whole
         /\ \A i \in 1..Len(wire') : i # 1 \/ part.more = 0 => wire'[i] = wire[part.whole + i]
         /\ part.more > 0 =>
              /\ wire'[1].kind = wire[part.whole + 1].kind
              /\ wire'[1].bytes = From(wire[part.whole + 1].bytes, part.more + 1)
<1> DEFINE w == part.whole  e == part.more  next == w + 1
<1>1. /\ w \in 0..Len(wire) /\ e \in Nat
      /\ e > 0 => w < Len(wire) /\ e < Len(wire[w + 1].bytes)
  BY PartIs
<1>2. wire \in Seq(Message) /\ Len(wire) \in Nat /\ split \in BOOLEAN /\ (split => wire # << >>)
  BY DEF PortInv
<1>3. split' = IF Some(part) THEN e > 0 ELSE split
  BY DEF Advance
<1>4. CASE e = 0
  <2>1. wire' = From(wire, next)
    BY <1>4 DEF Advance
  <2>2. next \in 1..(Len(wire) + 1) /\ Len(wire) - next + 1 = Len(wire) - w
        /\ \A i \in 1..(Len(wire) - w) : next + i - 1 = w + i
    <3> HIDE DEF w
    <3> QED BY <1>1, <1>2, SMTT(30)
  <2> HIDE DEF next
  <2>3. /\ wire' \in Seq(Message) /\ Len(wire') = Len(wire) - w
        /\ \A i \in 1..Len(wire') : wire'[i] = wire[w + i]
    <3>1. /\ wire' \in Seq(Message) /\ Len(wire') = Len(wire) - next + 1
          /\ \A i \in 1..(Len(wire) - next + 1) : wire'[i] = wire[next + i - 1]
      BY <2>1, <2>2, <1>2, FromType
    <3> HIDE DEF w
    <3> QED BY <3>1, <2>2
  <2>4. split' \in BOOLEAN /\ (split' => wire' # << >>)
    <3>1. CASE Some(part)
      <4>1. ~(e > 0) /\ (e > 0) \in BOOLEAN
        BY <1>1, <1>4
      <4> HIDE DEF e
      <4>2. split' \in BOOLEAN /\ ~split'
        BY <1>3, <3>1, <4>1
      <4> QED BY <4>2
    <3>2. CASE ~Some(part)
      <4>1. w = 0
        BY <3>2, <1>1, <1>4 DEF Some
      <4>2. wire' = wire
        <5>1. wire' = SubSeq(wire, 1, Len(wire))
          BY <2>1, <4>1 DEF From, next
        <5> QED BY <5>1, <1>2
      <4> QED BY <3>2, <4>2, <1>2, <1>3
    <3> QED BY <3>1, <3>2
  <2> QED BY <2>3, <2>4, <1>4 DEF PortInv
<1>5. CASE e > 0
  <2> DEFINE old == wire[next]
             new == [old EXCEPT !.bytes = From(@, e + 1)]
             t == <<new>>
             others_ == From(wire, next + 1)
  <2>1. wire' = t \o others_
    BY <1>5, <1>1 DEF Advance
  <2>2. next \in 1..Len(wire) /\ next + 1 \in 1..(Len(wire) + 1)
    BY <1>1, <1>2, <1>5
  <2>3. /\ others_ \in Seq(Message) /\ Len(others_) = Len(wire) - w - 1
        /\ \A i \in 1..(Len(wire) - w - 1) : others_[i] = wire[w + i + 1]
    <3>1. /\ others_ \in Seq(Message) /\ Len(others_) = Len(wire) - (next + 1) + 1
          /\ \A i \in 1..(Len(wire) - (next + 1) + 1) : others_[i] = wire[(next + 1) + i - 1]
      BY <2>2, <1>2, FromType
    <3>2. /\ Len(wire) - (next + 1) + 1 = Len(wire) - w - 1
          /\ \A i \in 1..(Len(wire) - w - 1) : (next + 1) + i - 1 = w + i + 1
      BY <1>1, <1>2
    <3> HIDE DEF others_, next
    <3> QED BY <3>1, <3>2
  <2>4. old \in Message /\ e < Len(old.bytes)
    BY <2>2, <1>2, <1>1, <1>5
  <2> HIDE DEF old, others_, e
  <2>5. From(old.bytes, e + 1) \in Seq(Byte)
    <3>1. old.bytes \in Seq(Byte) /\ e + 1 \in 1..(Len(old.bytes) + 1)
      BY <2>4, <1>1 DEF Message
    <3> QED BY <3>1, FromType
  <2>6. new \in Message /\ new.kind = old.kind /\ new.bytes = From(old.bytes, e + 1)
    BY <2>4, <2>5 DEF Message
  <2> HIDE DEF new
  <2>7. t \in Seq(Message) /\ Len(t) = 1 /\ t[1] = new
    BY <2>6
  <2> HIDE DEF t
  <2>8. wire' \in Seq(Message) /\ IsCat(wire', t, others_)
    <3>1. t \o others_ \in Seq(Message) /\ IsCat(t \o others_, t, others_)
      BY <2>3, <2>7, Catenated
    <3> QED BY <2>1, <3>1
  <2>9. /\ Len(wire') = Len(wire) - w /\ wire'[1] = new
        /\ \A i \in 2..(Len(wire) - w) : wire'[i] = wire[w + i]
    <3> DEFINE l == Len(wire) - w - 1
    <3>1. /\ Len(wire') = 1 + l /\ wire'[1] = t[1] /\ \A i \in 1..l : wire'[1 + i] = others_[i]
      BY <2>3, <2>7, <2>8 DEF IsCat
    <3>2. /\ l \in Nat /\ 1 + l = Len(wire) - w
          /\ \A i \in 2..(1 + l) : i - 1 \in 1..l /\ 1 + (i - 1) = i /\ w + (i - 1) + 1 = w + i
      <4> HIDE DEF next, w
      <4> QED BY <1>1, <1>2, <1>5, SMTT(30)
    <3>3. \A i \in 1..l : others_[i] = wire[w + i + 1]
      BY <2>3
    <3> HIDE DEF l, w
    <3>4. ASSUME NEW i \in 2..(1 + l) PROVE wire'[i] = wire[w + i]
      <4>1. wire'[1 + (i - 1)] = wire[w + (i - 1) + 1]
        BY <3>1, <3>2, <3>3
      <4> QED BY <4>1, <3>2
    <3> QED BY <3>1, <3>2, <3>4, <2>7
  <2>10. split' = TRUE
    <3>1. Some(part)
      BY <1>1, <1>5 DEF Some, e
    <3> QED BY <3>1, <1>3, <1>5
  <2>11. wire' # << >> /\ 1 \in 1..Len(wire')
    BY <2>9, <1>1, <1>2, <1>5
  <2>12. PortInv'
    BY <2>8, <2>10, <2>11 DEF PortInv
  <2>13. \A i \in 1..Len(wire') : i # 1 => wire'[i] = wire[w + i]
    <3>1. ASSUME NEW i \in 1..Len(wire'), i # 1 PROVE i \in 2..(Len(wire) - w)
      BY <3>1, <2>9, <1>1, <1>2
    <3> HIDE DEF w
    <3> QED BY <2>9, <3>1
  <2>14. wire'[1].kind = wire[w + 1].kind /\ wire'[1].bytes = From(wire[w + 1].bytes, e + 1)
    BY <2>6, <2>9 DEF old
  <2> QED BY <2>9, <2>12, <2>13, <2>14, <1>5 DEF e
<1> QED BY <1>1, <1>4, <1>5

\* The bytes of some messages put behind others, one message after the other.
Grows(c, x, w) ==
  c \in [0..w -> Seq(Byte)] /\ \A i \in 1..w : c[i] = c[i - 1] \o x[i].bytes

LEMMA ReceivedIs ==
  ASSUME PortInv, NEW part \in Parts, NEW b \in Seq(Byte)
  PROVE  /\ Chunk(part) \in Seq(Byte)
         /\ \E c : /\ Grows(c, wire, part.whole) /\ c[0] = b
                   /\ part.more = 0 => b \o Chunk(part) = c[part.whole]
                   /\ part.more > 0 =>
                        b \o Chunk(part) =
                          c[part.whole] \o SubSeq(wire[part.whole + 1].bytes, 1, part.more)
<1> DEFINE messages == [i \in 1..part.whole |-> wire[i].bytes]
           w == part.whole  e == part.more
           rest == IF e = 0 THEN << >> ELSE SubSeq(wire[w + 1].bytes, 1, e)
<1>1. /\ w \in 0..Len(wire) /\ e \in Nat /\ Len(wire) \in Nat
      /\ e > 0 => w < Len(wire) /\ e < Len(wire[w + 1].bytes)
  BY PartIs
<1>2. \A i \in 1..Len(wire) : wire[i].bytes \in Seq(Byte)
  BY BytesType
<1>3. messages \in Seq(Seq(Byte)) /\ Len(messages) = w
  <2> HIDE DEF w
  <2>1. \A i \in 1..w : wire[i].bytes \in Seq(Byte)
    BY <1>1, <1>2
  <2>2. w \in Nat
    BY <1>1
  <2> QED BY <2>1, <2>2 DEF w
<1>4. rest \in Seq(Byte)
  <2>1. CASE e = 0
    BY <2>1
  <2>2. CASE e > 0
    <3> DEFINE y == wire[w + 1].bytes
    <3>1. y \in Seq(Byte) /\ e < Len(y)
      BY <1>1, <1>2, <2>2
    <3> HIDE DEF y, e
    <3>2. SubSeq(y, 1, e) \in Seq(Byte)
      BY <3>1, <1>1
    <3> QED BY <3>2, <2>2 DEF y
  <2> QED BY <2>1, <2>2, <1>1
<1>5. \A i \in 1..w : messages[i] = wire[i].bytes /\ messages[i] \in Seq(Byte)
  BY <1>1, <1>2
<1>6. Chunk(part) = FlattenSeq(messages) \o rest
  BY DEF Chunk, messages, rest
<1> HIDE DEF messages
<1>7. PICK u \in [0..w -> Seq(Byte)] :
           /\ u[0] = << >> /\ \A i \in 1..w : u[i] = u[i - 1] \o messages[i]
           /\ FlattenSeq(messages) = u[w]
  <2>1. \E u \in [0..Len(messages) -> Seq(Byte)] :
           /\ u[0] = << >> /\ \A i \in 1..Len(messages) : u[i] = u[i - 1] \o messages[i]
           /\ FlattenSeq(messages) = u[Len(messages)]
    BY ONLY <1>3, FlattenIs
  <2>2. Len(messages) = w
    BY <1>3
  <2> HIDE DEF w
  <2> QED BY ONLY <2>1, <2>2
<1> DEFINE c == [k \in 0..w |-> b \o u[k]]
<1>8. c \in [0..w -> Seq(Byte)] /\ \A k \in 0..w : c[k] = b \o u[k] /\ u[k] \in Seq(Byte)
  <2> HIDE DEF w
  <2>1. \A k \in 0..w : b \o u[k] \in Seq(Byte) /\ u[k] \in Seq(Byte)
    BY <1>7
  <2> QED BY <2>1
<1> HIDE DEF c, rest
<1>9. c[0] = b
  <2>1. 0 \in 0..w
    BY <1>1
  <2> HIDE DEF w
  <2> QED BY <2>1, <1>7, <1>8
<1>10. ASSUME NEW i \in 1..w PROVE c[i] = c[i - 1] \o wire[i].bytes
  <2>1. i \in 0..w /\ i - 1 \in 0..w
    BY <1>1
  <2> HIDE DEF w
  <2>2. u[i - 1] \in Seq(Byte) /\ messages[i] \in Seq(Byte)
    BY <2>1, <1>5, <1>8
  <2>3. (b \o u[i - 1]) \o messages[i] = b \o (u[i - 1] \o messages[i])
    <3> DEFINE y == u[i - 1]  z == messages[i]
    <3>1. y \in Seq(Byte) /\ z \in Seq(Byte) /\ b \in Seq(Byte)
      BY <2>2
    <3> HIDE DEF y, z
    <3>2. (b \o y) \o z = b \o (y \o z)
      BY ONLY <3>1, CatAssoc, SMTT(30)
    <3> QED BY <3>2 DEF y, z
  <2>4. c[i] = b \o (u[i - 1] \o messages[i]) /\ c[i - 1] = b \o u[i - 1]
    BY <2>1, <1>7, <1>8
  <2> QED BY <2>3, <2>4, <1>5
<1>11. w \in 0..w
  BY <1>1
<1>12. u[w] \in Seq(Byte) /\ c[w] = b \o u[w]
  BY <1>8, <1>11
<1>13. Chunk(part) = u[w] \o rest
  BY <1>6, <1>7
<1>14. Chunk(part) \in Seq(Byte)
  BY <1>4, <1>12, <1>13
<1>15. b \o Chunk(part) = c[w] \o rest
  <2>1. (b \o u[w]) \o rest = b \o (u[w] \o rest)
    <3> DEFINE y == u[w]
    <3>1. y \in Seq(Byte) /\ rest \in Seq(Byte) /\ b \in Seq(Byte)
      BY <1>4, <1>12
    <3> HIDE DEF y
    <3>2. (b \o y) \o rest = b \o (y \o rest)
      BY ONLY <3>1, CatAssoc, SMTT(30)
    <3> QED BY <3>2 DEF y
  <2> QED BY <2>1, <1>12, <1>13
<1>16. e = 0 => b \o Chunk(part) = c[w]
  <2> HAVE e = 0
  <2>1. rest = << >> /\ c[w] \in Seq(Byte)
    BY <1>8, <1>11 DEF rest
  <2>2. c[w] \o << >> = c[w]
    BY <2>1
  <2> QED BY <2>1, <2>2, <1>15
<1>17. e > 0 => b \o Chunk(part) = c[w] \o SubSeq(wire[w + 1].bytes, 1, e)
  <2> HAVE e > 0
  <2>1. rest = SubSeq(wire[w + 1].bytes, 1, e)
    BY <1>1 DEF rest
  <2> QED BY <2>1, <1>15
<1>18. Grows(c, wire, w)
  BY <1>8, <1>10 DEF Grows
<1> HIDE DEF w, e
<1>19. /\ Grows(c, wire, w) /\ c[0] = b
       /\ e = 0 => b \o Chunk(part) = c[w]
       /\ e > 0 => b \o Chunk(part) = c[w] \o SubSeq(wire[w + 1].bytes, 1, e)
  BY <1>9, <1>16, <1>17, <1>18
<1> QED BY <1>14, <1>19 DEF w, e

LEMMA GrowsQuiet ==
  ASSUME NEW w \in Nat, NEW c, NEW x, Grows(c, x, w), NEW k \in 0..w, Quiet(c[0]),
         \A i \in 1..k : x[i].bytes \in Whole
  PROVE  Quiet(c[k])
<1> DEFINE S == {i \in 0..k : Quiet(c[i])}
<1>1. 0 \in S
  OBVIOUS
<1>2. ASSUME NEW i \in 0..k, i \in S, i < k PROVE i + 1 \in S
  <2>1. i + 1 \in 1..k /\ i + 1 \in 1..w /\ i \in 0..w /\ (i + 1) - 1 = i /\ i + 1 \in 0..k
    BY <1>2
  <2>2. c[i] \in Seq(Byte) /\ c[i + 1] = c[i] \o x[i + 1].bytes
    BY <2>1 DEF Grows
  <2>3. Quiet(c[i]) /\ x[i + 1].bytes \in Whole
    BY <1>2, <2>1
  <2>4. Quiet(c[i + 1])
    BY <2>2, <2>3, QuietFrame
  <2> QED BY <2>1, <2>4
<1> HIDE DEF S
<1>3. 0..k \subseteq S
  BY <1>1, <1>2, Climb
<1>4. k \in S
  BY <1>3
<1> QED BY <1>4 DEF S

LEMMA GrowsTold ==
  ASSUME NEW w \in Nat, NEW c, NEW x, Grows(c, x, w), NEW k \in 0..w, NEW answer,
         Told(c[k], answer), \A i \in 1..w : x[i].bytes \in Seq(Byte)
  PROVE  Told(c[w], answer)
<1> DEFINE S == {i \in 0..(w - k) : Told(c[k + i], answer)}
<1>1. 0 \in S
  <2>1. k + 0 = k /\ 0 \in 0..(w - k)
    OBVIOUS
  <2> QED BY <2>1
<1>2. ASSUME NEW i \in 0..(w - k), i \in S, i < w - k PROVE i + 1 \in S
  <2> DEFINE n == k + i
  <2>1. n + 1 \in 1..w /\ n \in 0..w /\ (n + 1) - 1 = n /\ i + 1 \in 0..(w - k) /\ k + (i + 1) = n + 1
    BY <1>2
  <2>2. Told(c[n], answer)
    BY <1>2
  <2> HIDE DEF n
  <2>3. c[n] \in Seq(Byte) /\ c[n + 1] = c[n] \o x[n + 1].bytes /\ x[n + 1].bytes \in Seq(Byte)
    BY <2>1 DEF Grows
  <2>4. Told(c[n + 1], answer)
    BY <2>2, <2>3, ToldOn
  <2> QED BY <2>1, <2>4
<1> HIDE DEF S
<1>3. 0..(w - k) \subseteq S
  BY <1>1, <1>2, Climb, w - k \in Nat
<1>4. w - k \in S
  BY <1>3
<1>5. k + (w - k) = w
  OBVIOUS
<1> QED BY <1>4, <1>5 DEF S

-----------------------------------------------------------------------------
(* Types.                                                                  *)

LEMMA QuietNone == Quiet(<< >>)
<1>1. 0 * FrameSize = 0
  BY Constants
<1>2. \A k \in 0..(0 - 1) : FALSE
  OBVIOUS
<1>3. Framed(<< >>, 0) /\ Len(<< >>) = 0 * FrameSize /\ 0 \in Nat
  BY <1>1, <1>2 DEF Framed
<1> QED BY <1>3 DEF Quiet

\* Nothing is found in nothing.
LEMMA ExtractNone == ASSUME NEW c PROVE Extract(<< >>, c) = None
<1>1. StatusIn(<< >>) = None
  <2>1. << >> \in Seq(Byte)
    OBVIOUS
  <2> QED BY <2>1, QuietNone, NoStatus
<1>2. ObjectIn(<< >>, c.id) = None
  <2>1. ObjectStarts(<< >>, c.id) = {}
    <3>1. 1..(Len(<< >>) - 3) = {}
      OBVIOUS
    <3> QED BY <3>1 DEF ObjectStarts
  <2> QED BY <2>1, NoObject
<1> QED BY <1>1, <1>2 DEF Extract

TypeInv ==
  /\ PortInv
  /\ nextSeq \in Byte /\ frames \in 0..MaxFrames /\ requests \in 0..MaxRequests
  /\ owed \in Seq(Command) /\ Len(owed) <= (IF pc = "drain" THEN requests - 1 ELSE requests)
  /\ pc \in {"idle", "drain", "wait", "finish"} /\ (pc # "idle" => command \in Command)
  /\ response \in Seq(Byte) /\ (pc \in {"idle", "drain"} => response = << >>)
  /\ pc = "wait" => Extract(response, command) = None
  /\ pc = "finish" <=> result # None

LEMMA TypeInit == Init => TypeInv
<1> SUFFICES ASSUME Init PROVE TypeInv
  OBVIOUS
<1>1. PortInv
  <2>1. wire = << >> /\ split = FALSE
    BY DEF Init, PortInit
  <2>2. << >> \in Seq(Message)
    OBVIOUS
  <2> QED BY <2>1, <2>2 DEF PortInv
<1>2. 0 \in 0..MaxFrames /\ 0 \in 0..MaxRequests /\ FirstSeq \in Byte
  BY TransportAssumption
<1>3. << >> \in Seq(Byte) /\ << >> \in Seq(Command) /\ Len(<< >>) = 0
  OBVIOUS
<1> QED BY <1>1, <1>2, <1>3 DEF Init, TypeInv

\* What the device does leaves the request alone.
LEMMA TypeDevice ==
  ASSUME TypeInv, DeviceFrame \/ DeviceAnswers
  PROVE  TypeInv'
<1>0. PortInv /\ UNCHANGED requestVars
  BY DEF TypeInv, DeviceFrame, DeviceAnswers
<1>1. CASE DeviceFrame
  <2>1. PICK p \in Payload : Arrives("frame", Frame(nextSeq, p))
    BY <1>1 DEF DeviceFrame
  <2>2. Frame(nextSeq, p) \in Seq(Byte)
    <3>1. p \in Seq(Byte) /\ Len(p) = PayloadSize
      BY TransportAssumption
    <3>2. Frame(nextSeq, p) \in Whole
      BY <3>1, FrameIs DEF TypeInv
    <3> QED BY <3>2 DEF Whole
  <2>3. PortInv'
    BY <1>0, <2>1, <2>2, Arrival
  <2>4. nextSeq' \in Byte
    <3> DEFINE n == nextSeq + 1
    <3>1. nextSeq' = n % Base /\ n \in Int /\ Base \in Nat \ {0}
      BY <1>1, Constants DEF DeviceFrame, TypeInv
    <3> HIDE DEF n
    <3>2. n % Base \in 0..(Base - 1)
      BY <3>1, DivMod
    <3> QED BY <3>1, <3>2, Constants
  <2>5. frames' \in 0..MaxFrames
    BY <1>1, TransportAssumption DEF DeviceFrame, TypeInv
  <2>6. owed' = owed
    BY <1>1 DEF DeviceFrame
  <2> QED BY <1>0, <2>3, <2>4, <2>5, <2>6 DEF TypeInv, requestVars
<1>2. CASE DeviceAnswers
  <2>1. owed \in Seq(Command) /\ owed # << >>
    BY <1>2 DEF DeviceAnswers, TypeInv
  <2>2. Head(owed) \in Command
    BY <2>1
  <2>3. PICK answer \in Answers(Head(owed)) :
           \/ Arrives("reply", answer)
           \/ \E n \in Kept : n < Len(answer) /\ Arrives("cut", SubSeq(answer, 1, n))
    BY <1>2 DEF DeviceAnswers
  <2>4. answer \in Seq(Byte)
    BY <2>2, AnswersType
  <2>5. PortInv'
    <3>1. CASE Arrives("reply", answer)
      BY <1>0, <2>4, <3>1, Arrival
    <3>2. CASE \E n \in Kept : n < Len(answer) /\ Arrives("cut", SubSeq(answer, 1, n))
      <4>1. PICK n \in Kept : n < Len(answer) /\ Arrives("cut", SubSeq(answer, 1, n))
        BY <3>2
      <4>2. n \in Nat
        BY TransportAssumption
      <4>3. SubSeq(answer, 1, n) \in Seq(Byte)
        BY <2>4, <4>1, <4>2
      <4> QED BY <1>0, <4>1, <4>3, Arrival
    <3> QED BY <2>3, <3>1, <3>2
  <2>6. owed' \in Seq(Command) /\ Len(owed') <= Len(owed) /\ Len(owed') \in Int /\ Len(owed) \in Int
    <3>1. owed' = Tail(owed)
      BY <1>2 DEF DeviceAnswers
    <3> QED BY <2>1, <3>1
  <2>7. Len(owed') <= (IF pc = "drain" THEN requests - 1 ELSE requests)
    BY <2>6, TransportAssumption DEF TypeInv
  <2>8. nextSeq' = nextSeq /\ frames' = frames
    BY <1>2 DEF DeviceAnswers
  <2> QED BY <1>0, <2>5, <2>6, <2>7, <2>8 DEF TypeInv, requestVars
<1> QED BY <1>1, <1>2

LEMMA TypeStep == TypeInv /\ [Next]_vars => TypeInv'
<1> SUFFICES ASSUME TypeInv, [Next]_vars PROVE TypeInv'
  OBVIOUS
<1>0. PortInv
  BY DEF TypeInv
<1>1. CASE DeviceFrame \/ DeviceAnswers
  BY <1>1, TypeDevice
<1>2. CASE Watch
  <2>1. PortInv'
    BY <1>0, <1>2, Advances DEF Watch
  <2> QED BY <1>2, <2>1 DEF Watch, TypeInv, deviceVars, requestVars
<1>3. CASE Request
  <2>1. PortInv'
    BY <1>0, <1>3 DEF Request, PortInv, portVars
  <2>2. requests' \in 0..MaxRequests /\ requests' - 1 = requests
    BY <1>3, TransportAssumption DEF Request, TypeInv
  <2> QED BY <1>3, <2>1, <2>2 DEF Request, TypeInv, deviceVars
<1>4. CASE Send
  <2>1. PICK part \in Parts : Advance(part)
    BY <1>4 DEF Send, Drained
  <2>2. PortInv'
    BY <1>0, <2>1, Advances
  <2>3. /\ pc = "drain" /\ pc' = "wait" /\ owed' = Append(owed, command)
        /\ UNCHANGED <<nextSeq, frames, command, response, result, requests>>
    BY <1>4 DEF Send
  <2>4. owed \in Seq(Command) /\ command \in Command /\ Len(owed) <= requests - 1 /\ requests \in Int
    BY <2>3 DEF TypeInv
  <2>5. owed' \in Seq(Command) /\ Len(owed') <= requests'
    BY <2>3, <2>4
  <2>6. Extract(response', command') = None
    BY <2>3, ExtractNone DEF TypeInv
  <2> QED BY <2>2, <2>3, <2>4, <2>5, <2>6 DEF TypeInv
<1>5. CASE Receive
  <2>1. PICK part \in Parts : Advance(part) /\ response' = response \o Chunk(part)
    BY <1>5 DEF Receive
  <2>2. PortInv'
    BY <1>0, <2>1, Advances
  <2>3. response' \in Seq(Byte)
    <3>1. response \in Seq(Byte)
      BY DEF TypeInv
    <3>2. Chunk(part) \in Seq(Byte)
      BY <1>0, <3>1, ReceivedIs
    <3> QED BY <2>1, <3>1, <3>2
  <2>4. /\ pc = "wait" /\ result' = Extract(response', command)
        /\ pc' = IF result' = None THEN "wait" ELSE "finish"
        /\ UNCHANGED <<deviceVars, command, requests>>
    BY <1>5 DEF Receive
  <2>5. command' = command /\ requests' = requests /\ owed' = owed /\ nextSeq' = nextSeq /\ frames' = frames
    BY <2>4 DEF deviceVars
  <2> QED BY <2>2, <2>3, <2>4, <2>5 DEF TypeInv
<1>6. CASE TimeOut \/ Finish
  <2>1. PortInv'
    <3>1. CASE TimeOut
      BY <1>0, <3>1 DEF TimeOut, PortInv, portVars
    <3>2. CASE Finish
      BY <1>0, <3>2, Advances DEF Finish, Drained
    <3> QED BY <1>6, <3>1, <3>2
  <2>2. pc \in {"wait", "finish"} /\ Ended
    BY <1>6 DEF TimeOut, Finish
  <2>3. << >> \in Seq(Byte)
    OBVIOUS
  <2> QED BY <2>1, <2>2, <2>3 DEF Ended, TypeInv, deviceVars
<1>7. CASE UNCHANGED vars
  BY <1>7 DEF vars, portVars, deviceVars, requestVars, TypeInv, PortInv
<1> QED BY <1>1, <1>2, <1>3, <1>4, <1>5, <1>6, <1>7 DEF Next

LEMMA TypeAlways == Spec => []TypeInv
  BY TypeInit, TypeStep, PTL DEF Spec

\* The state keeps its types; the device owes no more answers than there were
\* requests; a request that waits has found nothing in what it received, and it
\* is over just when it has found something: request() of transport.py.
THEOREM TypeCorrect == Spec => []TypeOK
<1>1. TypeInv => TypeOK
  <2> SUFFICES ASSUME TypeInv PROVE TypeOK
    OBVIOUS
  <2>1. PortTypeOK
    BY PortIs DEF TypeInv
  <2>2. Len(owed) <= MaxRequests
    BY TransportAssumption DEF TypeInv
  <2>3. (pc = "finish") = (result # None)
    BY DEF TypeInv
  <2> QED BY <2>1, <2>2, <2>3 DEF TypeInv, TypeOK
<1> QED BY <1>1, TypeAlways, PTL


-----------------------------------------------------------------------------
(* What is at the port is whole unless the first bytes of it were read.     *)

Fits(kind, bytes) == /\ kind = "reply" => bytes \in Replies
                     /\ kind = "frame" => bytes \in Whole

PortWhole == \A i \in 1..Len(wire) : (i = 1 => ~split) => Fits(wire[i].kind, wire[i].bytes)

\* What goes to the end of the port.
LEMMA WholeArrives ==
  ASSUME PortInv, PortWhole, NEW kind \in {"frame", "reply", "cut"}, NEW bytes \in Seq(Byte),
         Arrives(kind, bytes), Fits(kind, bytes)
  PROVE  PortWhole'
<1>1. /\ Len(wire') = Len(wire) + 1 /\ Len(wire) \in Nat
      /\ \A i \in 1..Len(wire) : wire'[i] = wire[i]
      /\ wire'[Len(wire) + 1].kind = kind /\ wire'[Len(wire) + 1].bytes = bytes
  BY Arrival
<1>2. split' = split
  BY DEF Arrives
<1>3. ASSUME NEW i \in 1..Len(wire') PROVE i \in 1..Len(wire) \/ i = Len(wire) + 1
  BY <1>1
<1>4. ASSUME NEW i \in 1..Len(wire'), i = 1 => ~split' PROVE Fits(wire'[i].kind, wire'[i].bytes)
  <2>1. CASE i \in 1..Len(wire)
    BY <2>1, <1>1, <1>2, <1>4 DEF PortWhole
  <2>2. CASE i = Len(wire) + 1
    BY <2>2, <1>1
  <2> QED BY <2>1, <2>2, <1>3
<1> QED BY <1>4 DEF PortWhole

LEMMA WholeAdvances ==
  ASSUME PortInv, PortWhole, NEW part \in Parts, Advance(part)
  PROVE  PortWhole'
<1> DEFINE w == part.whole  e == part.more
<1>1. w \in 0..Len(wire) /\ e \in Nat /\ Len(wire) \in Nat
  BY PartIs
<1>2. /\ Len(wire') = Len(wire) - w
      /\ \A i \in 1..Len(wire') : i # 1 \/ e = 0 => wire'[i] = wire[w + i]
  BY Advances
<1>3. split' = IF Some(part) THEN e > 0 ELSE split
  BY DEF Advance
<1>4. Some(part) <=> w + e > 0
  BY DEF Some
<1> HIDE DEF w, e
<1> SUFFICES ASSUME NEW i \in 1..Len(wire'), i = 1 => ~split'
             PROVE  Fits(wire'[i].kind, wire'[i].bytes)
  BY DEF PortWhole
<1>5. w + i \in 1..Len(wire) /\ i \in Nat
  BY <1>1, <1>2
<1>6. i # 1 \/ e = 0
  <2> SUFFICES ASSUME i = 1, e # 0 PROVE FALSE
    OBVIOUS
  <2>1. e > 0 /\ w + e > 0
    BY <1>1
  <2>2. split' = (e > 0)
    BY <1>3, <1>4, <2>1
  <2> QED BY <2>1, <2>2
<1>7. w + i = 1 => ~split
  <2> SUFFICES ASSUME w + i = 1 PROVE ~split
    OBVIOUS
  <2>1. w = 0 /\ i = 1 /\ e = 0
    BY <1>1, <1>5, <1>6
  <2>2. ~(w + e > 0)
    BY <2>1
  <2>3. split' = split
    BY <1>3, <1>4, <2>2
  <2> QED BY <2>1, <2>3
<1>8. wire'[i] = wire[w + i]
  BY <1>2, <1>6
<1> QED BY <1>5, <1>7, <1>8 DEF PortWhole

LEMMA WholeInit == Init => PortWhole
<1> SUFFICES ASSUME Init PROVE PortWhole
  OBVIOUS
<1>1. 1..Len(wire) = {}
  BY DEF Init, PortInit
<1> QED BY <1>1 DEF PortWhole

LEMMA WholeStep == TypeInv /\ PortWhole /\ [Next]_vars => PortWhole'
<1> SUFFICES ASSUME TypeInv, PortWhole, [Next]_vars PROVE PortWhole'
  OBVIOUS
<1>0. PortInv
  BY DEF TypeInv
<1>1. CASE DeviceFrame
  <2>1. PICK p \in Payload : Arrives("frame", Frame(nextSeq, p))
    BY <1>1 DEF DeviceFrame
  <2>2. p \in Seq(Byte) /\ Len(p) = PayloadSize
    BY TransportAssumption
  <2>3. Frame(nextSeq, p) \in Whole
    BY <2>2, FrameIs DEF TypeInv
  <2> DEFINE f == Frame(nextSeq, p)
  <2>4. f \in Seq(Byte) /\ Fits("frame", f)
    <3>1. f \in Whole
      BY <2>3
    <3> HIDE DEF f
    <3> QED BY <3>1 DEF Whole, Fits
  <2>5. Arrives("frame", f)
    BY <2>1
  <2> HIDE DEF f
  <2> QED BY <2>4, <2>5, <1>0, WholeArrives
<1>2. CASE DeviceAnswers
  <2>1. Head(owed) \in Command
    BY <1>2 DEF DeviceAnswers, TypeInv
  <2>2. PICK answer \in Answers(Head(owed)) :
           \/ Arrives("reply", answer)
           \/ \E n \in Kept : n < Len(answer) /\ Arrives("cut", SubSeq(answer, 1, n))
    BY <1>2 DEF DeviceAnswers
  <2>3. answer \in Replies /\ answer \in Seq(Byte)
    BY <2>1, AnswersType
  <2>4. CASE Arrives("reply", answer)
    <3>1. Fits("reply", answer)
      BY <2>3 DEF Fits
    <3> QED BY <3>1, <2>3, <2>4, <1>0, WholeArrives
  <2>5. CASE \E n \in Kept : n < Len(answer) /\ Arrives("cut", SubSeq(answer, 1, n))
    <3>1. PICK n \in Kept : Arrives("cut", SubSeq(answer, 1, n)) /\ n < Len(answer)
      BY <2>5
    <3>2. n \in Nat
      BY TransportAssumption
    <3> DEFINE x == SubSeq(answer, 1, n)
    <3>3. x \in Seq(Byte)
      BY <2>3, <3>1, <3>2
    <3>4. Arrives("cut", x)
      BY <3>1
    <3> HIDE DEF x
    <3>5. Fits("cut", x)
      BY DEF Fits
    <3> QED BY <3>3, <3>4, <3>5, <1>0, WholeArrives
  <2> QED BY <2>2, <2>4, <2>5
<1>3. CASE Watch \/ Send \/ Receive \/ Finish
  <2>1. \E part \in Parts : Advance(part)
    BY <1>3 DEF Watch, Send, Receive, Finish, Drained
  <2> QED BY <2>1, <1>0, WholeAdvances
<1>4. CASE Request \/ TimeOut \/ UNCHANGED vars
  <2>1. wire' = wire /\ split' = split
    BY <1>4 DEF Request, TimeOut, vars, portVars
  <2> QED BY <2>1 DEF PortWhole
<1> QED BY <1>1, <1>2, <1>3, <1>4 DEF Next

LEMMA WholeAlways == Spec => []PortWhole
  BY WholeInit, WholeStep, TypeAlways, PTL DEF Spec

-----------------------------------------------------------------------------
(* The answer to a WRITE.                                                  *)

\* A WRITE that waits: all but one of the messages at the port are frames.  That
\* one, or the next the device sends, is the answer, or the second byte of it.
AnswerAt(j) ==
  /\ \A i \in 1..Len(wire) : i # j => wire[i].kind = "frame" /\ wire[i].bytes \in Whole
  /\ \/ j = Len(wire) + 1 /\ owed = <<command>> /\ Quiet(response)
     \/ /\ j \in 1..Len(wire) /\ owed = << >> /\ own \in Answers(command)
        /\ wire[j].kind = "reply"
        /\ \/ wire[j].bytes = own /\ Quiet(response)
           \/ j = 1 /\ wire[1].bytes = <<own[2]>> /\ Half(response)

WriteWaits == \E j \in 1..(Len(wire) + 1) : AnswerAt(j)

Undisturbed == command.op = "write" /\ ~late /\ ~torn

\* Without any of those the answer is at hand, if it was not cut.
OwnInv ==
  /\ pc = "finish" /\ Undisturbed => owed = << >> /\ (cut \/ result = own)
  /\ pc = "wait" /\ Undisturbed => (cut /\ owed = << >>) \/ WriteWaits

LEMMA OwnInit == Init => OwnInv
  BY DEF Init, OwnInv

LEMMA OwnFrame ==
  ASSUME TypeInv, OwnInv, DeviceFrame
  PROVE  OwnInv'
<1>0. /\ PortInv /\ late' = late /\ cut' = cut /\ torn' = torn
      /\ owed' = owed /\ own' = own /\ pc' = pc /\ command' = command
      /\ response' = response /\ result' = result
  BY DEF TypeInv, DeviceFrame, requestVars, accountVars
<1>1. PICK p \in Payload : Arrives("frame", Frame(nextSeq, p))
  BY DEF DeviceFrame
<1>2. Frame(nextSeq, p) \in Whole
  <2>1. p \in Seq(Byte) /\ Len(p) = PayloadSize
    BY TransportAssumption
  <2> QED BY <2>1, FrameIs DEF TypeInv
<1>3. Frame(nextSeq, p) \in Seq(Byte)
  BY <1>2 DEF Whole
<1>4. /\ Len(wire') = Len(wire) + 1 /\ Len(wire) \in Nat
      /\ \A i \in 1..Len(wire) : wire'[i] = wire[i]
      /\ wire'[Len(wire) + 1].kind = "frame" /\ wire'[Len(wire) + 1].bytes \in Whole
  BY <1>0, <1>1, <1>2, <1>3, Arrival
<1>5. Undisturbed' => Undisturbed
  BY <1>0 DEF Undisturbed
<1>6. ASSUME WriteWaits PROVE WriteWaits'
  <2>1. PICK j \in 1..(Len(wire) + 1) : AnswerAt(j)
    BY <1>6 DEF WriteWaits
  <2>2. CASE j = Len(wire) + 1
    <3>1. owed = <<command>> /\ Quiet(response)
      BY <2>1, <2>2, <1>4 DEF AnswerAt
    <3>2. \A i \in 1..Len(wire') : wire'[i].kind = "frame" /\ wire'[i].bytes \in Whole
      <4>1. \A i \in 1..Len(wire) : i # j => wire[i].kind = "frame" /\ wire[i].bytes \in Whole
        BY <2>1 DEF AnswerAt
      <4>2. ASSUME NEW i \in 1..Len(wire') PROVE i = Len(wire) + 1 \/ (i \in 1..Len(wire) /\ i # j)
        BY <1>4, <2>2
      <4> QED BY <4>1, <4>2, <1>4
    <3>3. PICK k \in 1..(Len(wire') + 1) : k = Len(wire') + 1
      BY <1>4
    <3>4. AnswerAt(k)'
      BY <3>1, <3>2, <3>3, <1>0 DEF AnswerAt
    <3> QED BY <3>3, <3>4 DEF WriteWaits
  <2>3. CASE j # Len(wire) + 1
    <3>1. j \in 1..Len(wire) /\ j \in 1..Len(wire') /\ j \in 1..(Len(wire') + 1)
      BY <2>3, <1>4
    <3>2. /\ owed = << >> /\ own \in Answers(command) /\ wire[j].kind = "reply"
          /\ \/ wire[j].bytes = own /\ Quiet(response)
             \/ j = 1 /\ wire[1].bytes = <<own[2]>> /\ Half(response)
      BY <2>1, <2>3 DEF AnswerAt
    <3>3. \A i \in 1..Len(wire') : i # j => wire'[i].kind = "frame" /\ wire'[i].bytes \in Whole
      <4>1. \A i \in 1..Len(wire) : i # j => wire[i].kind = "frame" /\ wire[i].bytes \in Whole
        BY <2>1 DEF AnswerAt
      <4>2. ASSUME NEW i \in 1..Len(wire') PROVE i = Len(wire) + 1 \/ i \in 1..Len(wire)
        BY <1>4
      <4> QED BY <4>1, <4>2, <1>4
    <3>4. wire'[j] = wire[j]
      BY <3>1, <1>4
    <3>5. AnswerAt(j)'
      BY <3>1, <3>2, <3>3, <3>4, <1>0 DEF AnswerAt
    <3> QED BY <3>1, <3>5 DEF WriteWaits
  <2> QED BY <2>2, <2>3
<1> QED BY <1>0, <1>5, <1>6 DEF OwnInv

LEMMA OwnAnswers ==
  ASSUME TypeInv, OwnInv, DeviceAnswers
  PROVE  OwnInv'
<1>0. /\ PortInv /\ late' = late /\ torn' = torn /\ owed # << >>
      /\ owed' = Tail(owed) /\ pc' = pc /\ command' = command
      /\ response' = response /\ result' = result
  BY DEF TypeInv, DeviceAnswers, requestVars, accountVars
<1> SUFFICES ASSUME Undisturbed', pc \in {"wait", "finish"} PROVE OwnInv'
  BY <1>0 DEF OwnInv
<1>1. PICK answer \in Answers(Head(owed)) :
         /\ Arrives("reply", answer) \/ cut' = TRUE
         /\ own' = answer
  BY DEF DeviceAnswers
<1>2. Undisturbed
  BY <1>0 DEF Undisturbed
<1>3. pc = "wait" /\ WriteWaits
  BY <1>0, <1>2 DEF OwnInv
<1>4. owed = <<command>> /\ command \in Command
  BY <1>0, <1>3 DEF WriteWaits, AnswerAt, TypeInv
<1>5. owed' = << >> /\ own' \in Answers(command') /\ own' = answer
  BY <1>0, <1>1, <1>4
<1>6. answer \in Seq(Byte)
  BY <1>1, <1>4, AnswersType
<1>7. CASE cut' = TRUE
  BY <1>0, <1>3, <1>5, <1>7 DEF OwnInv
<1>8. CASE Arrives("reply", answer)
  <2>0. /\ Len(wire') = Len(wire) + 1 /\ Len(wire) \in Nat
        /\ \A i \in 1..Len(wire) : wire'[i] = wire[i]
        /\ wire'[Len(wire) + 1].kind = "reply" /\ wire'[Len(wire) + 1].bytes = answer
    BY <1>0, <1>6, <1>8, Arrival
  <2>1. PICK j \in 1..(Len(wire) + 1) : AnswerAt(j)
    BY <1>3 DEF WriteWaits
  <2>2. j = Len(wire) + 1 /\ Quiet(response)
    BY <2>1, <1>0 DEF AnswerAt
  <2>3. \A i \in 1..Len(wire') : i # j => wire'[i].kind = "frame" /\ wire'[i].bytes \in Whole
    <3>1. \A i \in 1..Len(wire) : i # j => wire[i].kind = "frame" /\ wire[i].bytes \in Whole
      BY <2>1 DEF AnswerAt
    <3>2. ASSUME NEW i \in 1..Len(wire'), i # j PROVE i \in 1..Len(wire)
      BY <3>2, <2>0, <2>2
    <3> QED BY <3>1, <3>2, <2>0
  <2>4. j \in 1..Len(wire') /\ j \in 1..(Len(wire') + 1)
    BY <2>0, <2>2
  <2>5. AnswerAt(j)'
    BY <2>0, <2>2, <2>3, <2>4, <1>0, <1>5 DEF AnswerAt
  <2>6. WriteWaits'
    BY <2>4, <2>5 DEF WriteWaits
  <2> QED BY <2>6, <1>0, <1>3 DEF OwnInv
<1> QED BY <1>1, <1>7, <1>8

\* Nothing but whole frames comes before: Send drains the port, and the device
\* owes nothing else.
LEMMA OwnSend ==
  ASSUME TypeInv, Send, PortWhole'
  PROVE  OwnInv'
<1>0. PICK part \in Parts : Advance(part)
  BY DEF Send, Drained
<1>1. /\ pc = "drain" /\ pc' = "wait" /\ owed' = Append(owed, command) /\ command' = command
      /\ late' = (owed # << >> \/ \E i \in 1..Len(wire') : wire'[i].kind # "frame")
      /\ torn' = (split' /\ wire'[1].kind = "frame") /\ response' = response
  BY DEF Send
<1>2. response' = << >> /\ command \in Command /\ owed \in Seq(Command)
  BY <1>1 DEF TypeInv
<1>3. PortInv'
  BY <1>0, Advances DEF TypeInv
<1> SUFFICES ASSUME Undisturbed' PROVE WriteWaits'
  BY <1>1 DEF OwnInv
<1>4. owed' = <<command'>>
  <2>1. owed = << >>
    BY <1>1 DEF Undisturbed
  <2> QED BY <2>1, <1>1, <1>2
<1>5. \A i \in 1..Len(wire') : wire'[i].kind = "frame" /\ wire'[i].bytes \in Whole
  <2>1. \A i \in 1..Len(wire') : wire'[i].kind = "frame"
    BY <1>1 DEF Undisturbed
  <2>2. ~split'
    <3>1. ~(split' /\ wire'[1].kind = "frame")
      BY <1>1 DEF Undisturbed
    <3>2. split' => 1 \in 1..Len(wire')
      BY <1>3 DEF PortInv
    <3> QED BY <3>1, <3>2, <2>1
  <2> QED BY <2>1, <2>2 DEF PortWhole, Fits
<1>6. PICK j \in 1..(Len(wire') + 1) : j = Len(wire') + 1
  <2>1. Len(wire') \in Nat
    BY <1>3 DEF PortInv
  <2> QED BY <2>1
<1>7. Quiet(response')
  BY <1>2, QuietNone
<1>8. AnswerAt(j)'
  BY <1>4, <1>5, <1>6, <1>7 DEF AnswerAt
<1> QED BY <1>6, <1>8 DEF WriteWaits

LEMMA ReceiveWrite ==
  ASSUME TypeInv, Receive, command.op = "write", WriteWaits, ~torn'
  PROVE  /\ pc' = "finish" => result' = own' /\ owed' = << >>
         /\ pc' = "wait" => WriteWaits'
<1>1. PICK part \in Parts :
         /\ Some(part) /\ Advance(part) /\ response' = response \o Chunk(part)
         /\ ~(part.more > 0 /\ wire[part.whole + 1].kind = "frame")
  BY DEF Receive
<1>2. PortInv /\ response \in Seq(Byte) /\ command \in Command
  BY DEF TypeInv, Receive
<1>3. /\ owed' = owed /\ own' = own /\ command' = command
      /\ result' = StatusIn(response')
      /\ pc' = IF result' = None THEN "wait" ELSE "finish"
  BY DEF Receive, deviceVars, Extract
<1>4. PICK j \in 1..(Len(wire) + 1) : AnswerAt(j)
  BY DEF WriteWaits
<1> DEFINE w == part.whole  e == part.more
<1>5. /\ w \in 0..Len(wire) /\ e \in Nat /\ Len(wire) \in Nat /\ w + e > 0 /\ w \in Nat
      /\ e > 0 => w < Len(wire) /\ e < Len(wire[w + 1].bytes)
  <2>1. /\ w \in 0..Len(wire) /\ e \in Nat /\ Len(wire) \in Nat
        /\ e > 0 => w < Len(wire) /\ e < Len(wire[w + 1].bytes)
    BY <1>2, PartIs
  <2>2. w + e > 0
    BY <1>1 DEF Some
  <2> HIDE DEF w, e
  <2> QED BY <2>1, <2>2
<1>6. \A i \in 1..Len(wire) : wire[i].bytes \in Seq(Byte)
  BY <1>2, BytesType
<1>7. PICK c : /\ Grows(c, wire, w) /\ c[0] = response
               /\ e = 0 => response \o Chunk(part) = c[w]
               /\ e > 0 => response \o Chunk(part) = c[w] \o SubSeq(wire[w + 1].bytes, 1, e)
  BY <1>2, ReceivedIs
<1>8. /\ PortInv' /\ Len(wire') = Len(wire) - w
      /\ \A i \in 1..Len(wire') : i # 1 \/ e = 0 => wire'[i] = wire[w + i]
      /\ e > 0 => /\ wire'[1].kind = wire[w + 1].kind
                  /\ wire'[1].bytes = From(wire[w + 1].bytes, e + 1)
  BY <1>1, <1>2, Advances
<1>9. e > 0 => wire[w + 1].kind # "frame"
  BY <1>1
<1>10. \A i \in 1..Len(wire) : i # j => wire[i].kind = "frame" /\ wire[i].bytes \in Whole
  BY <1>4 DEF AnswerAt
<1> HIDE DEF w, e
<1>11. response' \in Seq(Byte) /\ c \in [0..w -> Seq(Byte)]
  <2>1. response' \in Seq(Byte)
    BY <1>1, <1>2, ReceivedIs
  <2> QED BY <2>1, <1>7 DEF Grows
\* A message is read in part: it is the answer.
<1>12. e > 0 => w + 1 = j
  <2> HAVE e > 0
  <2>1. w + 1 \in 1..Len(wire)
    BY <1>5
  <2> QED BY <2>1, <1>9, <1>10
\* What stays at the port behind the first message does not change.
<1>13. \A i \in 1..Len(wire') : w + i # j => wire'[i].kind = "frame" /\ wire'[i].bytes \in Whole
  <2> SUFFICES ASSUME NEW i \in 1..Len(wire'), w + i # j
               PROVE  wire'[i].kind = "frame" /\ wire'[i].bytes \in Whole
    OBVIOUS
  <2>1. w + i \in 1..Len(wire)
    BY <1>5, <1>8
  <2>2. i # 1 \/ e = 0
    BY <1>5, <1>12
  <2> QED BY <2>1, <2>2, <1>8, <1>10
<1>14. CASE j <= w
  <2>1. /\ j \in 1..Len(wire) /\ j \in 0..w /\ j \in 1..w /\ j - 1 \in 0..w /\ owed = << >>
        /\ own \in {Status(TRUE), Status(FALSE)}
        /\ \/ wire[j].bytes = own /\ Quiet(response)
           \/ j = 1 /\ wire[1].bytes = <<own[2]>> /\ Half(response)
    <3>1. j \in 1..Len(wire) /\ j \in 0..w /\ j \in 1..w /\ j - 1 \in 0..w /\ j # Len(wire) + 1
      BY <1>5, <1>14
    <3>2. /\ owed = << >> /\ own \in Answers(command)
          /\ \/ wire[j].bytes = own /\ Quiet(response)
             \/ j = 1 /\ wire[1].bytes = <<own[2]>> /\ Half(response)
      BY <3>1, <1>4 DEF AnswerAt
    <3>3. own \in {Status(TRUE), Status(FALSE)}
      BY <3>2 DEF Answers
    <3> QED BY <3>1, <3>2, <3>3
  <2>2. own \in Seq(Byte) /\ Len(own) = 2 /\ own[1] = REPLY /\ own[2] \in {0, 1}
    BY <2>1, StatusIs
  <2>3. c[j] = c[j - 1] \o wire[j].bytes /\ c[j - 1] \in Seq(Byte) /\ wire[j].bytes \in Seq(Byte)
    BY <2>1, <1>6, <1>7 DEF Grows
  <2>4. Told(c[j], own)
    <3>1. CASE wire[j].bytes = own /\ Quiet(response)
      <4>1. \A i \in 1..(j - 1) : wire[i].bytes \in Whole
        <5>1. \A i \in 1..(j - 1) : i \in 1..Len(wire) /\ i # j
          BY <2>1
        <5> QED BY <5>1, <1>10
      <4>2. Quiet(c[j - 1])
        BY <4>1, <3>1, <2>1, <1>5, <1>7, GrowsQuiet
      <4>3. Told(c[j - 1] \o own, own)
        BY <4>2, <2>2, <2>3, QuietTold
      <4> QED BY <4>3, <3>1, <2>3
    <3>2. CASE j = 1 /\ wire[1].bytes = <<own[2]>> /\ Half(response)
      <4> DEFINE x == wire[j].bytes
      <4>1. c[j - 1] = response
        <5>1. j - 1 = 0
          BY <3>2
        <5> QED BY <5>1, <1>7
      <4>2. x \in Seq(Byte) /\ Len(x) = 1 /\ x[1] = own[2]
        BY <3>2, <2>3
      <4> HIDE DEF x
      <4>3. Told(response \o x, own)
        BY <4>2, <3>2, <1>2, HalfTold
      <4> QED BY <4>1, <4>3, <2>3 DEF x
    <3> QED BY <2>1, <3>1, <3>2
  <2>5. Told(c[w], own)
    <3>1. \A i \in 1..w : wire[i].bytes \in Seq(Byte)
      BY <1>5, <1>6
    <3> QED BY <3>1, <2>1, <2>4, <1>5, <1>7, GrowsTold
  <2>6. Told(response', own)
    <3>1. CASE e = 0
      BY <2>5, <3>1, <1>1, <1>7
    <3>2. CASE e # 0
      BY <3>2, <1>5, <1>12, <1>14
    <3> QED BY <3>1, <3>2
  <2>7. StatusIn(response') = own
    BY <2>1, <2>6, <1>11, TheStatus, Constants
  <2>8. own # None
    <3>1. Len(None) = 0
      BY DEF None
    <3>2. Len(own) # Len(None)
      BY <3>1, <2>2
    <3> QED BY <3>2
  <2> QED BY <2>1, <2>7, <2>8, <1>3
<1>15. CASE j > w /\ e = 0
  <2>1. /\ Quiet(response) \/ Half(response)
        /\ Half(response) /\ ~Quiet(response) => j = 1
    BY <1>4 DEF AnswerAt
  <2>2. Quiet(response)
    <3>1. w > 0 /\ j # 1
      BY <1>5, <1>15
    <3> QED BY <2>1, <3>1
  <2>3. Quiet(response')
    <3>1. \A i \in 1..w : wire[i].bytes \in Whole
      <4>1. \A i \in 1..w : i \in 1..Len(wire) /\ i # j
        BY <1>5, <1>15
      <4> QED BY <4>1, <1>10
    <3>2. Quiet(c[w])
      BY <3>1, <2>2, <1>5, <1>7, GrowsQuiet, w \in 0..w
    <3> QED BY <3>2, <1>1, <1>7, <1>15
  <2>4. pc' = "wait"
    BY <2>3, <1>3, <1>11, NoStatus
  <2>5. PICK k \in 1..(Len(wire') + 1) : k = j - w
    BY <1>5, <1>8, <1>15
  <2>6. \A i \in 1..Len(wire') : i # k => wire'[i].kind = "frame" /\ wire'[i].bytes \in Whole
    <3>1. \A i \in 1..Len(wire') : i # k => w + i # j
      BY <2>5, <1>5
    <3> QED BY <3>1, <1>13
  <2>7. \/ k = Len(wire') + 1 /\ owed' = <<command'>>
        \/ /\ k \in 1..Len(wire') /\ owed' = << >> /\ own' \in Answers(command')
           /\ wire'[k].kind = "reply" /\ wire'[k].bytes = own'
    <3>1. CASE j = Len(wire) + 1 /\ owed = <<command>>
      BY <3>1, <2>5, <1>3, <1>5, <1>8
    <3>2. CASE /\ j \in 1..Len(wire) /\ owed = << >> /\ own \in Answers(command)
               /\ wire[j].kind = "reply" /\ wire[j].bytes = own
      <4>1. k \in 1..Len(wire') /\ w + k = j
        BY <3>2, <2>5, <1>5, <1>8, <1>15
      <4>2. wire'[k] = wire[j]
        BY <4>1, <1>8, <1>15
      <4> QED BY <4>1, <4>2, <3>2, <1>3
    <3>3. j # 1
      BY <1>5, <1>15
    <3> QED BY <3>1, <3>2, <3>3, <1>4 DEF AnswerAt
  <2>8. AnswerAt(k)'
    BY <2>3, <2>6, <2>7 DEF AnswerAt
  <2> QED BY <2>4, <2>5, <2>8 DEF WriteWaits
<1>16. CASE j > w /\ e > 0
  <2>1. w + 1 = j /\ j \in 1..Len(wire) /\ e < Len(wire[j].bytes) /\ w < Len(wire)
    BY <1>5, <1>12, <1>16
  <2>2. /\ owed = << >> /\ own \in Answers(command) /\ wire[j].kind = "reply"
        /\ \/ wire[j].bytes = own /\ Quiet(response)
           \/ wire[j].bytes = <<own[2]>>
    <3>1. j # Len(wire) + 1
      BY <2>1, <1>5
    <3> QED BY <3>1, <1>4 DEF AnswerAt
  <2>3. own \in Seq(Byte) /\ Len(own) = 2 /\ own[1] = REPLY /\ own[2] \in {0, 1}
    BY <2>2, StatusIs DEF Answers
  <2>4. e = 1 /\ wire[j].bytes = own /\ Quiet(response)
    <3>1. CASE wire[j].bytes = own /\ Quiet(response)
      BY <3>1, <2>1, <2>3, <1>5, <1>16
    <3>2. CASE wire[j].bytes = <<own[2]>>
      <4>1. Len(wire[j].bytes) = 1
        BY <3>2
      <4> QED BY <4>1, <2>1, <1>5, <1>16
    <3> QED BY <2>2, <3>1, <3>2
  <2> DEFINE x == SubSeq(own, 1, 1)
  <2>5. x \in Seq(Byte) /\ Len(x) = 1 /\ x[1] = REPLY
    <3>1. 1 \in 1..(Len(own) + 1) /\ 1 <= 1 + 1 /\ 1 <= Len(own) /\ 1 - 1 + 1 = 1 /\ 1 + 1 - 1 = 1
      BY <2>3
    <3>2. x \in Seq(Byte) /\ Len(x) = 1 - 1 + 1 /\ \A i \in 1..(1 - 1 + 1) : x[i] = own[1 + i - 1]
      <4> DEFINE m == 1
      <4>1. m \in 1..(Len(own) + 1) /\ m \in Int /\ m <= m + 1 /\ m <= Len(own)
        BY <3>1
      <4> HIDE DEF m
      <4>2. /\ SubSeq(own, m, m) \in Seq(Byte) /\ Len(SubSeq(own, m, m)) = m - m + 1
            /\ \A i \in 1..(m - m + 1) : SubSeq(own, m, m)[i] = own[m + i - 1]
        BY <4>1, <2>3, SubType
      <4> QED BY <4>2 DEF m
    <3> HIDE DEF x
    <3> QED BY <3>1, <3>2, <2>3
  <2>6. wire'[1].bytes = <<own[2]>> /\ wire'[1].kind = "reply"
    <3>1. wire'[1].bytes = From(own, 2) /\ wire'[1].kind = "reply"
      <4>1. 1 + 1 = 2
        OBVIOUS
      <4> QED BY <4>1, <2>1, <2>2, <2>4, <1>8, <1>16
    <3>2. From(own, 2) = <<own[2]>>
      <4> DEFINE m == 2  y == From(own, m)  z == <<own[2]>>
      <4>1. m \in 1..(Len(own) + 1)
        BY <2>3
      <4>2. z \in Seq(Byte) /\ Len(z) = 1 /\ z[1] = own[2]
        BY <2>3, SMTT(30)
      <4> HIDE DEF m, z
      <4>3. /\ y \in Seq(Byte) /\ Len(y) = Len(own) - m + 1
            /\ \A i \in 1..(Len(own) - m + 1) : y[i] = own[m + i - 1]
        BY <4>1, <2>3, FromType
      <4> HIDE DEF y
      <4>4. Len(y) = 1 /\ y[1] = own[2]
        BY <4>3, <2>3 DEF m
      <4>5. \A i \in 1..Len(y) : y[i] = z[i]
        BY <4>2, <4>4
      <4>6. y = z
        BY <4>2, <4>3, <4>4, <4>5, SameSeq
      <4> QED BY <4>6 DEF y, z, m
    <3> QED BY <3>1, <3>2
  <2>7. Half(response')
    <3>1. \A i \in 1..w : wire[i].bytes \in Whole
      <4>1. \A i \in 1..w : i \in 1..Len(wire) /\ i # j
        BY <1>5, <1>16
      <4> QED BY <4>1, <1>10
    <3>2. Quiet(c[w]) /\ c[w] \in Seq(Byte)
      BY <3>1, <2>4, <1>5, <1>7, <1>11, GrowsQuiet, w \in 0..w
    <3> HIDE DEF x
    <3>3. Half(c[w] \o x)
      BY <3>2, <2>5, QuietHalf
    <3>4. response' = c[w] \o x
      BY <2>1, <2>4, <1>1, <1>7, <1>16 DEF x
    <3> QED BY <3>3, <3>4
  <2>8. pc' = "wait"
    BY <2>7, <1>3, <1>11, NoStatus
  <2>9. 1 \in 1..Len(wire') /\ 1 \in 1..(Len(wire') + 1)
    BY <2>1, <1>5, <1>8
  <2>10. \A i \in 1..Len(wire') : i # 1 => wire'[i].kind = "frame" /\ wire'[i].bytes \in Whole
    <3>1. \A i \in 1..Len(wire') : i # 1 => w + i # j
      BY <2>1, <1>5
    <3> QED BY <3>1, <1>13
  <2>11. AnswerAt(1)'
    BY <2>2, <2>6, <2>7, <2>9, <2>10, <1>3 DEF AnswerAt
  <2> QED BY <2>8, <2>9, <2>11 DEF WriteWaits
<1> QED BY <1>5, <1>14, <1>15, <1>16

LEMMA OwnStep == TypeInv /\ PortWhole' /\ OwnInv /\ [Next]_vars => OwnInv'
<1> SUFFICES ASSUME TypeInv, PortWhole', OwnInv, [Next]_vars PROVE OwnInv'
  OBVIOUS
<1>1. CASE DeviceFrame
  BY <1>1, OwnFrame
<1>2. CASE DeviceAnswers
  BY <1>2, OwnAnswers
<1>3. CASE Send
  BY <1>3, OwnSend
<1>4. CASE Receive
  <2>1. /\ pc = "wait" /\ command' = command /\ late' = late /\ cut' = cut /\ owed' = owed
        /\ pc' \in {"wait", "finish"}
        /\ ~torn' => ~torn
    BY <1>4 DEF Receive, deviceVars
  <2>2. Undisturbed' => Undisturbed /\ command.op = "write" /\ ~torn'
    BY <2>1 DEF Undisturbed
  <2>3. CASE WriteWaits /\ Undisturbed'
    <3>1. /\ pc' = "finish" => result' = own' /\ owed' = << >>
          /\ pc' = "wait" => WriteWaits'
      BY <2>2, <2>3, <1>4, ReceiveWrite
    <3> QED BY <3>1, <2>1 DEF OwnInv
  <2>4. CASE cut /\ owed = << >>
    BY <2>1, <2>4 DEF OwnInv
  <2> QED BY <2>1, <2>2, <2>3, <2>4 DEF OwnInv
<1>5. CASE Watch
  BY <1>5 DEF Watch, OwnInv, requestVars
<1>6. CASE Request
  BY <1>6 DEF Request, OwnInv
<1>7. CASE TimeOut \/ Finish
  BY <1>7 DEF TimeOut, Finish, Ended, OwnInv
<1>8. CASE UNCHANGED vars
  BY <1>8 DEF vars, portVars, deviceVars, requestVars, accountVars, OwnInv, Undisturbed,
              WriteWaits, AnswerAt
<1> QED BY <1>1, <1>2, <1>3, <1>4, <1>5, <1>6, <1>7, <1>8 DEF Next

\* request() of transport.py returns the device's answer to a WRITE and nothing
\* else, whatever is in the frames before, between and behind, provided no read
\* ended inside one, no older answer was on its way and this one was not cut.
THEOREM OwnAnswerCorrect == Spec => []OwnAnswer
<1>1. OwnInv => OwnAnswer
  BY DEF OwnInv, OwnAnswer, Undisturbed
<1> QED BY <1>1, OwnInit, OwnStep, WholeAlways, TypeAlways, PTL DEF Spec

-----------------------------------------------------------------------------
(* Where the messages of a read stand in what was received.                *)

Extends(s, t) == Len(t) <= Len(s) /\ \A i \in 1..Len(t) : s[i] = t[i]

LEMMA Further ==
  ASSUME NEW a \in Seq(Byte), NEW b \in Seq(Byte), NEW x \in Seq(Byte), Extends(a, b)
  PROVE  Extends(a \o x, b)
<1> DEFINE c == a \o x
<1>1. Len(c) = Len(a) + Len(x) /\ \A i \in 1..Len(a) : c[i] = a[i]
  BY Extended
<1> HIDE DEF c
<1>2. Len(a) \in Nat /\ Len(b) \in Nat /\ Len(x) \in Nat
  OBVIOUS
<1>3. Len(b) <= Len(c) /\ \A i \in 1..Len(b) : i \in 1..Len(a) /\ a[i] = b[i]
  BY <1>1, <1>2 DEF Extends
<1>4. Extends(c, b)
  BY <1>1, <1>3 DEF Extends
<1> QED BY <1>4 DEF c

LEMMA GrowsOn ==
  ASSUME NEW w \in Nat, NEW c, NEW x, Grows(c, x, w), NEW k \in 0..w,
         \A i \in 1..w : x[i].bytes \in Seq(Byte)
  PROVE  Extends(c[w], c[k])
<1> DEFINE S == {i \in 0..(w - k) : Extends(c[k + i], c[k])}
<1>0. \A i \in 0..w : c[i] \in Seq(Byte)
  BY DEF Grows
<1>1. 0 \in S
  <2>1. k + 0 = k /\ 0 \in 0..(w - k) /\ Len(c[k]) \in Nat
    BY <1>0
  <2> QED BY <2>1 DEF Extends
<1>2. ASSUME NEW i \in 0..(w - k), i \in S, i < w - k PROVE i + 1 \in S
  <2> DEFINE n == k + i
  <2>1. n + 1 \in 1..w /\ n \in 0..w /\ (n + 1) - 1 = n /\ i + 1 \in 0..(w - k) /\ k + (i + 1) = n + 1
    BY <1>2
  <2>2. Extends(c[n], c[k])
    BY <1>2
  <2> HIDE DEF n
  <2>3. c[n] \in Seq(Byte) /\ c[n + 1] = c[n] \o x[n + 1].bytes /\ x[n + 1].bytes \in Seq(Byte)
    BY <2>1, <1>0 DEF Grows
  <2>4. c[k] \in Seq(Byte)
    BY <1>0
  <2> DEFINE u == c[n]  v == x[n + 1].bytes  o == c[k]
  <2>5. u \in Seq(Byte) /\ v \in Seq(Byte) /\ o \in Seq(Byte) /\ Extends(u, o)
    BY <2>2, <2>3, <2>4
  <2> HIDE DEF u, v, o
  <2>6. Extends(u \o v, o)
    BY <2>5, Extended, Further
  <2>7. Extends(c[n + 1], c[k])
    BY <2>3, <2>6 DEF u, v, o
  <2> QED BY <2>1, <2>7
<1> HIDE DEF S
<1>3. 0..(w - k) \subseteq S
  BY <1>1, <1>2, Climb, w - k \in Nat
<1>4. w - k \in S /\ k + (w - k) = w
  BY <1>3
<1> QED BY <1>4 DEF S

LEMMA GrowsSame ==
  ASSUME NEW w \in Nat, NEW c, NEW d, NEW x, NEW k \in 0..w, Grows(c, x, w), Grows(d, x, k),
         c[0] = d[0]
  PROVE  c[k] = d[k]
<1> DEFINE S == {i \in 0..k : c[i] = d[i]}
<1>1. 0 \in S
  OBVIOUS
<1>2. ASSUME NEW i \in 0..k, i \in S, i < k PROVE i + 1 \in S
  <2>1. i + 1 \in 1..k /\ i + 1 \in 1..w /\ (i + 1) - 1 = i /\ i + 1 \in 0..k
    BY <1>2
  <2>2. c[i + 1] = c[i] \o x[i + 1].bytes /\ d[i + 1] = d[i] \o x[i + 1].bytes
    BY <2>1 DEF Grows
  <2> QED BY <2>1, <2>2, <1>2
<1> HIDE DEF S
<1>3. 0..k \subseteq S
  BY <1>1, <1>2, Climb
<1>4. k \in S
  BY <1>3
<1> QED BY <1>4 DEF S

\* The bytes before message i.
Before(b, i) == Len(b \o Chunk([whole |-> i - 1, more |-> 0]))

LEMMA WholeRead ==
  ASSUME PortInv, NEW k \in 0..Len(wire), NEW b \in Seq(Byte)
  PROVE  \E d : /\ Grows(d, wire, k) /\ d[0] = b
                /\ b \o Chunk([whole |-> k, more |-> 0]) = d[k]
<1> DEFINE q == [whole |-> k, more |-> 0]
<1>1. q.whole = k /\ q.more = 0 /\ q \in [whole : 0..Len(wire), more : {0} \cup Splits]
  OBVIOUS
<1> HIDE DEF q
<1>2. q \in Parts
  BY <1>1 DEF Parts
<1>3. PICK d : /\ Grows(d, wire, q.whole) /\ d[0] = b
               /\ q.more = 0 => b \o Chunk(q) = d[q.whole]
  BY <1>2, ReceivedIs
<1>4. Grows(d, wire, k) /\ d[0] = b /\ b \o Chunk(q) = d[k]
  BY <1>1, <1>3
<1> QED BY <1>4 DEF q

LEMMA Placed ==
  ASSUME PortInv, NEW part \in Parts, NEW b \in Seq(Byte), NEW i \in 1..Len(wire),
         i <= part.whole \/ (i = part.whole + 1 /\ part.more > 0)
  PROVE  /\ b \o Chunk(part) \in Seq(Byte) /\ Extends(b \o Chunk(part), b)
         /\ Before(b, i) \in Nat /\ Before(b, 1) = Len(b)
         /\ StandsAt(b \o Chunk(part), Before(b, i) + 1, wire[i].bytes)
         /\ IF i <= part.whole
            THEN Before(b, i) + Len(wire[i].bytes) <= Len(b \o Chunk(part))
            ELSE Before(b, i) + part.more = Len(b \o Chunk(part))
<1> DEFINE w == part.whole  e == part.more  r == b \o Chunk(part)  y == wire[i].bytes
           k == i - 1
<1>1. /\ w \in 0..Len(wire) /\ e \in Nat /\ Len(wire) \in Nat
      /\ e > 0 => w < Len(wire) /\ e < Len(wire[w + 1].bytes)
  BY PartIs
<1>2. \A j \in 1..Len(wire) : wire[j].bytes \in Seq(Byte)
  BY BytesType
<1>3. r \in Seq(Byte) /\ Chunk(part) \in Seq(Byte)
  <2>1. Chunk(part) \in Seq(Byte)
    BY ReceivedIs
  <2> QED BY <2>1
<1>4. Extends(r, b)
  <2> DEFINE x == Chunk(part)
  <2>1. x \in Seq(Byte)
    BY <1>3
  <2> HIDE DEF x
  <2>2. Extends(b \o x, b)
    BY <2>1, Extended DEF Extends
  <2> QED BY <2>2 DEF x
<1>5. PICK c : /\ Grows(c, wire, w) /\ c[0] = b
               /\ e = 0 => r = c[w]
               /\ e > 0 => r = c[w] \o SubSeq(wire[w + 1].bytes, 1, e)
  BY ReceivedIs
<1>6. k \in 0..w /\ w \in Nat /\ k + 1 = i
  <2>1. i <= w \/ (i = w + 1 /\ e > 0)
    OBVIOUS
  <2> HIDE DEF w, e
  <2> QED BY <2>1, <1>1
<1>7. k \in 0..Len(wire) /\ 0 \in 0..Len(wire)
  BY <1>1
<1>8. Before(b, i) = Len(c[k]) /\ c[k] \in Seq(Byte)
  <2> HIDE DEF w, e, r, k
  <2>1. PICK d : Grows(d, wire, k) /\ d[0] = b /\ b \o Chunk([whole |-> k, more |-> 0]) = d[k]
    BY <1>7, WholeRead
  <2>2. c[k] = d[k]
    BY <2>1, <1>5, <1>6, GrowsSame
  <2>3. c[k] \in Seq(Byte)
    BY <1>5, <1>6 DEF Grows
  <2>4. Before(b, i) = Len(b \o Chunk([whole |-> k, more |-> 0]))
    BY DEF Before, k
  <2> QED BY <2>1, <2>2, <2>3, <2>4
<1>9. Before(b, 1) = Len(b)
  <2>1. PICK d : Grows(d, wire, 0) /\ d[0] = b /\ b \o Chunk([whole |-> 0, more |-> 0]) = d[0]
    BY <1>7, WholeRead
  <2>2. 1 - 1 = 0
    OBVIOUS
  <2> QED BY <2>1, <2>2 DEF Before
<1> DEFINE p == Before(b, i)
<1>10. p \in Nat /\ y \in Seq(Byte) /\ Len(y) \in Nat /\ Len(r) \in Nat
  <2>1. y \in Seq(Byte)
    BY <1>2
  <2> HIDE DEF y, r
  <2> QED BY <2>1, <1>3, <1>8
<1>11. CASE i <= w
  <2>1. i \in 1..w /\ i \in 0..w
    BY <1>1, <1>11
  <2>2. c[i] = c[k] \o y /\ c[i] \in Seq(Byte)
    <3> HIDE DEF w
    <3> QED BY <2>1, <1>5 DEF Grows
  <2>3. Extends(c[w], c[i]) /\ c[w] \in Seq(Byte)
    <3>1. \A j \in 1..w : wire[j].bytes \in Seq(Byte)
      BY <1>1, <1>2
    <3> HIDE DEF w
    <3>2. Extends(c[w], c[i])
      BY <3>1, <2>1, <1>5, <1>6, GrowsOn
    <3>3. w \in 0..w
      BY <1>6
    <3> QED BY <3>2, <3>3, <1>5 DEF Grows
  <2>4. Extends(r, c[w])
    <3>1. CASE e = 0
      <4>1. r = c[w] /\ Len(c[w]) \in Nat
        BY <3>1, <1>5, <2>3
      <4> QED BY <4>1 DEF Extends
    <3>2. CASE e > 0
      <4> DEFINE x == SubSeq(wire[w + 1].bytes, 1, e)
      <4>1. x \in Seq(Byte)
        <5> DEFINE v == wire[w + 1].bytes
        <5>1. w + 1 \in 1..Len(wire)
          BY <1>1, <3>2
        <5>2. v \in Seq(Byte) /\ e < Len(v)
          BY <5>1, <1>1, <1>2, <3>2
        <5> HIDE DEF v, e
        <5>3. SubSeq(v, 1, e) \in Seq(Byte)
          BY <5>2, <1>1
        <5> QED BY <5>3 DEF v
      <4>2. r = c[w] \o x
        BY <3>2, <1>5
      <4> HIDE DEF x, r, w
      <4> QED BY <4>1, <4>2, <2>3, Extended DEF Extends
    <3> HIDE DEF e
    <3> QED BY <3>1, <3>2, <1>1
  <2>5. Len(c[i]) = p + Len(y) /\ \A j \in 1..Len(y) : c[i][p + j] = y[j]
    <3> HIDE DEF y, p
    <3>1. y \in Seq(Byte)
      BY <1>10
    <3>2. Len(c[k] \o y) = Len(c[k]) + Len(y) /\ \A j \in 1..Len(y) : (c[k] \o y)[Len(c[k]) + j] = y[j]
      BY <3>1, <1>8, Extended
    <3> QED BY <3>2, <2>2, <1>8 DEF p
  <2> HIDE DEF r, y, p, w
  <2>6. Len(c[w]) \in Nat /\ Len(c[i]) \in Nat
    BY <2>2, <2>3
  <2>7. p + Len(y) <= Len(r)
    BY <2>3, <2>4, <2>5, <2>6, <1>10 DEF Extends
  <2>8. ASSUME NEW j \in 1..Len(y) PROVE r[p + 1 + j - 1] = y[j]
    <3>1. p + j \in 1..Len(c[i]) /\ p + j \in 1..Len(c[w]) /\ p + 1 + j - 1 = p + j
      BY <2>3, <2>5, <2>6, <1>10 DEF Extends
    <3>2. r[p + j] = c[w][p + j] /\ c[w][p + j] = c[i][p + j]
      BY <3>1, <2>3, <2>4 DEF Extends
    <3> QED BY <3>1, <3>2, <2>5
  <2>9. StandsAt(r, p + 1, y)
    BY <2>8 DEF StandsAt
  <2> QED BY <2>7, <2>9, <1>3, <1>4, <1>9, <1>10, <1>11 DEF r, y, p, w
<1>12. CASE ~(i <= w)
  <2>1. i = w + 1 /\ e > 0 /\ k = w /\ e < Len(y)
    <3>1. i = w + 1 /\ e > 0
      BY <1>12
    <3> QED BY <3>1, <1>1, <1>6
  <2> DEFINE x == SubSeq(y, 1, e)
  <2>2. r = c[k] \o x
    BY <2>1, <1>5
  <2>3. x \in Seq(Byte) /\ Len(x) = e /\ \A j \in 1..e : x[j] = y[j]
    <3> HIDE DEF y, e
    <3>1. 1 \in 1..(Len(y) + 1) /\ e \in Int /\ 1 <= e + 1 /\ e <= Len(y) /\ e - 1 + 1 = e
          /\ \A j \in 1..e : 1 + j - 1 = j
      BY <2>1, <1>1, <1>10
    <3>2. x \in Seq(Byte) /\ Len(x) = e - 1 + 1 /\ \A j \in 1..(e - 1 + 1) : x[j] = y[1 + j - 1]
      BY <3>1, <1>10, SubType
    <3> HIDE DEF x
    <3> QED BY <3>1, <3>2
  <2> HIDE DEF x, r, y, p, e
  <2>4. Len(r) = Len(c[k]) + Len(x) /\ \A j \in 1..Len(x) : r[Len(c[k]) + j] = x[j]
    BY <2>2, <2>3, <1>8, Extended
  <2>5. Len(r) = p + e /\ \A j \in 1..e : r[p + j] = y[j]
    BY <2>3, <2>4, <1>8 DEF p
  <2>6. ASSUME NEW j \in 1..Len(y), p + 1 + j - 1 <= Len(r) PROVE r[p + 1 + j - 1] = y[j]
    <3>1. j \in 1..e /\ p + 1 + j - 1 = p + j
      BY <2>5, <2>6, <1>1, <1>10
    <3> QED BY <3>1, <2>5
  <2>7. StandsAt(r, p + 1, y)
    BY <2>6 DEF StandsAt
  <2> QED BY <2>5, <2>7, <1>3, <1>4, <1>9, <1>10, <1>12 DEF r, y, p, e
<1> QED BY <1>11, <1>12

LEMMA FromFrom ==
  ASSUME NEW a \in Seq(Byte), NEW o \in 0..Len(a), NEW e \in Nat, o + e <= Len(a)
  PROVE  From(From(a, o + 1), e + 1) = From(a, o + e + 1)
<1> DEFINE y == From(a, o + 1)  z == From(y, e + 1)  v == From(a, o + e + 1)
<1>1. Len(a) \in Nat /\ o + 1 \in 1..(Len(a) + 1) /\ o + e + 1 \in 1..(Len(a) + 1)
  OBVIOUS
<1>2. y \in Seq(Byte) /\ Len(y) = Len(a) - (o + 1) + 1
      /\ \A i \in 1..(Len(a) - (o + 1) + 1) : y[i] = a[o + 1 + i - 1]
  BY <1>1, FromType
<1>3. v \in Seq(Byte) /\ Len(v) = Len(a) - (o + e + 1) + 1
      /\ \A i \in 1..(Len(a) - (o + e + 1) + 1) : v[i] = a[o + e + 1 + i - 1]
  BY <1>1, FromType
<1> HIDE DEF y, v
<1>4. e + 1 \in 1..(Len(y) + 1)
  BY <1>1, <1>2
<1>5. z \in Seq(Byte) /\ Len(z) = Len(y) - (e + 1) + 1
      /\ \A i \in 1..(Len(y) - (e + 1) + 1) : z[i] = y[e + 1 + i - 1]
  <2> DEFINE q == e + 1
  <2>1. y \in Seq(Byte) /\ q \in 1..(Len(y) + 1)
    BY <1>2, <1>4
  <2> HIDE DEF q
  <2>2. From(y, q) \in Seq(Byte) /\ Len(From(y, q)) = Len(y) - q + 1
        /\ \A i \in 1..(Len(y) - q + 1) : From(y, q)[i] = y[q + i - 1]
    BY ONLY <2>1, FromType
  <2> QED BY <2>2 DEF q
<1> HIDE DEF z
<1>6. Len(z) = Len(a) - o - e /\ Len(v) = Len(a) - o - e
  BY <1>1, <1>2, <1>3, <1>5
<1>7. ASSUME NEW i \in 1..Len(z) PROVE z[i] = v[i]
  <2>1. /\ i \in 1..(Len(y) - (e + 1) + 1) /\ i \in 1..(Len(a) - (o + e + 1) + 1)
        /\ e + 1 + i - 1 \in 1..(Len(a) - (o + 1) + 1)
        /\ o + 1 + (e + 1 + i - 1) - 1 = o + e + 1 + i - 1
    BY <1>1, <1>2, <1>6
  <2>2. z[i] = y[e + 1 + i - 1] /\ y[e + 1 + i - 1] = a[o + 1 + (e + 1 + i - 1) - 1]
    BY <2>1, <1>2, <1>5
  <2> QED BY <2>1, <2>2, <1>3
<1>8. z = v
  BY <1>3, <1>5, <1>6, <1>7, SameSeq
<1> QED BY <1>8 DEF y, z, v

-----------------------------------------------------------------------------
(* What a READ returns.                                                    *)

\* An answer that began stands where it did, whole or as far as it was received:
\* then its rest is what comes first at the port.
Stands(b) ==
  /\ b.at \in 1..Len(response) /\ b.bytes \in Replies /\ Len(b.bytes) > 2
  /\ StandsAt(response, b.at, b.bytes)
  /\ \/ b.at + Len(b.bytes) - 1 <= Len(response)
     \/ split /\ wire[1].bytes = From(b.bytes, Len(response) - b.at + 2)

\* A reply that will be read from its beginning.
Fresh(i) == i \in 1..Len(wire) /\ wire[i].kind = "reply" /\ (i = 1 => ~split)

\* If nothing older was on its way, no value comes but the answer.
Mine ==
  \/ owed = <<command>> /\ begun = {} /\ \A i \in 1..Len(wire) : ~Fresh(i)
  \/ /\ owed = << >> /\ own \in Answers(command)
     /\ \A b \in begun : b.bytes = own
     /\ \A i \in 1..Len(wire) : Fresh(i) => wire[i].bytes = own

\* The answer is still to come, was cut, waits at the port or began.
Seen ==
  \/ owed # << >> /\ owed[Len(owed)] = command
  \/ owed = << >> /\ cut
  \/ /\ owed = << >> /\ own \in Answers(command)
     /\ \/ \E i \in 1..Len(wire) : Fresh(i) /\ wire[i].bytes = own
        \/ \E b \in begun : b.bytes = own

Waits ==
  /\ \A b \in begun : Stands(b)
  /\ result = Extract(response, command)
  /\ ~late => Mine
  /\ command.op = "read" /\ command.id \in Readable => Seen

ValueInv == pc \in {"wait", "finish"} => Waits

LEMMA ValueInit == Init => ValueInv
  BY DEF Init, ValueInv

\* Another message at the end of the port.
LEMMA ArrivalFresh ==
  ASSUME PortInv, NEW kind \in {"frame", "reply", "cut"}, NEW bytes \in Seq(Byte),
         Arrives(kind, bytes)
  PROVE  /\ \A i \in 1..Len(wire) : /\ i \in 1..Len(wire') /\ wire'[i] = wire[i]
                                    /\ Fresh(i)' <=> Fresh(i)
         /\ \A i \in 1..Len(wire') : i \in 1..Len(wire) \/ i = Len(wire) + 1
         /\ Len(wire) + 1 \in 1..Len(wire')
         /\ \A i \in 1..Len(wire') :
              i = Len(wire) + 1 => wire'[i].bytes = bytes /\ (Fresh(i)' <=> kind = "reply")
         /\ split' = split /\ (split => wire'[1] = wire[1])
<1>1. /\ Len(wire') = Len(wire) + 1 /\ Len(wire) \in Nat
      /\ \A i \in 1..Len(wire) : wire'[i] = wire[i]
      /\ wire'[Len(wire) + 1].kind = kind /\ wire'[Len(wire) + 1].bytes = bytes
  BY Arrival
<1>2. split' = split
  BY DEF Arrives
<1>3. split => 1 \in 1..Len(wire)
  BY <1>1 DEF PortInv
<1>4. Len(wire) + 1 \in 1..Len(wire') /\ (Len(wire) + 1 = 1 => ~split)
  BY <1>1, <1>3
<1>5. ASSUME NEW i \in 1..Len(wire'), i = Len(wire) + 1
      PROVE  wire'[i].bytes = bytes /\ (Fresh(i)' <=> kind = "reply")
  BY <1>1, <1>2, <1>4, <1>5 DEF Fresh
<1>6. \A i \in 1..Len(wire) : /\ i \in 1..Len(wire') /\ wire'[i] = wire[i]
                              /\ Fresh(i)' <=> Fresh(i)
  BY <1>1, <1>2 DEF Fresh
<1>7. \A i \in 1..Len(wire') : i \in 1..Len(wire) \/ i = Len(wire) + 1
  BY <1>1
<1> QED BY <1>1, <1>2, <1>3, <1>4, <1>5, <1>6, <1>7

LEMMA ValueDevice ==
  ASSUME TypeInv, PortWhole, ValueInv, DeviceFrame \/ DeviceAnswers
  PROVE  ValueInv'
<1>0. /\ PortInv /\ pc' = pc /\ command' = command /\ response' = response /\ result' = result
      /\ begun' = begun /\ late' = late
  BY DEF TypeInv, DeviceFrame, DeviceAnswers, requestVars, accountVars
<1> SUFFICES ASSUME pc \in {"wait", "finish"}, Waits PROVE Waits'
  BY <1>0 DEF ValueInv
<1>1. command \in Command
  BY DEF TypeInv
<1>2. ASSUME NEW kind \in {"frame", "reply", "cut"}, NEW bytes \in Seq(Byte), Arrives(kind, bytes)
      PROVE  (\A b \in begun : Stands(b))' /\ (result = Extract(response, command))'
  <2>1. split' = split /\ (split => wire'[1] = wire[1])
    BY <1>0, <1>2, ArrivalFresh
  <2>2. \A b \in begun : Stands(b) => Stands(b)'
    BY <2>1, <1>0 DEF Stands
  <2>3. result' = Extract(response', command')
    BY <1>0 DEF Waits
  <2> QED BY <2>2, <2>3, <1>0 DEF Waits
<1>3. CASE DeviceFrame
  <2>1. PICK p \in Payload : Arrives("frame", Frame(nextSeq, p))
    BY <1>3 DEF DeviceFrame
  <2> DEFINE f == Frame(nextSeq, p)
  <2>2. f \in Seq(Byte)
    <3>1. p \in Seq(Byte) /\ Len(p) = PayloadSize
      BY TransportAssumption
    <3>2. f \in Whole
      BY <3>1, FrameIs DEF TypeInv
    <3> QED BY <3>2 DEF Whole
  <2>3. Arrives("frame", f) /\ owed' = owed /\ own' = own /\ cut' = cut
    BY <2>1, <1>3 DEF DeviceFrame
  <2> HIDE DEF f
  <2>4. /\ \A i \in 1..Len(wire) : i \in 1..Len(wire') /\ wire'[i] = wire[i] /\ (Fresh(i)' <=> Fresh(i))
        /\ \A i \in 1..Len(wire') : i \in 1..Len(wire) \/ ~Fresh(i)'
    BY <2>2, <2>3, <1>0, ArrivalFresh
  <2>5. (\A b \in begun : Stands(b))' /\ (result = Extract(response, command))'
    BY <2>2, <2>3, <1>2
  <2>6. Mine => Mine'
    BY <2>3, <2>4, <1>0 DEF Mine
  <2>7. Seen => Seen'
    BY <2>3, <2>4, <1>0 DEF Seen
  <2> QED BY <2>5, <2>6, <2>7, <1>0 DEF Waits
<1>4. CASE DeviceAnswers
  <2>1. owed # << >> /\ owed' = Tail(owed) /\ owed \in Seq(Command) /\ Head(owed) \in Command
    BY <1>4 DEF DeviceAnswers, TypeInv
  <2>2. PICK answer \in Answers(Head(owed)) :
           /\ own' = answer
           /\ \/ Arrives("reply", answer)
              \/ \E n \in Kept : /\ n < Len(answer) /\ Arrives("cut", SubSeq(answer, 1, n))
                                 /\ cut' = TRUE
    BY <1>4 DEF DeviceAnswers
  <2>3. answer \in Seq(Byte)
    BY <2>1, AnswersType
  <2>4. PICK kind \in {"reply", "cut"}, bytes \in Seq(Byte) :
           /\ Arrives(kind, bytes)
           /\ IF kind = "reply" THEN bytes = answer ELSE cut'
    <3>1. CASE Arrives("reply", answer)
      BY <3>1, <2>3
    <3>2. CASE \E n \in Kept : /\ n < Len(answer) /\ Arrives("cut", SubSeq(answer, 1, n)) /\ cut' = TRUE
      <4>1. PICK n \in Kept : Arrives("cut", SubSeq(answer, 1, n)) /\ n < Len(answer) /\ cut' = TRUE
        BY <3>2
      <4>2. SubSeq(answer, 1, n) \in Seq(Byte)
        BY <2>3, <4>1, TransportAssumption
      <4> QED BY <4>1, <4>2
    <3> QED BY <2>2, <3>1, <3>2
  <2>5. /\ \A i \in 1..Len(wire) : i \in 1..Len(wire') /\ wire'[i] = wire[i] /\ (Fresh(i)' <=> Fresh(i))
        /\ \A i \in 1..Len(wire') : i \in 1..Len(wire) \/ i = Len(wire) + 1
        /\ Len(wire) + 1 \in 1..Len(wire')
        /\ \A i \in 1..Len(wire') :
             i = Len(wire) + 1 => wire'[i].bytes = bytes /\ (Fresh(i)' <=> kind = "reply")
    BY <2>4, <1>0, ArrivalFresh
  <2>6. (\A b \in begun : Stands(b))' /\ (result = Extract(response, command))'
    BY <2>4, <1>2
  <2>7. ASSUME Mine PROVE Mine'
    <3>1. owed = <<command>> /\ begun = {} /\ \A i \in 1..Len(wire) : ~Fresh(i)
      BY <2>1, <2>7 DEF Mine
    <3>2. owed' = << >> /\ own' \in Answers(command')
      BY <3>1, <2>1, <2>2, <1>0
    <3>3. ASSUME NEW i \in 1..Len(wire'), Fresh(i)' PROVE wire'[i].bytes = own'
      <4>1. i = Len(wire) + 1
        BY <3>1, <3>3, <2>5
      <4>2. wire'[i].bytes = bytes /\ kind = "reply"
        BY <4>1, <3>3, <2>5
      <4> QED BY <4>2, <2>2, <2>4
    <3> QED BY <3>1, <3>2, <3>3, <1>0 DEF Mine
  <2>8. ASSUME Seen PROVE Seen'
    <3>1. owed[Len(owed)] = command
      BY <2>1, <2>8 DEF Seen
    <3>2. CASE Len(owed) = 1
      <4>1. owed' = << >> /\ Head(owed) = command
        BY <3>1, <3>2, <2>1
      <4>2. own' \in Answers(command')
        BY <4>1, <2>2, <1>0
      <4>3. CASE kind = "reply"
        <5>1. PICK i \in 1..Len(wire') : i = Len(wire) + 1
          BY <2>5
        <5>2. Fresh(i)' /\ wire'[i].bytes = own'
          BY <5>1, <4>3, <2>2, <2>4, <2>5
        <5> QED BY <5>2, <4>1, <4>2 DEF Seen
      <4>4. CASE kind # "reply"
        BY <4>1, <4>4, <2>4 DEF Seen
      <4> QED BY <4>3, <4>4
    <3>3. CASE Len(owed) # 1
      <4>1. Len(owed) \in Nat /\ Len(owed) > 1
        <5> DEFINE m == Len(owed)
        <5>1. m \in Nat /\ m # 0 /\ m # 1
          BY <2>1, <3>3
        <5> HIDE DEF m
        <5>2. m > 1
          BY <5>1
        <5> QED BY <5>1, <5>2 DEF m
      <4>2. Len(owed') = Len(owed) - 1 /\ owed'[Len(owed) - 1] = owed[Len(owed)]
        BY <4>1, <2>1
      <4>3. owed' # << >> /\ owed'[Len(owed')] = command'
        BY <4>1, <4>2, <3>1, <1>0
      <4> QED BY <4>3 DEF Seen
    <3> QED BY <3>2, <3>3
  <2> QED BY <2>6, <2>7, <2>8, <1>0 DEF Waits
<1> QED BY <1>3, <1>4

LEMMA ValueSend ==
  ASSUME TypeInv, Send
  PROVE  ValueInv'
<1>1. /\ pc = "drain" /\ owed' = Append(owed, command) /\ command' = command /\ begun' = {}
      /\ late' = (owed # << >> \/ \E i \in 1..Len(wire') : wire'[i].kind # "frame")
      /\ response' = response /\ result' = result
  BY DEF Send
<1>2. response' = << >> /\ result' = None /\ command \in Command /\ owed \in Seq(Command)
  BY <1>1 DEF TypeInv
<1>3. result' = Extract(response', command')
  BY <1>2, ExtractNone
<1>4. owed' # << >> /\ owed'[Len(owed')] = command'
  BY <1>1, <1>2
<1>5. ASSUME ~late' PROVE Mine'
  <2>1. owed = << >> /\ \A i \in 1..Len(wire') : wire'[i].kind = "frame"
    BY <1>1, <1>5
  <2>2. owed' = <<command'>>
    BY <2>1, <1>1, <1>2
  <2>3. \A i \in 1..Len(wire') : ~Fresh(i)'
    BY <2>1 DEF Fresh
  <2> QED BY <2>2, <2>3, <1>1 DEF Mine
<1>6. Seen'
  BY <1>4 DEF Seen
<1> QED BY <1>1, <1>3, <1>5, <1>6 DEF ValueInv, Waits

\* What a read leaves at the port is what was behind it.
LEMMA FreshStays ==
  ASSUME PortInv, NEW part \in Parts, Some(part), Advance(part)
  PROVE  /\ \A i \in 1..Len(wire') : Fresh(i)' =>
              \E j \in 1..Len(wire) : Fresh(j) /\ wire'[i] = wire[j]
         /\ \A j \in 1..Len(wire) : Fresh(j) =>
              \/ j <= part.whole \/ (j = part.whole + 1 /\ part.more > 0)
              \/ \E i \in 1..Len(wire') : Fresh(i)' /\ wire'[i] = wire[j]
<1> DEFINE w == part.whole  e == part.more
<1>1. w \in 0..Len(wire) /\ e \in Nat /\ Len(wire) \in Nat /\ w + e > 0
  <2>1. w \in 0..Len(wire) /\ e \in Nat /\ Len(wire) \in Nat
    BY PartIs
  <2> QED BY <2>1 DEF Some
<1>2. /\ Len(wire') = Len(wire) - w
      /\ \A i \in 1..Len(wire') : i # 1 \/ e = 0 => wire'[i] = wire[w + i]
  BY Advances
<1>3. split' = (e > 0)
  BY DEF Advance
<1> HIDE DEF w, e
<1>4. ASSUME NEW i \in 1..Len(wire'), Fresh(i)'
      PROVE  \E j \in 1..Len(wire) : Fresh(j) /\ wire'[i] = wire[j]
  <2>1. wire'[i].kind = "reply" /\ (i = 1 => e = 0)
    <3>1. wire'[i].kind = "reply" /\ (i = 1 => ~split')
      BY <1>4 DEF Fresh
    <3>2. i = 1 => ~(e > 0)
      BY <3>1, <1>3
    <3> QED BY <3>1, <3>2, <1>1
  <2>2. wire'[i] = wire[w + i] /\ w + i \in 1..Len(wire)
    BY <2>1, <1>1, <1>2
  <2>3. w + i # 1
    BY <2>1, <1>1
  <2> QED BY <2>1, <2>2, <2>3 DEF Fresh
<1>5. ASSUME NEW j \in 1..Len(wire), Fresh(j), ~(j <= w), ~(j = w + 1 /\ e > 0)
      PROVE  \E i \in 1..Len(wire') : Fresh(i)' /\ wire'[i] = wire[j]
  <2>1. j - w \in 1..Len(wire') /\ w + (j - w) = j /\ (j - w # 1 \/ e = 0)
    BY <1>1, <1>2, <1>5
  <2>2. wire'[j - w] = wire[j]
    BY <2>1, <1>2
  <2>3. j - w = 1 => ~split'
    <3>1. e = 0 => ~(e > 0)
      BY <1>1
    <3> QED BY <3>1, <2>1, <1>3
  <2>4. PICK i \in 1..Len(wire') : i = j - w
    BY <2>1
  <2>5. Fresh(i)' /\ wire'[i] = wire[j]
    BY <2>2, <2>3, <2>4, <1>5 DEF Fresh
  <2> QED BY <2>5
<1> QED BY <1>4, <1>5 DEF w, e

\* The answers that begin in a part.
LEMMA BegunIs ==
  ASSUME NEW part
  PROVE  /\ \A b \in Begun(part) : \E i \in 1..Len(wire) :
              /\ Fresh(i) /\ Len(wire[i].bytes) > 2
              /\ i <= part.whole \/ (i = part.whole + 1 /\ part.more > 0)
              /\ b.at = Before(response, i) + 1 /\ b.bytes = wire[i].bytes
         /\ \A i \in 1..Len(wire) :
              /\ Fresh(i) /\ Len(wire[i].bytes) > 2
              /\ i <= part.whole \/ (i = part.whole + 1 /\ part.more > 0)
              => \E b \in Begun(part) : b.bytes = wire[i].bytes
<1> DEFINE I == {i \in 1..Len(wire) :
                  /\ i <= part.whole \/ (i = part.whole + 1 /\ part.more > 0)
                  /\ wire[i].kind = "reply" /\ Len(wire[i].bytes) > 2
                  /\ i = 1 => ~split}
           B(i) == [at |-> Before(response, i) + 1, bytes |-> wire[i].bytes]
<1>1. Begun(part) = {B(i) : i \in I}
  BY DEF Begun, Before
<1>2. \A i : i \in I <=> /\ Fresh(i) /\ Len(wire[i].bytes) > 2
                         /\ i <= part.whole \/ (i = part.whole + 1 /\ part.more > 0)
  BY DEF Fresh
<1>3. \A i \in I : i \in 1..Len(wire)
  OBVIOUS
<1>4. \A i : B(i).at = Before(response, i) + 1 /\ B(i).bytes = wire[i].bytes
  OBVIOUS
<1> HIDE DEF I, B
<1> QED BY <1>1, <1>2, <1>3, <1>4

\* An answer that was received in part goes on with what is read.
LEMMA StandsOn ==
  ASSUME TypeInv, NEW part \in Parts, Some(part), Advance(part),
         response' = response \o Chunk(part), NEW b, Stands(b)
  PROVE  Stands(b)'
<1> DEFINE w == part.whole  e == part.more  a == b.bytes  at == b.at  r == response'
<1>1. PortInv /\ response \in Seq(Byte)
  BY DEF TypeInv
<1>2. w \in 0..Len(wire) /\ e \in Nat /\ Len(wire) \in Nat /\ w + e > 0
  <2>1. w \in 0..Len(wire) /\ e \in Nat /\ Len(wire) \in Nat
    BY <1>1, PartIs
  <2> QED BY <2>1 DEF Some
<1>3. /\ at \in 1..Len(response) /\ a \in Replies /\ Len(a) > 2 /\ StandsAt(response, at, a)
      /\ \/ at + Len(a) - 1 <= Len(response)
         \/ split /\ wire[1].bytes = From(a, Len(response) - at + 2)
  BY DEF Stands
<1>4. a \in Seq(Byte) /\ Len(a) \in Nat
  BY <1>3, ReplyType
<1>5. r \in Seq(Byte) /\ Extends(r, response)
  <2>1. Chunk(part) \in Seq(Byte)
    BY <1>1, ReceivedIs
  <2> DEFINE x == Chunk(part)
  <2>2. x \in Seq(Byte)
    BY <2>1
  <2> HIDE DEF x
  <2>3. response \o x \in Seq(Byte) /\ Extends(response \o x, response)
    BY <2>2, <1>1, Extended DEF Extends
  <2> QED BY <2>3 DEF x
<1>6. Len(r) \in Nat /\ Len(response) \in Nat /\ Len(response) <= Len(r)
      /\ \A i \in 1..Len(response) : r[i] = response[i]
  BY <1>1, <1>5 DEF Extends
<1>7. CASE at + Len(a) - 1 <= Len(response)
  <2> HIDE DEF a, at, r
  <2>1. ASSUME NEW q \in 1..Len(a) PROVE r[at + q - 1] = a[q]
    <3>1. at + q - 1 \in 1..Len(response)
      BY <1>3, <1>4, <1>6, <1>7
    <3>2. response[at + q - 1] = a[q]
      BY <3>1, <1>3 DEF StandsAt
    <3> QED BY <3>1, <3>2, <1>6
  <2>2. StandsAt(r, at, a) /\ at \in 1..Len(r) /\ at + Len(a) - 1 <= Len(r)
    BY <2>1, <1>3, <1>4, <1>6, <1>7 DEF StandsAt
  <2> QED BY <2>2, <1>3 DEF Stands, a, at, r
<1>8. CASE ~(at + Len(a) - 1 <= Len(response))
  <2> DEFINE o == Len(response) - at + 1  y == wire[1].bytes
  <2>1. split /\ y = From(a, o + 1) /\ 1 \in 1..Len(wire)
    <3>1. split /\ y = From(a, Len(response) - at + 2)
      BY <1>3, <1>8
    <3>2. Len(response) - at + 2 = o + 1
      BY <1>3, <1>6
    <3>3. 1 \in 1..Len(wire)
      BY <3>1, <1>1, <1>2 DEF PortInv
    <3> HIDE DEF o, y
    <3> QED BY <3>1, <3>2, <3>3
  <2>2. o \in 1..(Len(a) - 1) /\ at + o = Len(response) + 1
    <3> HIDE DEF a, at
    <3> QED BY <1>3, <1>4, <1>6, <1>8
  <2> HIDE DEF o, y
  <2>3. Len(y) = Len(a) - o /\ \A q \in 1..Len(y) : y[q] = a[o + q]
    <3>1. o + 1 \in 1..(Len(a) + 1)
      BY <2>2, <1>4
    <3>2. Len(y) = Len(a) - (o + 1) + 1 /\ \A q \in 1..(Len(a) - (o + 1) + 1) : y[q] = a[o + 1 + q - 1]
      BY <3>1, <2>1, <1>4, FromType
    <3>3. Len(a) - (o + 1) + 1 = Len(a) - o /\ \A q \in 1..(Len(a) - o) : o + 1 + q - 1 = o + q
      BY <2>2, <1>4
    <3> HIDE DEF a
    <3> QED BY <3>2, <3>3
  <2>4. 1 <= w \/ (1 = w + 1 /\ e > 0)
    <3> HIDE DEF w, e
    <3> QED BY <1>2
  <2>5. /\ Before(response, 1) = Len(response)
        /\ StandsAt(r, Len(response) + 1, y)
        /\ IF 1 <= w THEN Len(response) + Len(y) <= Len(r) ELSE Len(response) + e = Len(r)
    <3> DEFINE k == 1
    <3>0. k \in 1..Len(wire) /\ (k <= w \/ (k = w + 1 /\ e > 0))
      BY <2>1, <2>4
    <3> HIDE DEF k
    <3>1. /\ Before(response, 1) = Len(response)
          /\ StandsAt(response \o Chunk(part), Before(response, k) + 1, wire[k].bytes)
          /\ IF k <= w
             THEN Before(response, k) + Len(wire[k].bytes) <= Len(response \o Chunk(part))
             ELSE Before(response, k) + e = Len(response \o Chunk(part))
      BY <3>0, <1>1, Placed
    <3> QED BY <3>1 DEF k, y
  <2> HIDE DEF a, at, r, w, e
  <2>6. ASSUME NEW q \in 1..Len(a), at + q - 1 <= Len(r) PROVE r[at + q - 1] = a[q]
    <3>1. CASE q <= o
      <4>1. at + q - 1 \in 1..Len(response)
        BY <3>1, <2>2, <1>3, <1>6
      <4>2. response[at + q - 1] = a[q]
        BY <4>1, <1>3 DEF StandsAt
      <4> QED BY <4>1, <4>2, <1>6
    <3>2. CASE ~(q <= o)
      <4> DEFINE n == q - o
      <4>0. q \in 1..Len(a) /\ q > o /\ o \in Nat /\ Len(y) = Len(a) - o /\ at \in Nat
        BY <3>2, <2>2, <2>3, <1>3, <1>4
      <4>1. /\ n \in 1..Len(y) /\ o + n = q /\ at + q - 1 = Len(response) + 1 + n - 1
        <5>1. n \in 1..Len(y) /\ o + n = q
          BY <4>0, <1>4
        <5>2. at + q - 1 = Len(response) + 1 + n - 1
          <6>1. n \in Int
            BY <4>0
          <6> HIDE DEF n
          <6>2. at + o = Len(response) + 1
            BY <2>2
          <6>3. o + n = q
            BY <5>1
          <6> QED BY <6>1, <6>2, <6>3, <4>0
        <5> QED BY <5>1, <5>2
      <4> HIDE DEF n
      <4>2. r[Len(response) + 1 + n - 1] = y[n]
        BY <4>1, <2>5, <2>6 DEF StandsAt
      <4> QED BY <4>1, <4>2, <2>3
    <3> QED BY <3>1, <3>2
  <2>7. at \in 1..Len(r) /\ StandsAt(r, at, a)
    <3>1. at \in 1..Len(r)
      BY <1>3, <1>6
    <3>2. StandsAt(r, at, a)
      BY <2>6 DEF StandsAt
    <3> QED BY <3>1, <3>2
  <2>8. CASE 1 <= w
    <3>1. at + Len(a) - 1 <= Len(r)
      BY <2>2, <2>3, <2>5, <2>8, <1>3, <1>4, <1>6
    <3> QED BY <3>1, <2>7, <1>3 DEF Stands, a, at, r
  <2>9. CASE ~(1 <= w)
    <3>1. w = 0 /\ e > 0 /\ Len(r) = Len(response) + e /\ w + 1 = 1
      BY <2>4, <2>5, <2>9, <1>2
    <3>2. split'
      BY <3>1 DEF Advance, Some, w, e
    <3>3. e < Len(y)
      <4>1. e > 0 => e < Len(wire[w + 1].bytes)
        BY <1>1, PartIs DEF w, e
      <4> QED BY <4>1, <3>1 DEF y
    <3>4. wire'[1].bytes = From(y, e + 1)
      <4>1. e > 0 => wire'[1].bytes = From(wire[w + 1].bytes, e + 1)
        BY <1>1, Advances DEF w, e
      <4> QED BY <4>1, <3>1 DEF y
    <3>5. From(y, e + 1) = From(a, o + e + 1)
      <4>1. o \in 0..Len(a) /\ e \in Nat /\ o + e <= Len(a)
        BY <3>3, <2>2, <2>3, <1>2, <1>4
      <4>2. From(From(a, o + 1), e + 1) = From(a, o + e + 1)
        BY <4>1, <1>4, FromFrom
      <4> QED BY <4>2, <2>1
    <3>6. o + e + 1 = Len(r) - at + 2
      BY <3>1, <2>2, <1>2, <1>3, <1>6
    <3> QED BY <3>2, <3>4, <3>5, <3>6, <2>7, <1>3 DEF Stands, a, at, r
  <2> QED BY <2>8, <2>9
<1> QED BY <1>7, <1>8

\* So does one that begins with what is read.
LEMMA StandsNew ==
  ASSUME TypeInv, PortWhole, NEW part \in Parts, Some(part), Advance(part),
         response' = response \o Chunk(part), NEW b \in Begun(part)
  PROVE  Stands(b)'
<1> DEFINE w == part.whole  e == part.more  a == b.bytes  at == b.at  r == response'
<1>1. PortInv /\ response \in Seq(Byte)
  BY DEF TypeInv
<1>2. PICK i \in 1..Len(wire) :
         /\ Fresh(i) /\ Len(wire[i].bytes) > 2
         /\ i <= w \/ (i = w + 1 /\ e > 0)
         /\ at = Before(response, i) + 1 /\ a = wire[i].bytes
  BY BegunIs
<1>3. a \in Replies /\ Len(a) > 2
  BY <1>2 DEF PortWhole, Fresh, Fits
<1>4. Len(a) \in Nat /\ w \in 0..Len(wire) /\ e \in Nat /\ Len(wire) \in Nat
  <2>1. a \in Seq(Byte)
    BY <1>3, ReplyType
  <2>2. w \in 0..Len(wire) /\ e \in Nat /\ Len(wire) \in Nat
    BY <1>1, PartIs
  <2> HIDE DEF a, w, e
  <2> QED BY <2>1, <2>2
<1> DEFINE before == Before(response, i)
<1>5. /\ r \in Seq(Byte) /\ before \in Nat /\ StandsAt(r, before + 1, a)
      /\ IF i <= w THEN before + Len(a) <= Len(r) ELSE before + e = Len(r)
  <2>1. /\ response \o Chunk(part) \in Seq(Byte) /\ before \in Nat
        /\ StandsAt(response \o Chunk(part), before + 1, wire[i].bytes)
        /\ IF i <= part.whole
           THEN before + Len(wire[i].bytes) <= Len(response \o Chunk(part))
           ELSE before + part.more = Len(response \o Chunk(part))
    BY <1>1, <1>2, Placed
  <2> QED BY <2>1, <1>2
<1>6. at = before + 1 /\ Len(r) \in Nat
  <2> HIDE DEF r
  <2> QED BY <1>2, <1>5
<1>7. StandsAt(r, at, a)
  BY <1>5, <1>6
<1> HIDE DEF a, at, r, before, w, e
<1>8. CASE i <= w
  <2>1. at \in 1..Len(r) /\ at + Len(a) - 1 <= Len(r)
    BY <1>3, <1>4, <1>5, <1>6, <1>8
  <2> QED BY <2>1, <1>3, <1>7 DEF Stands, a, at, r
<1>9. CASE ~(i <= w)
  <2>1. i = w + 1 /\ e > 0 /\ before + e = Len(r)
    BY <1>2, <1>5, <1>9
  <2>2. at \in 1..Len(r) /\ Len(r) - at + 2 = e + 1
    <3>1. at = before + 1 /\ Len(r) = before + e /\ before \in Nat /\ e \in Nat /\ e > 0
      BY <2>1, <1>4, <1>5, <1>6
    <3> DEFINE n == Len(r)
    <3>2. at = before + 1 /\ n = before + e /\ before \in Nat /\ e \in Nat /\ e > 0
      BY <3>1
    <3> HIDE DEF n
    <3>3. at \in 1..n /\ n - at + 2 = e + 1
      BY ONLY <3>2
    <3> QED BY <3>3 DEF n
  <2>3. split'
    BY <2>1 DEF Advance, Some, w, e
  <2>4. wire'[1].bytes = From(a, e + 1)
    <3>1. e > 0 => wire'[1].bytes = From(wire[w + 1].bytes, e + 1)
      BY <1>1, Advances DEF w, e
    <3>2. a = wire[w + 1].bytes
      BY <2>1, <1>2 DEF a
    <3> QED BY <3>1, <3>2, <2>1
  <2> QED BY <2>2, <2>3, <2>4, <1>3, <1>7 DEF Stands, a, at, r
<1> QED BY <1>8, <1>9

LEMMA ValueReceive ==
  ASSUME TypeInv, PortWhole, ValueInv, Receive
  PROVE  ValueInv'
<1>1. PICK part \in Parts :
         /\ Some(part) /\ Advance(part) /\ response' = response \o Chunk(part)
         /\ begun' = begun \cup Begun(part)
  BY DEF Receive
<1>2. /\ PortInv /\ Waits /\ command \in Command /\ pc = "wait" /\ command' = command
      /\ owed' = owed /\ own' = own /\ cut' = cut /\ late' = late
      /\ result' = Extract(response', command')
  BY DEF Receive, deviceVars, TypeInv, ValueInv
<1>3. \A b \in begun' : Stands(b)'
  <2>1. \A b \in begun : Stands(b)'
    BY <1>1, <1>2, StandsOn DEF Waits
  <2>2. \A b \in Begun(part) : Stands(b)'
    BY <1>1, StandsNew
  <2> QED BY <2>1, <2>2, <1>1
<1>4. \A i \in 1..Len(wire') : Fresh(i)' =>
         \E j \in 1..Len(wire) : Fresh(j) /\ wire'[i] = wire[j]
  BY <1>1, <1>2, FreshStays
<1>5. ASSUME Mine PROVE Mine'
  <2>1. \A b \in Begun(part) : \E i \in 1..Len(wire) : Fresh(i) /\ b.bytes = wire[i].bytes
    BY BegunIs
  <2>2. CASE owed = <<command>> /\ begun = {} /\ \A i \in 1..Len(wire) : ~Fresh(i)
    <3>1. Begun(part) = {}
      BY <2>1, <2>2
    <3>2. \A i \in 1..Len(wire') : ~Fresh(i)'
      BY <2>2, <1>4
    <3> QED BY <3>1, <3>2, <2>2, <1>1, <1>2 DEF Mine
  <2>3. CASE /\ owed = << >> /\ own \in Answers(command)
             /\ \A b \in begun : b.bytes = own
             /\ \A i \in 1..Len(wire) : Fresh(i) => wire[i].bytes = own
    <3>1. \A b \in begun' : b.bytes = own
      BY <2>1, <2>3, <1>1
    <3>2. \A i \in 1..Len(wire') : Fresh(i)' => wire'[i].bytes = own
      BY <2>3, <1>4
    <3> QED BY <3>1, <3>2, <2>3, <1>2 DEF Mine
  <2> QED BY <2>2, <2>3, <1>5 DEF Mine
<1>6. ASSUME Seen, command.op = "read", command.id \in Readable PROVE Seen'
  <2>1. CASE owed # << >> /\ owed[Len(owed)] = command
    BY <2>1, <1>2 DEF Seen
  <2>2. CASE owed = << >> /\ cut
    BY <2>2, <1>2 DEF Seen
  <2>3. CASE /\ owed = << >> /\ own \in Answers(command)
             /\ \E i \in 1..Len(wire) : Fresh(i) /\ wire[i].bytes = own
    <3>1. PICK i \in 1..Len(wire) : Fresh(i) /\ wire[i].bytes = own
      BY <2>3
    <3>2. Len(own) > 2
      BY <2>3, <1>2, <1>6, ValueLong
    <3>3. CASE i <= part.whole \/ (i = part.whole + 1 /\ part.more > 0)
      <4>1. PICK b \in Begun(part) : b.bytes = own
        BY <3>1, <3>2, <3>3, BegunIs
      <4> QED BY <4>1, <2>3, <1>1, <1>2 DEF Seen
    <3>4. CASE \E k \in 1..Len(wire') : Fresh(k)' /\ wire'[k] = wire[i]
      BY <3>1, <3>4, <2>3, <1>2 DEF Seen
    <3>5. \/ i <= part.whole \/ (i = part.whole + 1 /\ part.more > 0)
          \/ \E k \in 1..Len(wire') : Fresh(k)' /\ wire'[k] = wire[i]
      BY <3>1, <1>1, <1>2, FreshStays
    <3> QED BY <3>3, <3>4, <3>5
  <2>4. CASE owed = << >> /\ own \in Answers(command) /\ \E b \in begun : b.bytes = own
    BY <2>4, <1>1, <1>2 DEF Seen
  <2> QED BY <2>1, <2>2, <2>3, <2>4, <1>6 DEF Seen
<1> QED BY <1>2, <1>3, <1>5, <1>6 DEF ValueInv, Waits

LEMMA ValueStep == TypeInv /\ PortWhole /\ ValueInv /\ [Next]_vars => ValueInv'
<1> SUFFICES ASSUME TypeInv, PortWhole, ValueInv, [Next]_vars PROVE ValueInv'
  OBVIOUS
<1>1. CASE DeviceFrame \/ DeviceAnswers
  BY <1>1, ValueDevice
<1>2. CASE Send
  BY <1>2, ValueSend
<1>3. CASE Receive
  BY <1>3, ValueReceive
<1>4. CASE Watch
  BY <1>4 DEF Watch, ValueInv, requestVars
<1>5. CASE Request
  BY <1>5 DEF Request, ValueInv
<1>6. CASE TimeOut \/ Finish
  BY <1>6 DEF TimeOut, Finish, Ended, ValueInv
<1>7. CASE UNCHANGED vars
  BY <1>7 DEF vars, portVars, deviceVars, requestVars, accountVars, ValueInv, Waits, Mine, Seen,
              Stands, Fresh
<1> QED BY <1>1, <1>2, <1>3, <1>4, <1>5, <1>6, <1>7 DEF Next

LEMMA ValueAlways == Spec => []ValueInv
  BY ValueInit, ValueStep, WholeAlways, TypeAlways, PTL DEF Spec

\* A READ of request() in transport.py returns the device's answer to a READ of
\* that id, and its own unless an older answer was still to come, whatever is in
\* frames, values and answers and however the reads cut them: as long as only the
\* beginning of an answer with a value looks like the one that is asked for.
THEOREM ValueOfIdCorrect == Spec => []ValueOfId
<1>1. TypeInv /\ ValueInv => ValueOfId
  <2> SUFFICES ASSUME TypeInv, ValueInv, pc = "finish", command.op = "read", ~Lookalike
               PROVE  result \in Answers(command) /\ (~late => result = own)
    BY DEF ValueOfId
  <2>1. Waits /\ command \in Command /\ response \in Seq(Byte) /\ result # None
    BY DEF ValueInv, TypeInv
  <2>2. result = ObjectIn(response, command.id)
    BY <2>1 DEF Waits, Extract
  <2> DEFINE S == ObjectStarts(response, command.id)
  <2>3. S # {}
    BY <2>1, <2>2, NoObject
  <2>4. PICK p \in S : result = SubSeq(response, p, ObjectEnd(response, p))
    BY <2>1, <2>2, <2>3, ObjectOf
  <2>5. PICK b \in begun : b.at = p
    BY DEF Lookalike
  <2>6. b.bytes \in Replies /\ Len(b.bytes) > 2 /\ StandsAt(response, p, b.bytes)
    BY <2>1, <2>5 DEF Waits, Stands
  <2>7. result = b.bytes /\ b.bytes \in Answers(command)
    BY <2>1, <2>4, <2>6, ValueFound
  <2>8. ~late => b.bytes = own
    BY <2>1, <2>5 DEF Waits, Mine
  <2> QED BY <2>7, <2>8
<1> QED BY <1>1, ValueAlways, TypeAlways, PTL

\* A READ of request() in transport.py that the device answered with a value, and
\* whole, is over when the host has read what came: extract_reply_frame finds the
\* answer in spite of everything before, in between and behind.
THEOREM AnswerSeenCorrect == Spec => []AnswerSeen
<1>1. TypeInv /\ ValueInv => AnswerSeen
  <2> SUFFICES ASSUME TypeInv, ValueInv, pc = "wait", command.op = "read",
                      command.id \in Readable, owed = << >>, wire = << >>, ~cut
               PROVE  FALSE
    BY DEF AnswerSeen
  <2>1. /\ Waits /\ command \in Command /\ response \in Seq(Byte) /\ PortInv
        /\ ObjectIn(response, command.id) = None
    BY DEF ValueInv, TypeInv, Extract
  <2>2. own \in Answers(command) /\ \E b \in begun : b.bytes = own
    <3>1. 1..Len(wire) = {}
      OBVIOUS
    <3> QED BY <3>1, <2>1 DEF Waits, Seen
  <2>3. PICK b \in begun : b.bytes = own
    BY <2>2
  <2> DEFINE at == b.at
  <2>4. /\ at \in 1..Len(response) /\ Len(own) > 2 /\ StandsAt(response, at, own)
        /\ at + Len(own) - 1 <= Len(response)
    BY <2>1, <2>3 DEF Waits, Stands, PortInv
  <2> HIDE DEF at
  <2>5. at \in Nat \ {0}
    BY <2>4
  <2>6. at \in ObjectStarts(response, command.id)
    BY <2>1, <2>2, <2>4, <2>5, ValueThere
  <2> QED BY <2>1, <2>6, SomeObject
<1> QED BY <1>1, ValueAlways, TypeAlways, PTL
=============================================================================
