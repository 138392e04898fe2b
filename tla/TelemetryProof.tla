--------------------------- MODULE TelemetryProof ---------------------------
(***************************************************************************)
(* Theorems about Telemetry, for every size of a frame, sync word, payload *)
(* and way to cut up the stream, and for every number of frames.           *)
(***************************************************************************)
EXTENDS Telemetry, BasicFacts

-----------------------------------------------------------------------------
(* Parts of sequences. *)

LEMMA Constants ==
  /\ Base \in Nat /\ Base > 3 /\ FrameSize \in Nat /\ FrameSize >= 4
  /\ Byte = 0..(Base - 1) /\ Byte \subseteq Nat /\ Sync \in Seq(Byte) /\ Len(Sync) = 2
  BY PortAssumption DEF FrameSize, Byte

LEMMA FromType ==
  ASSUME NEW S, NEW s \in Seq(S), NEW p \in 1..(Len(s) + 1)
  PROVE  /\ From(s, p) \in Seq(S) /\ Len(From(s, p)) = Len(s) - p + 1
         /\ \A i \in 1..(Len(s) - p + 1) : From(s, p)[i] = s[p + i - 1]
<1>1. Len(s) \in Int /\ p <= Len(s) + 1 /\ Len(s) <= Len(s)
  OBVIOUS
<1> QED BY <1>1, SubType DEF From

LEMMA FromCat ==
  ASSUME NEW S, NEW s \in Seq(S), NEW t \in Seq(S), NEW p \in 1..(Len(s) + 1)
  PROVE  From(s, p) \o t = From(s \o t, p)
<1> DEFINE f == From(s, p)  c == s \o t  g == From(c, p)  h == f \o t  n == Len(s) - p + 1
<1>1. /\ f \in Seq(S) /\ Len(f) = n /\ \A i \in 1..n : f[i] = s[p + i - 1]
      /\ n \in Nat /\ n = Len(s) - p + 1 /\ Len(s) \in Nat /\ Len(t) \in Nat
  BY FromType
<1>2. /\ c \in Seq(S) /\ Len(c) = Len(s) + Len(t) /\ \A i \in 1..Len(s) : c[i] = s[i]
      /\ \A i \in (Len(s) + 1)..(Len(s) + Len(t)) : c[i] = t[i - Len(s)]
  BY CatType
<1> HIDE DEF f, c, n
<1>3. /\ g \in Seq(S) /\ Len(g) = Len(c) - p + 1 /\ \A i \in 1..(Len(c) - p + 1) : g[i] = c[p + i - 1]
  <2>1. c \in Seq(S) /\ p \in 1..(Len(c) + 1)
    BY <1>1, <1>2
  <2> QED BY ONLY <2>1, FromType
<1>4. /\ h \in Seq(S) /\ Len(h) = n + Len(t) /\ \A i \in 1..n : h[i] = f[i]
      /\ \A i \in (n + 1)..(n + Len(t)) : h[i] = t[i - n]
  <2>1. /\ h \in Seq(S) /\ Len(h) = Len(f) + Len(t) /\ \A i \in 1..Len(f) : h[i] = f[i]
        /\ \A i \in (Len(f) + 1)..(Len(f) + Len(t)) : h[i] = t[i - Len(f)]
    <3>1. f \in Seq(S)
      BY <1>1
    <3>2. h \in Seq(S) /\ IsCat(h, f, t)
      BY <3>1, Catenated
    <3> HIDE DEF h
    <3> QED BY <3>2 DEF IsCat
  <2> HIDE DEF h
  <2> QED BY <2>1, <1>1
<1> HIDE DEF g, h
<1>5. Len(g) = n + Len(t)
  BY <1>1, <1>2, <1>3
<1>6. ASSUME NEW i \in 1..Len(h) PROVE h[i] = g[i]
  <2>1. g[i] = c[p + i - 1]
    BY <1>1, <1>2, <1>3, <1>4, <1>6
  <2>2. CASE i <= n
    <3>1. i \in 1..n /\ p + i - 1 \in 1..Len(s)
      BY <1>1, <2>2
    <3> QED BY <3>1, <2>1, <1>1, <1>2, <1>4
  <2>3. CASE i > n
    <3> DEFINE j == p + i - 1
    <3>1. i \in (n + 1)..(n + Len(t)) /\ j \in (Len(s) + 1)..(Len(s) + Len(t))
          /\ j - Len(s) = i - n
      BY <1>1, <1>4, <2>3
    <3>2. g[i] = c[j]
      BY <2>1
    <3> HIDE DEF j
    <3>3. c[j] = t[j - Len(s)] /\ h[i] = t[i - n]
      BY <3>1, <1>2, <1>4
    <3> QED BY <3>1, <3>2, <3>3
  <2> QED BY <2>2, <2>3, <1>1
<1>7. h = g
  BY <1>3, <1>4, <1>5, <1>6, SameSeq
<1> QED BY <1>7 DEF f, g, h, c

LEMMA SubFrom ==
  ASSUME NEW S, NEW s \in Seq(S), NEW d \in 0..Len(s),
         NEW a \in Nat \ {0}, NEW b \in Int, a <= b + 1, d + b <= Len(s)
  PROVE  SubSeq(From(s, d + 1), a, b) = SubSeq(s, d + a, d + b)
<1> DEFINE f == From(s, d + 1)  x == SubSeq(f, a, b)  y == SubSeq(s, d + a, d + b)
<1>1. /\ f \in Seq(S) /\ Len(f) = Len(s) - d /\ \A i \in 1..(Len(s) - d) : f[i] = s[d + i]
      /\ Len(s) \in Nat
  BY FromType, d + 1 \in 1..(Len(s) + 1)
<1> HIDE DEF f
<1>2. /\ x \in Seq(S) /\ Len(x) = b - a + 1 /\ \A i \in 1..(b - a + 1) : x[i] = f[a + i - 1]
  <2>1. a \in 1..(Len(f) + 1) /\ b <= Len(f)
    BY <1>1
  <2> QED BY <2>1, <1>1, SubType
<1>3. /\ y \in Seq(S) /\ Len(y) = b - a + 1 /\ \A i \in 1..(b - a + 1) : y[i] = s[d + a + i - 1]
  <2>1. d + a \in 1..(Len(s) + 1) /\ d + b \in Int /\ d + a <= d + b + 1 /\ d + b - (d + a) + 1 = b - a + 1
    BY <1>1
  <2>2. \A i \in 1..(b - a + 1) : SubSeq(s, d + a, d + b)[i] = s[(d + a) + i - 1]
    BY <2>1, SubType
  <2> QED BY <2>1, <2>2, SubType
<1> HIDE DEF x, y
<1>4. ASSUME NEW i \in 1..Len(x) PROVE x[i] = y[i]
  <2>1. a + i - 1 \in 1..(Len(s) - d) /\ d + (a + i - 1) = d + a + i - 1 /\ i \in 1..(b - a + 1)
    BY <1>1, <1>2
  <2> QED BY <2>1, <1>1, <1>2, <1>3
<1> QED BY <1>2, <1>3, <1>4, SameSeq DEF x, y, f

LEMMA FromFrom ==
  ASSUME NEW S, NEW s \in Seq(S), NEW d \in 0..Len(s), NEW p \in 1..(Len(s) - d + 1)
  PROVE  From(From(s, d + 1), p) = From(s, d + p)
<1>1. Len(s) \in Nat /\ d + 1 \in 1..(Len(s) + 1) /\ Len(s) - (d + 1) + 1 = Len(s) - d
  OBVIOUS
<1>2. Len(From(s, d + 1)) = Len(s) - d
  BY <1>1, FromType
<1> DEFINE e == Len(s) - d
<1>3. e \in Int /\ p \in Nat \ {0} /\ p <= e + 1 /\ d + e <= Len(s) /\ d + e = Len(s)
  BY <1>1
<1> HIDE DEF e
<1>4. SubSeq(From(s, d + 1), p, e) = SubSeq(s, d + p, d + e)
  BY <1>3, SubFrom
<1>5. SubSeq(From(s, d + 1), p, Len(From(s, d + 1))) = SubSeq(s, d + p, Len(s))
  BY <1>2, <1>3, <1>4 DEF e
<1> QED BY <1>5 DEF From

-----------------------------------------------------------------------------
(* Frames at places of a stream.                                           *)

IsSyncAt(bytes, p) == SubSeq(bytes, p, p + 1) = Sync

Whole == {frame \in Seq(Byte) : Len(frame) = FrameSize}

LEMMA FrameNeeds ==
  ASSUME NEW bytes, NEW p \in Int
  PROVE  IsFrameAt(bytes, p) => IsSyncAt(bytes, p) /\ p + FrameSize - 1 <= Len(bytes)
  BY DEF IsFrameAt, IsSyncAt

LEMMA FrameType ==
  ASSUME NEW bytes \in Seq(Byte), NEW p \in 1..Len(bytes), p + FrameSize - 1 <= Len(bytes)
  PROVE  FrameAt(bytes, p) \in Whole
<1>1. p \in 1..(Len(bytes) + 1) /\ p + FrameSize - 1 \in Int /\ p <= (p + FrameSize - 1) + 1
      /\ (p + FrameSize - 1) - p + 1 = FrameSize
  BY Constants
<1> QED BY <1>1, SubType DEF FrameAt, Whole

\* When bytes are gone from the front, the same is found further to the front.
LEMMA ShiftSync ==
  ASSUME NEW s \in Seq(Byte), NEW d \in 0..Len(s), NEW p \in Nat \ {0}, d + p < Len(s)
  PROVE  IsSyncAt(From(s, d + 1), p) <=> IsSyncAt(s, d + p)
<1>1. p + 1 \in Int /\ p <= (p + 1) + 1 /\ d + (p + 1) <= Len(s) /\ d + (p + 1) = (d + p) + 1
  OBVIOUS
<1>2. SubSeq(From(s, d + 1), p, p + 1) = SubSeq(s, d + p, d + (p + 1))
  BY <1>1, SubFrom
<1> QED BY <1>1, <1>2 DEF IsSyncAt

LEMMA ShiftFrame ==
  ASSUME NEW s \in Seq(Byte), NEW d \in 0..Len(s), NEW p \in Nat \ {0},
         d + p + FrameSize - 1 <= Len(s)
  PROVE  /\ IsFrameAt(From(s, d + 1), p) <=> IsFrameAt(s, d + p)
         /\ FrameAt(From(s, d + 1), p) = FrameAt(s, d + p)
<1> DEFINE f == From(s, d + 1)  e == p + FrameSize - 1
<1>1. /\ f \in Seq(Byte) /\ Len(f) = Len(s) - d /\ Len(s) \in Nat
      /\ \A i \in 1..(Len(s) - d) : f[i] = s[d + i]
  <2> DEFINE c == d + 1
  <2>1. c \in 1..(Len(s) + 1) /\ Len(s) - c + 1 = Len(s) - d /\ Len(s) \in Nat
        /\ \A i \in Int : c + i - 1 = d + i
    OBVIOUS
  <2>2. /\ f \in Seq(Byte) /\ Len(f) = Len(s) - c + 1
        /\ \A i \in 1..(Len(s) - c + 1) : f[i] = s[c + i - 1]
    <3> HIDE DEF c
    <3> QED BY <2>1, FromType DEF f, c
  <2> HIDE DEF c, f
  <2>3. \A i \in 1..(Len(s) - d) : f[i] = s[d + i]
    <3> SUFFICES ASSUME NEW i \in 1..(Len(s) - d) PROVE f[i] = s[d + i]
      OBVIOUS
    <3>1. i \in Int /\ i \in 1..(Len(s) - c + 1)
      BY <2>1
    <3>2. c + i - 1 = d + i
      BY <2>1, <3>1
    <3>3. f[i] = s[c + i - 1]
      BY <2>2, <3>1
    <3> QED BY <3>2, <3>3
  <2> QED BY <2>1, <2>2, <2>3
<1>2. /\ e \in Int /\ e - 1 \in Int /\ e \in Nat /\ p <= e /\ p <= (e - 1) + 1 /\ p <= e + 1
      /\ d + e <= Len(s) /\ d + (e - 1) <= Len(s) /\ e <= Len(s) - d
      /\ d + e = d + p + FrameSize - 1 /\ d + (e - 1) = d + p + FrameSize - 2
      /\ e - 1 = p + FrameSize - 2 /\ d + p < Len(s) /\ e >= 1
  BY Constants
<1> HIDE DEF e
<1>3. SubSeq(f, p, e) = SubSeq(s, d + p, d + e) /\ SubSeq(f, p, e - 1) = SubSeq(s, d + p, d + (e - 1))
  <2>1. /\ p \in Nat \ {0} /\ d \in 0..Len(s) /\ s \in Seq(Byte)
        /\ e \in Int /\ p <= e + 1 /\ d + e <= Len(s)
    BY <1>2
  <2>2. SubSeq(From(s, d + 1), p, e) = SubSeq(s, d + p, d + e)
    BY ONLY <2>1, SubFrom
  <2> DEFINE k == e - 1
  <2>3. k \in Int /\ p <= k + 1 /\ d + k <= Len(s)
    BY <1>2
  <2> HIDE DEF k
  <2>4. SubSeq(From(s, d + 1), p, k) = SubSeq(s, d + p, d + k)
    BY ONLY <2>1, <2>3, SubFrom
  <2> QED BY <2>2, <2>4 DEF f, k
<1>4. IsSyncAt(f, p) <=> IsSyncAt(s, d + p)
  BY <1>2, ShiftSync DEF f
<1>5. f[e] = s[d + e]
  BY <1>1, <1>2
<1> HIDE DEF f
<1>6. FrameAt(f, p) = FrameAt(s, d + p)
  BY <1>2, <1>3 DEF FrameAt, e
<1>7. IsFrameAt(f, p) <=> IsSyncAt(f, p) /\ Checksum(SubSeq(f, p, e - 1)) = f[e]
  BY <1>1, <1>2 DEF IsFrameAt, IsSyncAt, e
<1>8. IsFrameAt(s, d + p) <=> IsSyncAt(s, d + p) /\ Checksum(SubSeq(s, d + p, d + (e - 1))) = s[d + e]
  BY <1>1, <1>2 DEF IsFrameAt, IsSyncAt, e
<1> QED BY <1>3, <1>4, <1>5, <1>6, <1>7, <1>8 DEF f

-----------------------------------------------------------------------------
(* AllFrames: the stream at once, byte by byte.                            *)

Looked == [frames : Seq(Whole), behind : Nat]

First == [frames |-> << >>, behind |-> 1]

Look(before, stream, p) ==
  IF p >= before.behind /\ IsFrameAt(stream, p)
    THEN [frames |-> Append(before.frames, FrameAt(stream, p)), behind |-> p + FrameSize]
    ELSE before

Looks(u, stream) == /\ u \in [0..Len(stream) -> Looked] /\ u[0] = First
                    /\ \A p \in 1..Len(stream) : u[p] = Look(u[p - 1], stream, p)

LEMMA LookType ==
  ASSUME NEW stream \in Seq(Byte), NEW p \in 1..Len(stream), NEW before \in Looked
  PROVE  Look(before, stream, p) \in Looked
<1>1. CASE p >= before.behind /\ IsFrameAt(stream, p)
  <2>1. FrameAt(stream, p) \in Whole /\ p + FrameSize \in Nat
    BY <1>1, FrameType, FrameNeeds, Constants
  <2>2. Append(before.frames, FrameAt(stream, p)) \in Seq(Whole)
    BY <2>1 DEF Looked
  <2> QED BY <1>1, <2>1, <2>2 DEF Look, Looked
<1>2. CASE ~(p >= before.behind /\ IsFrameAt(stream, p))
  BY <1>2 DEF Look
<1> QED BY <1>1, <1>2

LEMMA AllFramesIs ==
  ASSUME NEW stream \in Seq(Byte)
  PROVE  \E u : Looks(u, stream) /\ AllFrames(stream) = u[Len(stream)]
<1> DEFINE n == Len(stream)
           Rule(g) == g = [p \in 0..n |->
                             LET before == g[p - 1]
                             IN  IF p = 0 THEN [frames |-> << >>, behind |-> 1]
                                 ELSE IF p >= before.behind /\ IsFrameAt(stream, p)
                                   THEN [frames |-> Append(before.frames, FrameAt(stream, p)),
                                         behind |-> p + FrameSize]
                                 ELSE before]
           g == CHOOSE h : Rule(h)
           step == [bp \in Looked \X (1..n) |-> Look(bp[1], stream, bp[2])]
<1>1. AllFrames(stream) = g[n]
  BY DEF AllFrames
<1>2. n \in Nat /\ First \in Looked
  BY DEF First, Looked
<1>3. IsStep(step, Looked, n)
  BY LookType DEF IsStep
<1>4. PICK u : u \in [0..n -> Looked] /\ u[0] = First /\ \A i \in 1..n : u[i] = step[<<u[i - 1], i>>]
  <2> HIDE DEF step, n
  <2>1. PICK u : Ascends(u, Looked, n, First, step)
    BY <1>2, <1>3, Ascent
  <2> QED BY <2>1 DEF Ascends
<1>5. ASSUME NEW i \in 1..n PROVE u[i] = Look(u[i - 1], stream, i)
  <2>1. i - 1 \in 0..n /\ u[i - 1] \in Looked
    BY <1>2, <1>4
  <2>2. step[<<u[i - 1], i>>] = Look(u[i - 1], stream, i)
    BY <2>1
  <2> QED BY <2>2, <1>4
<1>6. Rule(u)
  <2> DEFINE r == [p \in 0..n |->
                             LET before == u[p - 1]
                             IN  IF p = 0 THEN [frames |-> << >>, behind |-> 1]
                                 ELSE IF p >= before.behind /\ IsFrameAt(stream, p)
                                   THEN [frames |-> Append(before.frames, FrameAt(stream, p)),
                                         behind |-> p + FrameSize]
                                 ELSE before]
  <2>1. ASSUME NEW p \in 0..n PROVE u[p] = r[p]
    <3>1. CASE p = 0
      BY <3>1, <1>4 DEF First
    <3>2. CASE p \in 1..n
      BY <3>2, <1>5, p # 0 DEF Look
    <3> QED BY <3>1, <3>2, <1>2
  <2>2. u = [p \in 0..n |-> u[p]]
    BY <1>4
  <2> QED BY <2>1, <2>2
<1>7. Rule(g)
  BY <1>6
<1> HIDE DEF g
<1>8. /\ g[0] = First
      /\ \A p \in 1..n : g[p] = Look(g[p - 1], stream, p)
  <2>1. \A p \in 0..n : g[p] = LET before == g[p - 1]
                             IN  IF p = 0 THEN [frames |-> << >>, behind |-> 1]
                                 ELSE IF p >= before.behind /\ IsFrameAt(stream, p)
                                   THEN [frames |-> Append(before.frames, FrameAt(stream, p)),
                                         behind |-> p + FrameSize]
                                 ELSE before
    BY <1>7
  <2>2. g[0] = First
    <3>1. 0 \in 0..n
      BY <1>2
    <3>2. g[0] = [frames |-> << >>, behind |-> 1]
      BY <2>1, <3>1
    <3> QED BY <3>2 DEF First
  <2>3. ASSUME NEW p \in 1..n PROVE g[p] = Look(g[p - 1], stream, p)
    <3>1. p \in 0..n /\ p # 0
      BY <1>2
    <3> QED BY <3>1, <2>1 DEF Look
  <2> QED BY <2>2, <2>3
<1> HIDE DEF Rule
<1>9. \A i \in 1..n : g[i - 1] = u[i - 1] => g[i] = u[i]
  BY <1>5, <1>8
<1>10. g[0] = u[0]
  BY <1>8, <1>4
<1>11. \A i \in 0..n : g[i] = u[i]
  <2> HIDE DEF n
  <2>1. Follows(g, u, n)
    BY <1>9, <1>10 DEF Follows
  <2> QED BY <1>2, <2>1, Alike
<1>12. g[n] = u[n]
  BY <1>2, <1>11
<1>13. Looks(u, stream)
  BY <1>4, <1>5 DEF Looks
<1> QED BY <1>1, <1>12, <1>13

\* Where no frame begins nothing changes.
LEMMA Quiet ==
  ASSUME NEW stream \in Seq(Byte), NEW u, Looks(u, stream),
         NEW a \in 0..Len(stream), NEW b \in a..Len(stream),
         \A p \in (a + 1)..b : ~(p >= u[a].behind /\ IsFrameAt(stream, p))
  PROVE  u[b] = u[a]
<1> DEFINE Still == {k \in 0..(b - a) : u[a + k] = u[a]}
<1>1. 0 \in Still
  OBVIOUS
<1>2. ASSUME NEW k \in 0..(b - a), k \in Still, k < b - a PROVE k + 1 \in Still
  <2>1. /\ a + (k + 1) \in 1..Len(stream) /\ a + (k + 1) \in (a + 1)..b
        /\ (a + (k + 1)) - 1 = a + k /\ k + 1 \in 0..(b - a)
    BY <1>2
  <2>2. u[a + (k + 1)] = Look(u[a + k], stream, a + (k + 1))
    BY <2>1 DEF Looks
  <2>3. u[a + k] = u[a]
    BY <1>2
  <2>4. u[a + (k + 1)] = u[a]
    BY <2>1, <2>2, <2>3 DEF Look
  <2> QED BY <2>1, <2>4
<1> HIDE DEF Still
<1>3. b - a \in Nat /\ a + (b - a) = b
  OBVIOUS
<1>4. 0..(b - a) \subseteq Still
  BY <1>1, <1>2, <1>3, Climb
<1>5. b - a \in Still
  BY <1>3, <1>4
<1> QED BY <1>3, <1>5 DEF Still

-----------------------------------------------------------------------------
(* Scan: what TelemetryDecoder.feed finds in its buffer.                   *)

FoundType == [frames : Seq(Whole), held : Seq(Byte)]

Syncs(buffer, p) == {q \in p..(Len(buffer) - 1) : IsSyncAt(buffer, q)}

LEMMA FirstSync ==
  ASSUME NEW buffer \in Seq(Byte), NEW p \in 1..(Len(buffer) + 1), Syncs(buffer, p) # {}
  PROVE  /\ Min(Syncs(buffer, p)) \in p..(Len(buffer) - 1)
         /\ IsSyncAt(buffer, Min(Syncs(buffer, p)))
         /\ \A q \in p..(Min(Syncs(buffer, p)) - 1) : ~IsSyncAt(buffer, q)
<1> DEFINE S == Syncs(buffer, p)
<1>1. S \subseteq Nat /\ S # {}
  BY DEF Syncs
<1>2. \E n \in S : \A m \in S : n <= m
  BY <1>1, Least
<1>3. Min(S) \in S /\ \A m \in S : Min(S) <= m
  BY <1>2 DEF Min
<1> DEFINE s == Min(S)
<1>4. s \in p..(Len(buffer) - 1) /\ IsSyncAt(buffer, s)
  BY <1>3 DEF Syncs
<1> HIDE DEF s
<1>5. ASSUME NEW q \in p..(s - 1), IsSyncAt(buffer, q) PROVE FALSE
  <2>1. q \in S /\ q < s
    BY <1>4, <1>5 DEF Syncs
  <2>2. s <= q
    BY <1>3, <2>1 DEF s
  <2> QED BY <1>4, <2>1, <2>2
<1> QED BY <1>4, <1>5 DEF s

\* The three ends of a turn of the loop, and how it goes on.
Ends(buffer, p) ==
  Syncs(buffer, p) = {} \/ Min(Syncs(buffer, p)) + FrameSize - 1 > Len(buffer)

Held(buffer, p) == IF Syncs(buffer, p) = {} THEN Rest(buffer, p)
                                            ELSE From(buffer, Min(Syncs(buffer, p)))

Onward(buffer, p) == LET s == Min(Syncs(buffer, p))
                     IN  IF IsFrameAt(buffer, s) THEN s + FrameSize ELSE s + 1

With(buffer, p, rest) ==
  LET s == Min(Syncs(buffer, p))
  IN  IF IsFrameAt(buffer, s)
        THEN [frames |-> <<FrameAt(buffer, s)>> \o rest.frames, held |-> rest.held]
        ELSE rest

Scans(f, buffer) ==
  \A p \in 1..(Len(buffer) + 1) :
    /\ f[p] \in FoundType
    /\ f[p] = IF Ends(buffer, p) THEN [frames |-> << >>, held |-> Held(buffer, p)]
                                 ELSE With(buffer, p, f[Onward(buffer, p)])

LEMMA TwoMax == ASSUME NEW a \in Int, NEW b \in Int
                PROVE  /\ Max({a, b}) \in Int
                       /\ Max({a, b}) >= a
                       /\ Max({a, b}) >= b
                       /\ (Max({a, b}) = a \/ Max({a, b}) = b)
<1>1. \E x \in {a, b} : \A y \in {a, b} : x >= y
  OBVIOUS
<1>2. Max({a, b}) \in {a, b} /\ \A y \in {a, b} : Max({a, b}) >= y
  BY <1>1 DEF Max
<1> QED BY <1>2

LEMMA HeldType ==
  ASSUME NEW buffer \in Seq(Byte), NEW p \in 1..(Len(buffer) + 1)
  PROVE  Held(buffer, p) \in Seq(Byte)
<1>1. CASE Syncs(buffer, p) = {}
  <2>1. Max({p, Len(buffer)}) \in 1..(Len(buffer) + 1)
    <3> DEFINE l == Len(buffer)
    <3>1. p \in Int /\ l \in Int /\ p >= 1 /\ p <= l + 1
      OBVIOUS
    <3> HIDE DEF l
    <3>2. /\ Max({p, l}) \in Int /\ Max({p, l}) >= p
          /\ (Max({p, l}) = p \/ Max({p, l}) = l)
      BY <3>1, TwoMax
    <3>3. Max({p, l}) \in 1..(l + 1)
      BY <3>1, <3>2
    <3> QED BY <3>3 DEF l
  <2> QED BY <1>1, <2>1, FromType DEF Held, Rest
<1>2. CASE Syncs(buffer, p) # {}
  <2>1. Min(Syncs(buffer, p)) \in 1..(Len(buffer) + 1)
    BY <1>2, FirstSync
  <2> QED BY <1>2, <2>1, FromType DEF Held
<1> QED BY <1>1, <1>2

LEMMA OnwardType ==
  ASSUME NEW buffer \in Seq(Byte), NEW p \in 1..(Len(buffer) + 1), ~Ends(buffer, p)
  PROVE  Onward(buffer, p) \in (p + 1)..(Len(buffer) + 1)
<1> DEFINE s == Min(Syncs(buffer, p))
<1>1. s \in p..(Len(buffer) - 1) /\ s + FrameSize - 1 <= Len(buffer)
  <2>1. Syncs(buffer, p) # {} /\ ~(s + FrameSize - 1 > Len(buffer))
    BY DEF Ends
  <2>2. s \in p..(Len(buffer) - 1)
    BY <2>1, FirstSync
  <2> HIDE DEF s
  <2>3. s \in Int /\ FrameSize \in Int /\ Len(buffer) \in Int
    BY <2>2, Constants
  <2> QED BY <2>1, <2>2, <2>3
<1>2. Onward(buffer, p) = s + FrameSize \/ Onward(buffer, p) = s + 1
  BY DEF Onward
<1> HIDE DEF s
<1>3. s \in Nat /\ p \in Nat /\ p <= s /\ Len(buffer) \in Nat /\ FrameSize \in Nat /\ FrameSize >= 4
  BY <1>1, Constants
<1> QED BY <1>1, <1>2, <1>3

LEMMA WithType ==
  ASSUME NEW buffer \in Seq(Byte), NEW p \in 1..(Len(buffer) + 1), ~Ends(buffer, p),
         NEW rest \in FoundType
  PROVE  With(buffer, p, rest) \in FoundType
<1> DEFINE s == Min(Syncs(buffer, p))
<1>1. s \in 1..Len(buffer) /\ s + FrameSize - 1 <= Len(buffer)
  BY FirstSync, Constants, SMTT(30) DEF Ends
<1> HIDE DEF s
<1>2. FrameAt(buffer, s) \in Whole
  BY <1>1, FrameType
<1>3. rest.frames \in Seq(Whole) /\ rest.held \in Seq(Byte)
  BY DEF FoundType
<1>4. <<FrameAt(buffer, s)>> \o rest.frames \in Seq(Whole)
  BY <1>2, <1>3
<1> QED BY <1>3, <1>4 DEF With, FoundType, s

LEMMA ScanIs ==
  ASSUME NEW buffer \in Seq(Byte)
  PROVE  \E f : Scans(f, buffer) /\ Scan(buffer) = f[1]
<1> DEFINE n == Len(buffer) + 1
           Rule(g) == g = [p \in 1..(Len(buffer) + 1) |->
             LET Starts == {q \in p..(Len(buffer) - 1) : SubSeq(buffer, q, q + 1) = Sync}
                 s == Min(Starts)
                 rest == g[s + FrameSize]
             IN  IF Starts = {} THEN [frames |-> << >>, held |-> Rest(buffer, p)]
                 ELSE IF s + FrameSize - 1 > Len(buffer)
                   THEN [frames |-> << >>, held |-> From(buffer, s)]
                 ELSE IF ~IsFrameAt(buffer, s) THEN g[s + 1]
                 ELSE [frames |-> <<FrameAt(buffer, s)>> \o rest.frames, held |-> rest.held]]
           g == CHOOSE h : Rule(h)
           Turned(u, p) == IF Ends(buffer, p) THEN [frames |-> << >>, held |-> Held(buffer, p)]
                                             ELSE With(buffer, p, u[Onward(buffer, p)])
           Stops == {p \in 1..n : Ends(buffer, p)}
           end == [p \in 1..n |-> [frames |-> << >>, held |-> Held(buffer, p)]]
           next == [p \in 1..n |-> Onward(buffer, p)]
           comb == [px \in (1..n) \X FoundType |-> IF Ends(buffer, px[1]) THEN px[2]
                                                   ELSE With(buffer, px[1], px[2])]
<1>1. Scan(buffer) = g[1]
  BY DEF Scan
<1>2. n \in Nat /\ n = Len(buffer) + 1 /\ 1 \in 1..n /\ 1..n = 1..(Len(buffer) + 1)
  OBVIOUS
<1>3. FoundType # {}
  <2>1. [frames |-> << >>, held |-> << >>] \in FoundType
    BY DEF FoundType
  <2> QED BY <2>1
<1> HIDE DEF n
<1>4. Turns(FoundType, n, Stops, end, next, comb)
  <2>1. end \in [1..n -> FoundType]
    <3> SUFFICES ASSUME NEW p \in 1..n PROVE [frames |-> << >>, held |-> Held(buffer, p)] \in FoundType
      OBVIOUS
    <3>1. Held(buffer, p) \in Seq(Byte) /\ << >> \in Seq(Whole)
      BY <1>2, HeldType
    <3> QED BY <3>1 DEF FoundType
  <2>2. comb \in [(1..n) \X FoundType -> FoundType]
    BY <1>2, WithType
  <2>3. ASSUME NEW p \in 1..n, p \notin Stops PROVE next[p] \in (p + 1)..n
    BY <1>2, <2>3, OnwardType
  <2> QED BY <2>1, <2>2, <2>3 DEF Turns
<1>5. PICK u : Descends(u, FoundType, n, Stops, end, next, comb)
  <2> HIDE DEF Stops, end, next, comb
  <2> QED BY <1>2, <1>3, <1>4, Descent
<1>6. u \in [1..n -> FoundType] /\ \A p \in 1..n : u[p] = Turned(u, p)
  <2>1. u \in [1..n -> FoundType]
    BY <1>5 DEF Descends
  <2>2. ASSUME NEW p \in 1..n PROVE u[p] = Turned(u, p)
    <3>1. u[p] = IF p \in Stops THEN end[p] ELSE comb[<<p, u[next[p]]>>]
      BY <1>5 DEF Descends
    <3>2. CASE Ends(buffer, p)
      BY <3>1, <3>2
    <3>3. CASE ~Ends(buffer, p)
      <4>1. next[p] = Onward(buffer, p) /\ Onward(buffer, p) \in 1..n
        BY <1>2, <3>3, OnwardType
      <4>2. u[Onward(buffer, p)] \in FoundType
        BY <4>1, <2>1
      <4>3. comb[<<p, u[Onward(buffer, p)]>>] = With(buffer, p, u[Onward(buffer, p)])
        BY <4>2, <3>3
      <4>4. p \notin Stops
        BY <3>3
      <4> HIDE DEF comb, next, Stops, end
      <4> QED BY <3>1, <3>3, <4>1, <4>3, <4>4
    <3> QED BY <3>2, <3>3
  <2> QED BY <2>1, <2>2
<1> HIDE DEF Stops, end, next, comb
<1>7. ASSUME NEW v, NEW p \in 1..n
      PROVE  Turned(v, p) =
             LET Starts == {q \in p..(Len(buffer) - 1) : SubSeq(buffer, q, q + 1) = Sync}
                 s == Min(Starts)
                 rest == v[s + FrameSize]
             IN  IF Starts = {} THEN [frames |-> << >>, held |-> Rest(buffer, p)]
                 ELSE IF s + FrameSize - 1 > Len(buffer)
                   THEN [frames |-> << >>, held |-> From(buffer, s)]
                 ELSE IF ~IsFrameAt(buffer, s) THEN v[s + 1]
                 ELSE [frames |-> <<FrameAt(buffer, s)>> \o rest.frames, held |-> rest.held]
  <2>1. {q \in p..(Len(buffer) - 1) : SubSeq(buffer, q, q + 1) = Sync} = Syncs(buffer, p)
    BY DEF Syncs, IsSyncAt
  <2> DEFINE S == Syncs(buffer, p)
             s == Min(S)
  <2>2. Turned(v, p) = IF S = {} THEN [frames |-> << >>, held |-> Rest(buffer, p)]
                       ELSE IF s + FrameSize - 1 > Len(buffer)
                         THEN [frames |-> << >>, held |-> From(buffer, s)]
                       ELSE IF ~IsFrameAt(buffer, s) THEN v[s + 1]
                       ELSE [frames |-> <<FrameAt(buffer, s)>> \o v[s + FrameSize].frames,
                             held |-> v[s + FrameSize].held]
    <3>1. CASE S = {}
      BY <3>1 DEF Ends, Held
    <3>2. CASE S # {} /\ s + FrameSize - 1 > Len(buffer)
      BY <3>2 DEF Ends, Held
    <3>3. CASE S # {} /\ ~(s + FrameSize - 1 > Len(buffer)) /\ ~IsFrameAt(buffer, s)
      BY <3>3 DEF Ends, With, Onward
    <3>4. CASE S # {} /\ ~(s + FrameSize - 1 > Len(buffer)) /\ IsFrameAt(buffer, s)
      BY <3>4 DEF Ends, With, Onward
    <3> QED BY <3>1, <3>2, <3>3, <3>4
  <2> HIDE DEF Turned
  <2> QED BY <2>1, <2>2
<1>8. Rule(u)
  <2> DEFINE r == [p \in 1..(Len(buffer) + 1) |->
             LET Starts == {q \in p..(Len(buffer) - 1) : SubSeq(buffer, q, q + 1) = Sync}
                 s == Min(Starts)
                 rest == u[s + FrameSize]
             IN  IF Starts = {} THEN [frames |-> << >>, held |-> Rest(buffer, p)]
                 ELSE IF s + FrameSize - 1 > Len(buffer)
                   THEN [frames |-> << >>, held |-> From(buffer, s)]
                 ELSE IF ~IsFrameAt(buffer, s) THEN u[s + 1]
                 ELSE [frames |-> <<FrameAt(buffer, s)>> \o rest.frames, held |-> rest.held]]
  <2>1. ASSUME NEW p \in 1..n PROVE u[p] = r[p]
    <3>1. p \in 1..(Len(buffer) + 1) /\ u[p] = Turned(u, p)
      BY <1>2, <1>6
    <3> HIDE DEF Turned
    <3> QED BY <3>1, <1>7
  <2>2. u = [p \in 1..(Len(buffer) + 1) |-> u[p]] /\ r = [p \in 1..(Len(buffer) + 1) |-> r[p]]
    BY <1>2, <1>6
  <2> HIDE DEF r
  <2>3. u = r
    BY <1>2, <2>1, <2>2
  <2> QED BY <2>3 DEF r
<1>9. Rule(g)
  BY <1>8
<1> HIDE DEF g
<1>10. ASSUME NEW p \in 1..n PROVE g[p] = Turned(g, p)
  <2>1. p \in 1..(Len(buffer) + 1)
    BY <1>2
  <2>2. g[p] =
             LET Starts == {q \in p..(Len(buffer) - 1) : SubSeq(buffer, q, q + 1) = Sync}
                 s == Min(Starts)
                 rest == g[s + FrameSize]
             IN  IF Starts = {} THEN [frames |-> << >>, held |-> Rest(buffer, p)]
                 ELSE IF s + FrameSize - 1 > Len(buffer)
                   THEN [frames |-> << >>, held |-> From(buffer, s)]
                 ELSE IF ~IsFrameAt(buffer, s) THEN g[s + 1]
                 ELSE [frames |-> <<FrameAt(buffer, s)>> \o rest.frames, held |-> rest.held]
    BY <1>9, <2>1
  <2> HIDE DEF Rule, Turned
  <2> QED BY <2>2, <1>7
<1> HIDE DEF Rule
\* The two agree from the top down.
<1> DEFINE Same == {k \in 0..(n - 1) : \A p \in (n - k)..n : g[p] = u[p]}
<1>11. ASSUME NEW p \in 1..n, \A q \in (p + 1)..n : g[q] = u[q] PROVE g[p] = u[p]
  <2>1. CASE Ends(buffer, p)
    BY <2>1, <1>6, <1>10
  <2>2. CASE ~Ends(buffer, p)
    <3>1. g[Onward(buffer, p)] = u[Onward(buffer, p)]
      BY <1>2, <1>11, <2>2, OnwardType
    <3> QED BY <3>1, <2>2, <1>6, <1>10
  <2> QED BY <2>1, <2>2
<1> HIDE DEF Turned
<1>12. 0 \in Same
  <2>1. ASSUME NEW p \in (n - 0)..n PROVE g[p] = u[p]
    <3>1. p \in 1..n /\ \A q \in (p + 1)..n : FALSE
      BY <1>2
    <3> QED BY <3>1, <1>11
  <2> QED BY <2>1, <1>2
<1>13. ASSUME NEW k \in 0..(n - 1), k \in Same, k < n - 1 PROVE k + 1 \in Same
  <2>1. ASSUME NEW p \in (n - (k + 1))..n PROVE g[p] = u[p]
    <3>1. CASE p \in (n - k)..n
      BY <3>1, <1>13
    <3>2. CASE p = n - (k + 1)
      <4>1. p \in 1..n /\ p + 1 = n - k
        BY <3>2, <1>2, <1>13
      <4>2. \A q \in (p + 1)..n : g[q] = u[q]
        BY <4>1, <1>13
      <4> QED BY <4>1, <4>2, <1>11
    <3> QED BY <3>1, <3>2, <1>2, <1>13
  <2> QED BY <2>1, <1>2, <1>13
<1>14. g[1] = u[1]
  <2>1. n - 1 \in Nat /\ n - (n - 1) = 1
    BY <1>2
  <2> HIDE DEF Same
  <2>2. 0..(n - 1) \subseteq Same
    BY <2>1, <1>12, <1>13, Climb
  <2>3. n - 1 \in Same
    BY <2>1, <2>2
  <2> QED BY <2>1, <2>3, <1>2 DEF Same
<1>15. Scans(u, buffer)
  BY <1>2, <1>6 DEF Scans, Turned
<1> QED BY <1>1, <1>14, <1>15
-----------------------------------------------------------------------------
(* The decoder finds in a buffer what is in the stream.                    *)

\* From a to b, what is left of a stream may not be the beginning of a frame
\* that more bytes would complete.
NoStart(stream, a, b) ==
  \A q \in a..b : q >= Len(stream) - FrameSize + 2 => q < Len(stream) /\ ~IsSyncAt(stream, q)

\* The search of the buffer and that of the stream are at the same place: p - 1
\* bytes of the buffer, d + p - 1 of the stream are behind them.
Ready(u, stream, d, p) ==
  u[d + p - 1].behind <= d + p /\ NoStart(stream, u[d + p - 1].behind, d + p - 1)

\* What they find from there on is the same, and what is held will do.
Leaves(u, stream, d, r, kept) ==
  /\ kept = From(stream, d + r) /\ Len(stream) - (d + r) + 1 < FrameSize
  /\ u[Len(stream)].behind <= d + r
  /\ NoStart(stream, u[Len(stream)].behind, d + r - 1)

Done(u, f, stream, d, p) ==
  /\ u[Len(stream)].frames = u[d + p - 1].frames \o f[p].frames
  /\ \E r \in 1..(Len(stream) - d + 1) : Leaves(u, stream, d, r, f[p].held)

\* What a search of the buffer from p on knows of the stream.
LEMMA FromBuffer ==
  ASSUME NEW s \in Seq(Byte), NEW d \in 0..Len(s), NEW p \in 1..(Len(s) - d + 1)
  PROVE  LET b == From(s, d + 1)
             S == Syncs(b, p)
         IN /\ b \in Seq(Byte) /\ Len(b) = Len(s) - d
            /\ S = {} => \A q \in (d + p)..(Len(s) - 1) : ~IsSyncAt(s, q)
            /\ S # {} => /\ Min(S) \in p..(Len(b) - 1)
                         /\ \A q \in (d + p)..(d + Min(S) - 1) : ~IsSyncAt(s, q)
<1> DEFINE b == From(s, d + 1)  S == Syncs(b, p)
<1>1. b \in Seq(Byte) /\ Len(b) = Len(s) - d /\ Len(s) \in Nat
  BY FromType, d + 1 \in 1..(Len(s) + 1)
<1>2. p \in 1..(Len(b) + 1)
  BY <1>1
<1>3. ASSUME NEW q \in (d + p)..(Len(s) - 1), ~IsSyncAt(b, q - d) PROVE ~IsSyncAt(s, q)
  <2>1. q - d \in Nat \ {0} /\ d + (q - d) = q /\ d + (q - d) < Len(s)
    BY <1>1
  <2> QED BY <1>3, <2>1, ShiftSync
<1>4. ASSUME S = {}, NEW q \in (d + p)..(Len(s) - 1) PROVE ~IsSyncAt(s, q)
  <2>1. q - d \in p..(Len(b) - 1)
    BY <1>1
  <2>2. ~IsSyncAt(b, q - d)
    BY <2>1, <1>4 DEF Syncs
  <2> QED BY <2>2, <1>3
<1>5. ASSUME S # {}
      PROVE  Min(S) \in p..(Len(b) - 1) /\ \A q \in p..(Min(S) - 1) : ~IsSyncAt(b, q)
  BY <1>1, <1>2, <1>5, FirstSync
<1> DEFINE m == Min(S)
<1>6. ASSUME S # {}, NEW q \in (d + p)..(d + m - 1) PROVE ~IsSyncAt(s, q)
  <2>0. m \in p..(Len(b) - 1) /\ \A x \in p..(m - 1) : ~IsSyncAt(b, x)
    BY <1>5, <1>6
  <2> HIDE DEF m
  <2>1. q - d \in p..(m - 1) /\ q \in (d + p)..(Len(s) - 1)
    BY <1>1, <2>0
  <2>2. ~IsSyncAt(b, q - d)
    BY <2>0, <2>1
  <2> QED BY <2>1, <2>2, <1>3
<1> QED BY <1>1, <1>4, <1>5, <1>6
\* As long as no frame begins, the search of the stream gets on without change.
LEMMA GetsOn ==
  ASSUME NEW s \in Seq(Byte), NEW u, Looks(u, s), NEW a \in 0..Len(s), NEW e \in a..Len(s),
         \A q \in (a + 1)..e : q + FrameSize - 1 <= Len(s) => ~IsSyncAt(s, q)
  PROVE  u[e] = u[a]
<1>1. ASSUME NEW q \in (a + 1)..e PROVE ~IsFrameAt(s, q)
  <2>1. q \in Int
    OBVIOUS
  <2> QED BY <2>1, FrameNeeds
<1> QED BY <1>1, Quiet

\* Without a sync word but perhaps the first half of one.
LEMMA EndsEmpty ==
  ASSUME NEW s \in Seq(Byte), NEW d \in 0..Len(s), NEW p \in 1..(Len(s) - d + 1),
         NEW u, Looks(u, s), NEW f, Scans(f, From(s, d + 1)), Ready(u, s, d, p),
         Syncs(From(s, d + 1), p) = {}
  PROVE  Done(u, f, s, d, p)
<1> DEFINE b == From(s, d + 1)  n == Len(s)  l == n - d  r == Max({p, l})  now == u[d + p - 1]
<1> HIDE DEF r, now
<1>1. /\ b \in Seq(Byte) /\ Len(b) = l /\ n \in Nat /\ l \in Nat /\ l = n - d
      /\ d \in 0..n /\ p \in 1..(n - d + 1) /\ \A q \in (d + p)..(n - 1) : ~IsSyncAt(s, q)
  <2>1. b \in Seq(Byte) /\ Len(b) = l /\ \A q \in (d + p)..(n - 1) : ~IsSyncAt(s, q)
    BY FromBuffer
  <2>2. n \in Nat /\ l \in Nat /\ l = n - d /\ d \in 0..n /\ p \in 1..(n - d + 1)
    OBVIOUS
  <2> HIDE DEF b, l, n
  <2> QED BY <2>1, <2>2
<1>2. /\ r \in Int /\ r >= p /\ r >= l /\ (r = p \/ r = l)
  <2>1. p \in Int /\ l \in Int
    BY <1>1
  <2> HIDE DEF l
  <2> QED BY <2>1, TwoMax DEF r
<1>3. f[p] = [frames |-> << >>, held |-> Held(b, p)]
  <2>1. p \in 1..(Len(b) + 1)
    BY <1>1
  <2> QED BY <2>1 DEF Scans, Ends
<1>4. Held(b, p) = From(b, r)
  BY <1>1 DEF Held, Rest, r
<1>5. now.behind <= d + p /\ NoStart(s, now.behind, d + p - 1) /\ now \in Looked
  <2>1. d + p - 1 \in 0..n
    BY <1>1
  <2> QED BY <2>1 DEF Ready, Looks, now
<1>6. u[n] = now
  <2>1. d + p - 1 \in 0..n /\ n \in (d + p - 1)..n /\ (d + p - 1) + 1 = d + p
    BY <1>1
  <2>2. \A q \in (d + p)..n : q + FrameSize - 1 <= Len(s) => ~IsSyncAt(s, q)
    BY <1>1, Constants
  <2> QED BY <2>1, <2>2, GetsOn DEF now
<1> HIDE DEF b, l, n
<1>7. /\ r \in 1..(l + 1) /\ n - (d + r) + 1 < FrameSize /\ now.behind <= d + r
  <2>1. FrameSize \in Nat /\ FrameSize >= 4 /\ now.behind \in Nat
    BY <1>5, Constants DEF Looked
  <2> QED BY <2>1, <1>1, <1>2, <1>5
<1>8. From(b, r) = From(s, d + r)
  BY <1>1, <1>7, FromFrom DEF b, n, l
<1>9. NoStart(s, now.behind, d + r - 1)
  <2>1. ASSUME NEW q \in now.behind..(d + r - 1), q >= n - FrameSize + 2
        PROVE  q < n /\ ~IsSyncAt(s, q)
    <3>1. CASE q <= d + p - 1
      <4>1. q \in now.behind..(d + p - 1)
        BY <3>1, <1>1, <1>5, <1>7 DEF Looked
      <4> QED BY <4>1, <2>1, <1>5 DEF NoStart, n
    <3>2. CASE ~(q <= d + p - 1)
      <4>1. q \in (d + p)..(n - 1)
        BY <3>2, <1>1, <1>2, <1>5, <1>7 DEF Looked
      <4> QED BY <4>1, <1>1
    <3> QED BY <3>1, <3>2
  <2> QED BY <2>1 DEF NoStart, n
<1>10. Leaves(u, s, d, r, f[p].held)
  <2>1. f[p].held = From(s, d + r)
    BY <1>3, <1>4, <1>8
  <2> QED BY <2>1, <1>6, <1>7, <1>9 DEF Leaves, n
<1>11. u[n].frames = now.frames \o f[p].frames
  BY <1>3, <1>5, <1>6 DEF Looked
<1> QED BY <1>7, <1>10, <1>11, <1>1 DEF Done, n, now

\* With a sync word that has too few bytes behind it.
LEMMA EndsShort ==
  ASSUME NEW s \in Seq(Byte), NEW d \in 0..Len(s), NEW p \in 1..(Len(s) - d + 1),
         NEW u, Looks(u, s), NEW f, Scans(f, From(s, d + 1)), Ready(u, s, d, p),
         Syncs(From(s, d + 1), p) # {},
         Min(Syncs(From(s, d + 1), p)) + FrameSize - 1 > Len(s) - d
  PROVE  Done(u, f, s, d, p)
<1> DEFINE b == From(s, d + 1)  n == Len(s)  l == n - d  r == Min(Syncs(b, p))  now == u[d + p - 1]
<1>1. /\ b \in Seq(Byte) /\ Len(b) = l /\ n \in Nat /\ l \in Nat /\ l = n - d
      /\ r \in p..(l - 1) /\ \A q \in (d + p)..(d + r - 1) : ~IsSyncAt(s, q)
      /\ r + FrameSize - 1 > l
  BY FromBuffer
<1>3. f[p] = [frames |-> << >>, held |-> From(b, r)]
  <2>1. p \in 1..(Len(b) + 1)
    BY <1>1
  <2>2. Ends(b, p)
    BY <1>1 DEF Ends
  <2> QED BY <2>1, <2>2 DEF Scans, Held
<1>5. now.behind <= d + p /\ NoStart(s, now.behind, d + p - 1) /\ now \in Looked
  <2>1. d + p - 1 \in 0..n
    BY <1>1
  <2> QED BY <2>1 DEF Ready, Looks
<1> HIDE DEF r, b, l
<1>6. u[n] = now
  <2>1. d + p - 1 \in 0..n /\ n \in (d + p - 1)..n /\ (d + p - 1) + 1 = d + p
    BY <1>1
  <2>2. \A q \in (d + p)..n : q + FrameSize - 1 <= Len(s) => ~IsSyncAt(s, q)
    BY <1>1, Constants
  <2> QED BY <2>1, <2>2, GetsOn
<1> HIDE DEF now, n
<1>7. /\ r \in 1..(l + 1) /\ n - (d + r) + 1 < FrameSize /\ now.behind <= d + r
  BY <1>1, <1>5, Constants, SMTT(30) DEF Looked
<1>8. From(b, r) = From(s, d + r)
  BY <1>1, <1>7, FromFrom DEF b, n, l
<1>9. NoStart(s, now.behind, d + r - 1)
  <2>1. ASSUME NEW q \in now.behind..(d + r - 1), q >= n - FrameSize + 2
        PROVE  q < n /\ ~IsSyncAt(s, q)
    <3>1. CASE q <= d + p - 1
      <4>1. q \in now.behind..(d + p - 1)
        BY <3>1, <1>1, <1>5, <1>7 DEF Looked
      <4> QED BY <4>1, <2>1, <1>5 DEF NoStart, n
    <3>2. CASE ~(q <= d + p - 1)
      <4>1. q \in (d + p)..(d + r - 1) /\ q < n
        BY <3>2, <1>1, <1>5, <1>7 DEF Looked
      <4> QED BY <4>1, <1>1
    <3> QED BY <3>1, <3>2
  <2> QED BY <2>1 DEF NoStart, n
<1>10. Leaves(u, s, d, r, f[p].held)
  <2>1. f[p].held = From(s, d + r)
    BY <1>3, <1>8
  <2> QED BY <2>1, <1>6, <1>7, <1>9 DEF Leaves, n
<1>11. u[n].frames = now.frames \o f[p].frames
  BY <1>3, <1>5, <1>6 DEF Looked
<1> QED BY <1>7, <1>10, <1>11, <1>1 DEF Done, n, now

\* With a sync word and enough bytes: the search goes on behind the frame, or
\* behind the first byte of what is none.
LEMMA GoesOn ==
  ASSUME NEW s \in Seq(Byte), NEW d \in 0..Len(s), NEW p \in 1..(Len(s) - d + 1),
         NEW u, Looks(u, s), NEW f, Scans(f, From(s, d + 1)), Ready(u, s, d, p),
         ~Ends(From(s, d + 1), p),
         \A q \in (p + 1)..(Len(s) - d + 1) : Ready(u, s, d, q) => Done(u, f, s, d, q)
  PROVE  Done(u, f, s, d, p)
<1> DEFINE b == From(s, d + 1)  n == Len(s)  l == n - d  r == Min(Syncs(b, p))  now == u[d + p - 1]
<1>1. /\ b \in Seq(Byte) /\ Len(b) = l /\ n \in Nat /\ l \in Nat /\ l = n - d
      /\ r \in p..(l - 1) /\ \A q \in (d + p)..(d + r - 1) : ~IsSyncAt(s, q)
      /\ r + FrameSize - 1 <= l
  <2>1. Syncs(b, p) # {} /\ ~(r + FrameSize - 1 > Len(b))
    BY DEF Ends
  <2>2. b \in Seq(Byte) /\ Len(b) = l /\ r \in p..(Len(b) - 1) /\ \A q \in (d + p)..(d + r - 1) : ~IsSyncAt(s, q)
    BY <2>1, FromBuffer
  <2>3. n \in Nat /\ l \in Nat
    OBVIOUS
  <2> HIDE DEF b, r, l, n
  <2>4. r \in Int /\ l \in Int /\ FrameSize \in Int
    BY <2>2, <2>3, Constants
  <2> QED BY <2>1, <2>2, <2>3, <2>4 DEF l
<1> HIDE DEF r
<1>2. p \in 1..(Len(b) + 1)
  BY <1>1
<1>3. f[p] = With(b, p, f[Onward(b, p)])
  BY <1>2 DEF Scans
<1>4. f[r + 1] \in FoundType /\ f[r + FrameSize] \in FoundType
  <2>1. r + 1 \in 1..(Len(b) + 1) /\ r + FrameSize \in 1..(Len(b) + 1)
    <3> HIDE DEF b, l, n
    <3> QED BY <1>1, Constants
  <2> QED BY <2>1 DEF Scans
<1>5. now.behind <= d + p /\ NoStart(s, now.behind, d + p - 1) /\ now \in Looked
  <2>1. d + p - 1 \in 0..n
    BY <1>1
  <2> QED BY <2>1 DEF Ready, Looks
<1>6. /\ IsFrameAt(b, r) <=> IsFrameAt(s, d + r)
      /\ FrameAt(b, r) = FrameAt(s, d + r)
  <2>1. r \in Nat \ {0} /\ d + r + FrameSize - 1 <= n
    BY <1>1, Constants
  <2> QED BY <2>1, ShiftFrame
<1>7. f[p] = IF IsFrameAt(s, d + r)
               THEN [frames |-> <<FrameAt(s, d + r)>> \o f[r + FrameSize].frames,
                     held |-> f[r + FrameSize].held]
               ELSE f[r + 1]
  BY <1>3, <1>6 DEF With, Onward, r
<1> HIDE DEF b, l
<1>8. u[d + r - 1] = now
  <2>1. d + p - 1 \in 0..n /\ d + r - 1 \in (d + p - 1)..n /\ (d + p - 1) + 1 = d + p
    BY <1>1
  <2>2. \A q \in (d + p)..(d + r - 1) : q + FrameSize - 1 <= Len(s) => ~IsSyncAt(s, q)
    BY <1>1
  <2> QED BY <2>1, <2>2, GetsOn
<1>9. u[d + r] = Look(now, s, d + r)
  <2>1. d + r \in 1..n
    BY <1>1
  <2>2. \A x \in 1..n : u[x] = Look(u[x - 1], s, x)
    BY DEF Looks
  <2>3. d + r \in Int /\ r \in Int /\ d \in Int
    BY <1>1
  <2> HIDE DEF n, now
  <2>4. u[d + r] = Look(u[(d + r) - 1], s, d + r)
    BY <2>1, <2>2, <2>3
  <2>5. u[(d + r) - 1] = now
    BY <1>8, <2>3
  <2> QED BY <2>4, <2>5
<1>10. d + r >= now.behind
  BY <1>1, <1>5, SMTT(30) DEF Looked
<1> HIDE DEF now
<1>11. CASE ~IsFrameAt(s, d + r)
  <2>1. u[d + r] = now
    BY <1>9, <1>11 DEF Look
  <2>2. d + (r + 1) - 1 = d + r /\ r + 1 \in (p + 1)..(l + 1) /\ now.behind <= d + (r + 1)
    BY <1>1, <1>5 DEF Looked
  <2>3. NoStart(s, now.behind, d + r)
    <3>1. ASSUME NEW q \in now.behind..(d + r), q >= n - FrameSize + 2
          PROVE  q < n /\ ~IsSyncAt(s, q)
      <4>1. CASE q <= d + p - 1
        <5>1. q \in now.behind..(d + p - 1)
          BY <4>1, <1>1, <1>5 DEF Looked
        <5> QED BY <5>1, <3>1, <1>5 DEF NoStart
      <4>2. CASE ~(q <= d + p - 1)
        <5>1. q \in (d + p)..(d + r - 1) /\ q < n
          BY <4>2, <3>1, <1>1, <1>5, Constants DEF Looked
        <5> QED BY <5>1, <1>1
      <4> QED BY <4>1, <4>2
    <3> QED BY <3>1 DEF NoStart
  <2>4. Ready(u, s, d, r + 1)
    BY <2>1, <2>2, <2>3 DEF Ready
  <2>5. Done(u, f, s, d, r + 1)
    BY <2>2, <2>4 DEF l
  <2>6. f[p] = f[r + 1]
    BY <1>7, <1>11
  <2> QED BY <2>1, <2>2, <2>5, <2>6 DEF Done, now
<1>12. CASE IsFrameAt(s, d + r)
  <2> DEFINE frame == FrameAt(s, d + r)  z == r + FrameSize
  <2>1. /\ d + r + FrameSize - 1 \in (d + r)..n /\ d + r \in 0..n /\ z \in (p + 1)..(l + 1)
        /\ d + z - 1 = d + r + FrameSize - 1 /\ d + z = d + r + FrameSize /\ d + z - 1 \in Int
    BY <1>1, Constants
  <2>2. u[d + r] = [frames |-> Append(now.frames, frame), behind |-> d + r + FrameSize]
    BY <1>9, <1>10, <1>12 DEF Look
  <2>3. u[d + z - 1] = u[d + r]
    <3>0. u[d + r].behind = d + r + FrameSize /\ d + r \in Int /\ FrameSize \in Int
      BY <2>1, <2>2, Constants
    <3>1. \A q \in (d + r + 1)..(d + r + FrameSize - 1) : ~(q >= u[d + r].behind)
      <4> HIDE DEF z
      <4> QED BY <3>0
    <3>2. u[d + r + FrameSize - 1] = u[d + r]
      BY <2>1, <3>1, Quiet
    <3> QED BY <3>2, <2>1
  <2>4. u[d + z - 1].behind = d + z
    BY <2>1, <2>2, <2>3
  <2>5. Ready(u, s, d, z)
    <3>1. NoStart(s, d + z, d + z - 1)
      <4>1. \A q \in (d + z)..(d + z - 1) : FALSE
        BY <2>1
      <4> HIDE DEF z
      <4> QED BY <4>1 DEF NoStart
    <3>2. d + z <= d + z
      BY <2>1
    <3> HIDE DEF z
    <3> QED BY <3>1, <3>2, <2>4 DEF Ready
  <2>6. Done(u, f, s, d, z)
    BY <2>1, <2>5 DEF l
  <2>7. frame \in Whole
    <3>1. d + r \in 1..Len(s) /\ d + r + FrameSize - 1 <= Len(s)
      BY <1>1, <2>1
    <3> QED BY <3>1, FrameType
  <2>8. f[p].held = f[z].held /\ f[p].frames = <<frame>> \o f[z].frames
    BY <1>7, <1>12, SMTT(30)
  <2>9. u[n].frames = Append(now.frames, frame) \o f[z].frames
    <3> HIDE DEF z, frame
    <3>1. u[d + z - 1].frames = Append(now.frames, frame)
      BY <2>2, <2>3
    <3> QED BY <2>6, <3>1 DEF Done
  <2>10. u[n].frames = now.frames \o (<<frame>> \o f[z].frames)
    <3>1. now.frames \in Seq(Whole) /\ f[z].frames \in Seq(Whole)
      BY <1>4, <1>5 DEF Looked, FoundType
    <3> HIDE DEF frame, z
    <3>2. Append(now.frames, frame) \o f[z].frames = now.frames \o (<<frame>> \o f[z].frames)
      <4> DEFINE x == now.frames  y == f[z].frames  T == Whole
      <4>1. x \in Seq(T) /\ y \in Seq(T) /\ frame \in T
        BY <3>1, <2>7
      <4> HIDE DEF x, y, T
      <4>2. Append(x, frame) \o y = x \o (<<frame>> \o y)
        <5>1. AppendsFirst(x, frame, y)
          BY <4>1, AppendCat
        <5> QED BY <5>1 DEF AppendsFirst
      <4> QED BY <4>2 DEF x, y
    <3> QED BY <3>2, <2>9
  <2> HIDE DEF frame, z
  <2> QED BY <2>6, <2>8, <2>10 DEF Done, now
<1> QED BY <1>11, <1>12
\* From wherever the two searches are at the same place.
LEMMA Finds ==
  ASSUME NEW s \in Seq(Byte), NEW d \in 0..Len(s), NEW u, Looks(u, s),
         NEW f, Scans(f, From(s, d + 1)), NEW p \in 1..(Len(s) - d + 1), Ready(u, s, d, p)
  PROVE  Done(u, f, s, d, p)
<1> DEFINE N == Len(s) - d + 1
           Good(q) == Ready(u, s, d, q) => Done(u, f, s, d, q)
           Down == {k \in 0..(N - 1) : \A q \in (N - k)..N : Good(q)}
<1>1. N \in Nat /\ N >= 1 /\ N = Len(s) - d + 1
  OBVIOUS
<1>2. ASSUME NEW q \in 1..N, \A x \in (q + 1)..N : Good(x), Ready(u, s, d, q)
      PROVE  Done(u, f, s, d, q)
  <2>1. CASE Ends(From(s, d + 1), q)
    <3>1. Len(From(s, d + 1)) = Len(s) - d
      BY FromType, d + 1 \in 1..(Len(s) + 1)
    <3>2. CASE Syncs(From(s, d + 1), q) = {}
      BY <1>2, <3>2, EndsEmpty
    <3>3. CASE Syncs(From(s, d + 1), q) # {}
      BY <1>2, <2>1, <3>1, <3>3, EndsShort DEF Ends
    <3> QED BY <3>2, <3>3
  <2>2. CASE ~Ends(From(s, d + 1), q)
    BY <1>2, <2>2, GoesOn
  <2> QED BY <2>1, <2>2
<1>3. ASSUME NEW q \in 1..N, \A x \in (q + 1)..N : Good(x) PROVE Good(q)
  BY <1>2, <1>3
<1> HIDE DEF N, Good
<1>4. 0 \in Down
  <2>1. ASSUME NEW q \in (N - 0)..N PROVE Good(q)
    <3>1. q \in 1..N /\ \A x \in (q + 1)..N : FALSE
      BY <1>1
    <3> QED BY <3>1, <1>3
  <2>2. 0 \in 0..(N - 1)
    BY <1>1
  <2> QED BY <2>1, <2>2
<1>5. ASSUME NEW k \in 0..(N - 1), k \in Down, k < N - 1 PROVE k + 1 \in Down
  <2>1. ASSUME NEW q \in (N - (k + 1))..N PROVE Good(q)
    <3>1. CASE q \in (N - k)..N
      BY <3>1, <1>5
    <3>2. CASE q = N - (k + 1)
      <4>1. q \in 1..N /\ q + 1 = N - k
        BY <3>2, <1>1, <1>5
      <4>2. \A x \in (q + 1)..N : Good(x)
        BY <4>1, <1>5
      <4> QED BY <4>1, <4>2, <1>3
    <3>3. q \in (N - k)..N \/ q = N - (k + 1)
      BY <1>1
    <3> QED BY <3>1, <3>2, <3>3
  <2>2. k + 1 \in 0..(N - 1)
    BY <1>1, <1>5
  <2> QED BY <2>1, <2>2
<1>6. N - 1 \in Down
  <2>1. N - 1 \in Nat
    BY <1>1
  <2> HIDE DEF Down
  <2>2. 0..(N - 1) \subseteq Down
    BY <2>1, <1>4, <1>5, Climb
  <2> QED BY <2>1, <2>2
<1>7. p \in (N - (N - 1))..N
  BY <1>1
<1>8. Good(p)
  BY <1>6, <1>7
<1> QED BY <1>8 DEF Good

\* The decoder's buffer is the end of what the account keeps of the stream, and
\* no frame can begin in what it has dropped.
KeptUp(buffer, stream) ==
  \E d \in 0..Len(stream) :
    /\ buffer = From(stream, d + 1)
    /\ \A q \in 1..d : q < Len(stream) /\ ~IsSyncAt(stream, q)

\* What the account keeps when stream has been looked through.
Kept(stream) ==
  From(stream, Max({1, Len(stream) - FrameSize + 2, AllFrames(stream).behind}))

LEMMA ThreeMax ==
  ASSUME NEW a \in Int, NEW b \in Int, NEW c \in Int
  PROVE  /\ Max({a, b, c}) \in {a, b, c}
         /\ Max({a, b, c}) >= a
         /\ Max({a, b, c}) >= b
         /\ Max({a, b, c}) >= c
<1>1. \E x \in {a, b, c} : \A y \in {a, b, c} : x >= y
  <2>1. (a >= b /\ a >= c) \/ (b >= a /\ b >= c) \/ (c >= a /\ c >= b)
    OBVIOUS
  <2>2. a >= a /\ b >= b /\ c >= c
    OBVIOUS
  <2> QED BY <2>1, <2>2
<1>2. Max({a, b, c}) \in {a, b, c} /\ \A y \in {a, b, c} : Max({a, b, c}) >= y
  BY <1>1 DEF Max
<1> QED BY <1>2

\* The bytes before the buffer stay what they are when more arrive.
LEMMA StillNone ==
  ASSUME NEW s \in Seq(Byte), NEW chunk \in Seq(Byte), NEW q \in 1..Len(s), q < Len(s)
  PROVE  IsSyncAt(s \o chunk, q) <=> IsSyncAt(s, q)
<1> DEFINE c == s \o chunk  x == SubSeq(c, q, q + 1)  y == SubSeq(s, q, q + 1)
<1>1. /\ c \in Seq(Byte) /\ Len(c) = Len(s) + Len(chunk) /\ Len(s) \in Nat /\ Len(chunk) \in Nat
      /\ \A i \in 1..Len(s) : c[i] = s[i]
  BY CatType
<1> HIDE DEF c
<1>2. /\ q \in 1..(Len(c) + 1) /\ q \in 1..(Len(s) + 1) /\ q + 1 \in Int /\ q <= (q + 1) + 1
      /\ q + 1 <= Len(c) /\ q + 1 <= Len(s) /\ (q + 1) - q + 1 = 2
  BY <1>1
<1>3. /\ x \in Seq(Byte) /\ Len(x) = 2 /\ \A i \in 1..2 : x[i] = c[q + i - 1]
  BY <1>1, <1>2, SubType
<1>4. /\ y \in Seq(Byte) /\ Len(y) = 2 /\ \A i \in 1..2 : y[i] = s[q + i - 1]
  BY <1>1, <1>2, SubType
<1> HIDE DEF x, y
<1>5. ASSUME NEW i \in 1..Len(x) PROVE x[i] = y[i]
  <2>1. i \in 1..2 /\ q + i - 1 \in 1..Len(s)
    BY <1>1, <1>2, <1>3
  <2> QED BY <2>1, <1>1, <1>3, <1>4
<1>6. x = y
  BY <1>3, <1>4, <1>5, SameSeq
<1> QED BY <1>6 DEF IsSyncAt, x, y, c

\* One call of feed: it finds what is in the stream, and the buffer is kept up.
LEMMA FeedFinds ==
  ASSUME NEW buffer, NEW stream \in Seq(Byte), KeptUp(buffer, stream), NEW chunk \in Seq(Byte)
  PROVE  LET scan == Scan(buffer \o chunk)
             all == AllFrames(stream \o chunk)
         IN  /\ scan.frames = all.frames /\ scan \in FoundType
             /\ Kept(stream \o chunk) \in Seq(Byte)
             /\ Len(Kept(stream \o chunk)) < FrameSize
             /\ KeptUp(scan.held, Kept(stream \o chunk))
<1> DEFINE s == stream \o chunk  n == Len(s)  b == buffer \o chunk
<1>1. PICK d \in 0..Len(stream) : /\ buffer = From(stream, d + 1)
                                  /\ \A q \in 1..d : q < Len(stream) /\ ~IsSyncAt(stream, q)
  BY DEF KeptUp
<1>2. /\ s \in Seq(Byte) /\ n = Len(stream) + Len(chunk) /\ n \in Nat
      /\ Len(stream) \in Nat /\ Len(chunk) \in Nat /\ d \in 0..n
  <2>1. s \in Seq(Byte) /\ n = Len(stream) + Len(chunk) /\ Len(stream) \in Nat /\ Len(chunk) \in Nat
    BY CatType
  <2> QED BY <2>1, <1>1
<1>3. b = From(s, d + 1)
  <2>1. d + 1 \in 1..(Len(stream) + 1)
    BY <1>1
  <2> QED BY <1>1, <2>1, FromCat
<1>4. b \in Seq(Byte)
  BY <1>2, <1>3, FromType, d + 1 \in 1..(n + 1)
<1>5. PICK u : Looks(u, s) /\ AllFrames(s) = u[n]
  BY <1>2, AllFramesIs
<1>6. PICK f : Scans(f, b) /\ Scan(b) = f[1]
  BY <1>4, ScanIs
<1>7. ASSUME NEW q \in 1..d PROVE q < n /\ ~IsSyncAt(s, q)
  <2>1. q \in 1..Len(stream) /\ q < Len(stream) /\ ~IsSyncAt(stream, q)
    BY <1>1, <1>2
  <2> QED BY <2>1, <1>2, StillNone
<1> HIDE DEF s, b, n
<1>8. u[0] = First /\ u[d] = u[0] /\ u[n] \in Looked
  <2>1. u[0] = First /\ u[n] \in Looked
    BY <1>2, <1>5 DEF Looks, n
  <2>2. 0 \in 0..Len(s) /\ d \in 0..Len(s)
    BY <1>2 DEF n
  <2>3. \A q \in (0 + 1)..d : q + FrameSize - 1 <= Len(s) => ~IsSyncAt(s, q)
    BY <1>7, <1>2
  <2>4. u[d] = u[0]
    BY <2>2, <2>3, <1>2, <1>5, GetsOn
  <2> QED BY <2>1, <2>4
<1>9. Ready(u, s, d, 1)
  <2>1. d + 1 - 1 = d /\ 1 <= d + 1 /\ u[d].behind = 1
    BY <1>2, <1>8 DEF First
  <2>2. NoStart(s, 1, d)
    BY <1>7 DEF NoStart, n
  <2> QED BY <2>1, <2>2 DEF Ready
<1>10. Done(u, f, s, d, 1)
  <2>1. 1 \in 1..(Len(s) - d + 1) /\ d \in 0..Len(s)
    BY <1>2 DEF n
  <2> QED BY <2>1, <1>2, <1>3, <1>5, <1>6, <1>9, Finds
<1>11. f[1] \in FoundType
  <2>1. 1 \in 1..(Len(b) + 1)
    BY <1>4
  <2> QED BY <2>1, <1>6 DEF Scans
<1>12. u[n].frames = f[1].frames
  <2>1. d + 1 - 1 = d
    BY <1>2
  <2>2. u[n].frames = u[d].frames \o f[1].frames
    BY <2>1, <1>10 DEF Done, n
  <2>3. u[d].frames = << >> /\ f[1].frames \in Seq(Whole)
    BY <1>8, <1>11 DEF First, FoundType
  <2> QED BY <2>2, <2>3
<1>13. PICK r \in 1..(n - d + 1) : Leaves(u, s, d, r, f[1].held)
  BY <1>10 DEF Done, n
<1> DEFINE behind == u[n].behind  m == Max({1, n - FrameSize + 2, behind})  k == From(s, m)
<1>14. /\ f[1].held = From(s, d + r) /\ n - (d + r) + 1 < FrameSize /\ behind <= d + r
       /\ NoStart(s, behind, d + r - 1)
  BY <1>13 DEF Leaves, n
<1>15. behind \in Nat /\ FrameSize \in Nat /\ FrameSize >= 4 /\ d + r \in 1..(n + 1)
  BY <1>2, <1>8, <1>13, Constants DEF Looked
<1>16. Kept(s) = k
  BY <1>5 DEF Kept, n
<1> HIDE DEF behind
<1>17. /\ m \in {1, n - FrameSize + 2, behind} /\ m >= 1 /\ m >= n - FrameSize + 2 /\ m >= behind
  <2>1. 1 \in Int /\ n - FrameSize + 2 \in Int /\ behind \in Int
    BY <1>2, <1>15
  <2> QED BY <2>1, ThreeMax
<1> HIDE DEF m
<1>18. m \in 1..(d + r) /\ m \in 1..(n + 1)
  BY <1>2, <1>14, <1>15, <1>17, SMTT(30)
<1>19. k \in Seq(Byte) /\ Len(k) = n - m + 1
  BY <1>2, <1>18, FromType DEF n
<1>20. Len(k) < FrameSize
  BY <1>2, <1>15, <1>17, <1>18, <1>19
\* The buffer begins e bytes into what is kept.
<1> DEFINE e == d + r - m
<1>21. e \in 0..Len(k) /\ m + e = d + r /\ e + 1 \in 1..(n - (m - 1) + 1) /\ m - 1 \in 0..n
       /\ (m - 1) + 1 = m /\ (m - 1) + (e + 1) = d + r
  BY <1>2, <1>15, <1>18, <1>19
<1> HIDE DEF e
<1>22. f[1].held = From(k, e + 1)
  <2>1. From(From(s, (m - 1) + 1), e + 1) = From(s, (m - 1) + (e + 1))
    BY <1>2, <1>21, FromFrom DEF n
  <2> QED BY <2>1, <1>14, <1>21
<1>23. ASSUME NEW q \in 1..e PROVE q < Len(k) /\ ~IsSyncAt(k, q)
  <2>1. (m - 1) + q \in behind..(d + r - 1) /\ (m - 1) + q >= n - FrameSize + 2 /\ q \in Nat \ {0}
    BY <1>2, <1>15, <1>17, <1>18, <1>21
  <2>2. (m - 1) + q < n /\ ~IsSyncAt(s, (m - 1) + q)
    BY <2>1, <1>14 DEF NoStart, n
  <2>3. IsSyncAt(From(s, (m - 1) + 1), q) <=> IsSyncAt(s, (m - 1) + q)
    BY <2>1, <2>2, <1>2, <1>21, ShiftSync DEF n
  <2>4. q < Len(k)
    BY <2>2, <1>2, <1>18, <1>19
  <2> QED BY <2>2, <2>3, <2>4, <1>21
<1>24. KeptUp(f[1].held, k)
  <2> HIDE DEF k
  <2> QED BY <1>21, <1>22, <1>23 DEF KeptUp
<1> QED BY <1>5, <1>6, <1>11, <1>12, <1>16, <1>19, <1>20, <1>24 DEF s, b
-----------------------------------------------------------------------------
(* The port: what is sent, waits and is read consists of bytes.            *)

Message == [kind : {"frame", "other"}, bytes : Seq(Byte)]

PortInv == /\ wire \in Seq(Message)
           /\ split \in BOOLEAN
           /\ split => wire # << >>

LEMMA PortIs == PortInv => PortTypeOK
<1> SUFFICES ASSUME PortInv PROVE PortTypeOK
  OBVIOUS
<1>1. ASSUME NEW i \in 1..Len(wire) PROVE wire[i].bytes \in Seq(Byte)
  <2>1. wire[i] \in Message
    BY DEF PortInv
  <2> QED BY <2>1 DEF Message
<1> QED BY <1>1 DEF PortInv, PortTypeOK

LEMMA ChecksumType ==
  ASSUME NEW bytes \in Seq(Byte)
  PROVE  Checksum(bytes) \in Byte
<1> DEFINE n == Len(bytes)
           Rule(g) == g = [i \in 0..n |-> IF i = 0 THEN 0 ELSE ByteXor(g[i - 1], bytes[i])]
           g == CHOOSE h : Rule(h)
           step == [xi \in Byte \X (1..n) |-> ByteXor(xi[1], bytes[xi[2]])]
           InByte == {i \in 0..n : g[i] \in Byte}
<1>1. n \in Nat /\ 0 \in Byte /\ \A a, b \in Byte : ByteXor(a, b) \in Byte
  BY PortAssumption DEF Byte
<1>2. Checksum(bytes) = g[n]
  BY DEF Checksum
<1>3. IsStep(step, Byte, n)
  <2>1. ASSUME NEW x \in Byte, NEW i \in 1..n PROVE ByteXor(x, bytes[i]) \in Byte
    <3>1. bytes[i] \in Byte
      OBVIOUS
    <3> QED BY <1>1, <3>1
  <2> QED BY <2>1 DEF IsStep
<1>4. PICK u : Ascends(u, Byte, n, 0, step)
  <2> HIDE DEF step, n
  <2> QED BY <1>1, <1>3, Ascent
<1>5. u \in [0..n -> Byte] /\ u[0] = 0 /\ \A i \in 1..n : u[i] = ByteXor(u[i - 1], bytes[i])
  <2>1. u \in [0..n -> Byte] /\ u[0] = 0 /\ \A i \in 1..n : u[i] = step[<<u[i - 1], i>>]
    <3> HIDE DEF step, n
    <3> QED BY <1>4 DEF Ascends
  <2>2. ASSUME NEW i \in 1..n PROVE step[<<u[i - 1], i>>] = ByteXor(u[i - 1], bytes[i])
    <3>1. u[i - 1] \in Byte
      BY <2>1, <1>1, i - 1 \in 0..n
    <3> QED BY <3>1
  <2> QED BY <2>1, <2>2
<1>6. Rule(u)
  BY <1>5
<1>7. Rule(g)
  BY <1>6
<1> HIDE DEF g, n
<1>8. g[0] = 0 /\ \A i \in 1..n : g[i] = ByteXor(g[i - 1], bytes[i])
  BY <1>1, <1>7
<1> HIDE DEF Rule
<1>9. 0 \in InByte
  BY <1>1, <1>8
<1>10. ASSUME NEW i \in 0..n, i \in InByte, i < n PROVE i + 1 \in InByte
  <2>1. i + 1 \in 1..n /\ (i + 1) - 1 = i /\ i + 1 \in 0..n /\ g[i] \in Byte
    BY <1>1, <1>10
  <2>2. bytes[i + 1] \in Byte
    BY <2>1 DEF n
  <2> HIDE DEF InByte
  <2>3. g[i + 1] = ByteXor(g[i], bytes[i + 1])
    BY <1>8, <2>1
  <2>4. g[i + 1] \in Byte
    BY <1>1, <2>1, <2>2, <2>3
  <2> QED BY <2>1, <2>4 DEF InByte
<1>11. n \in InByte
  <2> HIDE DEF InByte
  <2>1. 0..n \subseteq InByte
    BY <1>1, <1>9, <1>10, Climb
  <2> QED BY <2>1, <1>1
<1> QED BY <1>2, <1>11

\* A frame is one, and its number is the third of its bytes.
LEMMA FrameIs ==
  ASSUME NEW seq \in Byte, NEW payload \in Seq(Byte), Len(payload) = PayloadSize
  PROVE  Frame(seq, payload) \in Whole /\ Number(Frame(seq, payload)) = seq
<1> DEFINE t == <<seq>>  a == Sync \o t  head == a \o payload
<1>1. Sync \in Seq(Byte) /\ Len(Sync) = 2 /\ PayloadSize \in Nat
  BY PortAssumption DEF Byte
<1>2. t \in Seq(Byte) /\ Len(t) = 1 /\ t[1] = seq
  OBVIOUS
<1> HIDE DEF t
<1>3. a \in Seq(Byte) /\ Len(a) = 3 /\ a[3] = seq
  <2>1. /\ a \in Seq(Byte) /\ Len(a) = Len(Sync) + Len(t)
        /\ \A i \in 1..Len(t) : a[Len(Sync) + i] = t[i]
    <3>1. a \in Seq(Byte) /\ IsCat(a, Sync, t)
      BY <1>1, <1>2, Catenated
    <3> HIDE DEF a
    <3> QED BY <3>1 DEF IsCat
  <2>2. 1 \in 1..Len(t) /\ Len(Sync) + 1 = 3
    BY <1>1, <1>2
  <2> HIDE DEF a
  <2> QED BY <2>1, <2>2, <1>1, <1>2
<1> HIDE DEF a
<1>4. head \in Seq(Byte) /\ Len(head) = 3 + PayloadSize /\ head[3] = seq
  <2>1. /\ head \in Seq(Byte) /\ Len(head) = Len(a) + Len(payload)
        /\ \A i \in 1..Len(a) : head[i] = a[i]
    <3>1. head \in Seq(Byte) /\ IsCat(head, a, payload)
      BY <1>3, Catenated
    <3> HIDE DEF head
    <3> QED BY <3>1 DEF IsCat
  <2>2. 3 \in 1..Len(a)
    BY <1>3
  <2> HIDE DEF head
  <2> QED BY <2>1, <2>2, <1>3
<1> HIDE DEF head
<1>5. Checksum(head) \in Byte
  BY <1>4, ChecksumType
<1> DEFINE sum == Checksum(head)  frame == Append(head, sum)
<1> HIDE DEF sum
<1>6. frame \in Seq(Byte) /\ Len(frame) = 4 + PayloadSize /\ frame[3] = seq
  BY <1>1, <1>4, <1>5 DEF sum
<1>7. Frame(seq, payload) = frame
  BY DEF Frame, head, a, t, sum
<1> QED BY <1>6, <1>7 DEF Whole, FrameSize, Number

LEMMA Arrival ==
  ASSUME PortInv, NEW kind \in {"frame", "other"}, NEW bytes \in Seq(Byte), Arrives(kind, bytes)
  PROVE  PortInv'
<1>1. [kind |-> kind, bytes |-> bytes] \in Message
  BY DEF Message
<1> DEFINE m == [kind |-> kind, bytes |-> bytes]
<1>2. wire' = Append(wire, m) /\ split' = split
  BY DEF Arrives
<1> HIDE DEF m
<1>3. Append(wire, m) \in Seq(Message) /\ Append(wire, m) # << >>
  BY <1>1 DEF PortInv, m
<1> QED BY <1>2, <1>3 DEF PortInv

LEMMA FlattenType ==
  ASSUME NEW S, NEW seqs \in Seq(Seq(S))
  PROVE  FlattenSeq(seqs) \in Seq(S)
<1> DEFINE n == Len(seqs)
           Rule(g) == g = [i \in 1..n |-> IF i = 1 THEN seqs[i] ELSE g[i - 1] \o seqs[i]]
           g == CHOOSE h : Rule(h)
           step == [xi \in Seq(S) \X (1..(n - 1)) |-> xi[1] \o seqs[xi[2] + 1]]
           Typed == {i \in 0..(n - 1) : g[i + 1] \in Seq(S)}
<1>1. n \in Nat /\ \A i \in 1..n : seqs[i] \in Seq(S)
  OBVIOUS
<1>2. CASE n = 0
  BY <1>2 DEF FlattenSeq
<1>3. CASE n # 0
  <2>1. FlattenSeq(seqs) = g[n]
    BY <1>3 DEF FlattenSeq
  <2>2. n - 1 \in Nat /\ seqs[1] \in Seq(S)
    BY <1>1, <1>3
  <2>3. IsStep(step, Seq(S), n - 1)
    <3>1. ASSUME NEW x \in Seq(S), NEW i \in 1..(n - 1) PROVE x \o seqs[i + 1] \in Seq(S)
      <4>1. seqs[i + 1] \in Seq(S)
        BY <1>1, <2>2
      <4> QED BY <4>1
    <3> QED BY <3>1 DEF IsStep
  <2>4. PICK u : Ascends(u, Seq(S), n - 1, seqs[1], step)
    <3> HIDE DEF step, n
    <3> QED BY <2>2, <2>3, Ascent
  <2>5. /\ u \in [0..(n - 1) -> Seq(S)] /\ u[0] = seqs[1]
        /\ \A i \in 1..(n - 1) : u[i] = u[i - 1] \o seqs[i + 1]
    <3>1. /\ u \in [0..(n - 1) -> Seq(S)] /\ u[0] = seqs[1]
          /\ \A i \in 1..(n - 1) : u[i] = step[<<u[i - 1], i>>]
      <4> HIDE DEF step, n
      <4> QED BY <2>4 DEF Ascends
    <3>2. ASSUME NEW i \in 1..(n - 1) PROVE step[<<u[i - 1], i>>] = u[i - 1] \o seqs[i + 1]
      <4>1. u[i - 1] \in Seq(S)
        <5>1. i - 1 \in 0..(n - 1)
          BY <1>1
        <5> QED BY <3>1, <5>1
      <4> QED BY <4>1
    <3> QED BY <3>1, <3>2
  <2> DEFINE r == [i \in 1..n |-> u[i - 1]]
  <2>6. ASSUME NEW i \in 1..n PROVE r[i] = IF i = 1 THEN seqs[i] ELSE r[i - 1] \o seqs[i]
    <3>1. CASE i = 1
      BY <3>1, <2>5
    <3>2. CASE i # 1
      <4>1. i - 1 \in 1..(n - 1) /\ i - 1 \in 1..n /\ (i - 1) + 1 = i
        BY <3>2, <1>1
      <4>2. u[i - 1] = u[(i - 1) - 1] \o seqs[(i - 1) + 1]
        BY <4>1, <2>5
      <4>3. r[i] = u[i - 1] /\ r[i - 1] = u[(i - 1) - 1]
        BY <4>1
      <4> HIDE DEF r
      <4> QED BY <3>2, <4>1, <4>2, <4>3
    <3> QED BY <3>1, <3>2
  <2>7. Rule(r)
    <3>1. r = [i \in 1..n |-> r[i]]
      OBVIOUS
    <3> HIDE DEF r, n
    <3> QED BY <2>6, <3>1
  <2>8. Rule(g)
    <3> HIDE DEF r
    <3> QED BY <2>7
  <2> HIDE DEF g, n
  <2>9. /\ g[1] = seqs[1]
        /\ \A i \in 1..n : i # 1 => g[i] = g[i - 1] \o seqs[i]
    <3>1. \A i \in 1..n : g[i] = IF i = 1 THEN seqs[i] ELSE g[i - 1] \o seqs[i]
      BY <2>8
    <3>2. 1 \in 1..n
      BY <1>1, <1>3
    <3> QED BY <3>1, <3>2
  <2> HIDE DEF Rule
  <2>10. 0 \in Typed
    <3>1. 0 \in 0..(n - 1) /\ 0 + 1 = 1
      BY <2>2
    <3> QED BY <3>1, <2>2, <2>9
  <2>11. ASSUME NEW i \in 0..(n - 1), i \in Typed, i < n - 1 PROVE i + 1 \in Typed
    <3>1. i + 2 \in 1..n /\ i + 2 # 1 /\ (i + 2) - 1 = i + 1 /\ i + 1 \in 0..(n - 1) /\ (i + 1) + 1 = i + 2
      BY <1>1, <2>11
    <3>2. g[i + 1] \in Seq(S) /\ seqs[i + 2] \in Seq(S)
      BY <1>1, <2>11, <3>1
    <3>3. g[i + 2] = g[i + 1] \o seqs[i + 2]
      BY <2>9, <3>1
    <3>4. g[i + 2] \in Seq(S)
      BY <3>2, <3>3
    <3> QED BY <3>1, <3>4
  <2>12. n - 1 \in Typed
    <3> HIDE DEF Typed
    <3>1. 0..(n - 1) \subseteq Typed
      BY <2>2, <2>10, <2>11, Climb
    <3> QED BY <3>1, <2>2
  <2> QED BY <2>1, <2>12, <1>1
<1> QED BY <1>2, <1>3

LEMMA ChunkType ==
  ASSUME PortInv, NEW part \in Parts
  PROVE  Chunk(part) \in Seq(Byte)
<1> DEFINE messages == [i \in 1..part.whole |-> wire[i].bytes]
           w == part.whole  e == part.more
           rest == IF e = 0 THEN << >> ELSE SubSeq(wire[w + 1].bytes, 1, e)
<1>1. /\ w \in 0..Len(wire) /\ e \in Nat
      /\ e > 0 => w < Len(wire) /\ e < Len(wire[w + 1].bytes)
  <2>1. part \in [whole : 0..Len(wire), more : {0} \cup Splits]
    BY DEF Parts
  <2>2. e > 0 => w < Len(wire) /\ e < Len(wire[w + 1].bytes)
    BY DEF Parts
  <2>3. w \in 0..Len(wire) /\ e \in {0} \cup Splits
    BY <2>1
  <2> HIDE DEF w, e
  <2> QED BY <2>2, <2>3, PortAssumption
<1>2. /\ wire \in Seq(Message) /\ Len(wire) \in Nat
      /\ \A i \in 1..Len(wire) : wire[i] \in Message /\ wire[i].bytes \in Seq(Byte)
  <2>1. wire \in Seq(Message)
    BY DEF PortInv
  <2>2. \A i \in 1..Len(wire) : wire[i] \in Message
    BY <2>1
  <2>3. \A m \in Message : m.bytes \in Seq(Byte)
    BY DEF Message
  <2> QED BY <2>1, <2>2, <2>3
<1>3. messages \in Seq(Seq(Byte))
  <2> HIDE DEF w
  <2>1. \A i \in 1..w : wire[i].bytes \in Seq(Byte)
    BY <1>1, <1>2
  <2> QED BY <2>1, <1>1 DEF w
<1>4. rest \in Seq(Byte)
  <2>1. CASE e = 0
    BY <2>1
  <2>2. CASE e > 0
    <3> DEFINE b == wire[w + 1].bytes
    <3>1. b \in Seq(Byte) /\ e < Len(b)
      BY <1>1, <1>2, <2>2
    <3> HIDE DEF b, e
    <3>2. SubSeq(b, 1, e) \in Seq(Byte)
      BY <3>1, <1>1
    <3> QED BY <3>2, <2>2 DEF b
  <2> QED BY <2>1, <2>2, <1>1
<1> HIDE DEF messages, rest
<1>5. FlattenSeq(messages) \in Seq(Byte)
  BY <1>3, FlattenType
<1>6. FlattenSeq(messages) \o rest \in Seq(Byte)
  BY <1>4, <1>5
<1>7. Chunk(part) = FlattenSeq(messages) \o rest
  BY DEF Chunk, messages, rest
<1> QED BY <1>6, <1>7

LEMMA Advances ==
  ASSUME PortInv, NEW part \in Parts, Advance(part), Some(part)
  PROVE  PortInv'
<1> DEFINE w == part.whole  e == part.more  next == w + 1
<1>1. /\ w \in 0..Len(wire) /\ e \in Nat
      /\ e > 0 => w < Len(wire) /\ e < Len(wire[w + 1].bytes)
  <2>1. part \in [whole : 0..Len(wire), more : {0} \cup Splits]
    BY DEF Parts
  <2>2. e > 0 => w < Len(wire) /\ e < Len(wire[w + 1].bytes)
    BY DEF Parts
  <2>3. w \in 0..Len(wire) /\ e \in {0} \cup Splits
    BY <2>1
  <2> HIDE DEF w, e
  <2> QED BY <2>2, <2>3, PortAssumption
<1>2. wire \in Seq(Message) /\ Len(wire) \in Nat
  BY DEF PortInv
<1>3. split' = (e > 0)
  BY DEF Advance
<1>4. CASE e = 0
  <2>1. wire' = From(wire, next)
    BY <1>4 DEF Advance
  <2>2. next \in 1..(Len(wire) + 1)
    BY <1>1, <1>2
  <2> HIDE DEF next
  <2>3. wire' \in Seq(Message)
    BY <2>1, <2>2, <1>2, FromType
  <2>4. ~(e > 0) /\ (e > 0) \in BOOLEAN
    BY <1>1, <1>4
  <2> HIDE DEF e
  <2>5. split' \in BOOLEAN /\ ~split'
    BY <1>3, <2>4
  <2> QED BY <2>3, <2>5 DEF PortInv
<1>5. CASE e > 0
  <2> DEFINE old == wire[next]
             new == [old EXCEPT !.bytes = From(@, e + 1)]
             others_ == From(wire, next + 1)
  <2>1. wire' = <<new>> \o others_
    BY <1>5, <1>1 DEF Advance
  <2>2. next \in 1..Len(wire) /\ next + 1 \in 1..(Len(wire) + 1)
    BY <1>1, <1>2, <1>5
  <2>3. others_ \in Seq(Message)
    BY <2>2, <1>2, FromType
  <2>4. old \in Message /\ e < Len(old.bytes)
    BY <2>2, <1>2, <1>1, <1>5
  <2> HIDE DEF old, others_, e
  <2>5. From(old.bytes, e + 1) \in Seq(Byte)
    <3>1. old.bytes \in Seq(Byte) /\ e + 1 \in 1..(Len(old.bytes) + 1)
      BY <2>4, <1>1 DEF Message
    <3> QED BY <3>1, FromType
  <2>6. new \in Message
    BY <2>4, <2>5 DEF Message
  <2> HIDE DEF new
  <2>7. <<new>> \o others_ \in Seq(Message) /\ <<new>> \o others_ # << >>
    BY <2>3, <2>6
  <2> QED BY <1>3, <2>1, <2>7 DEF PortInv
<1> QED BY <1>1, <1>4, <1>5
-----------------------------------------------------------------------------
(* The decoder finds the frames of the stream.                             *)

Finding == [frame : Whole, live : BOOLEAN]

DecodeInv ==
  /\ PortInv
  /\ nextSeq \in Byte /\ paused \in BOOLEAN
  /\ fed \in Seq(Byte) /\ Len(fed) < FrameSize /\ KeptUp(held, fed)
  /\ expected \in Seq(Whole) /\ decoded \in Seq(Finding)
  /\ Decodes

\* The findings of one call of feed.
Findings(frames, live) == [i \in 1..Len(frames) |-> [frame |-> frames[i], live |-> live]]

LEMMA FindingsType ==
  ASSUME NEW frames \in Seq(Whole), NEW live \in BOOLEAN
  PROVE  /\ Findings(frames, live) \in Seq(Finding)
         /\ Len(Findings(frames, live)) = Len(frames)
         /\ \A i \in 1..Len(frames) : /\ Findings(frames, live)[i].frame = frames[i]
                                      /\ Findings(frames, live)[i].live = live
<1> DEFINE g == Findings(frames, live)
<1>1. \A i \in 1..Len(frames) : g[i] = [frame |-> frames[i], live |-> live]
  BY DEF Findings
<1>2. ASSUME NEW i \in 1..Len(frames) PROVE [frame |-> frames[i], live |-> live] \in Finding
  <2>1. frames[i] \in Whole
    OBVIOUS
  <2> QED BY <2>1 DEF Finding
<1>3. g \in Seq(Finding) /\ Len(g) = Len(frames)
  BY <1>2 DEF Findings
<1> HIDE DEF g
<1>4. ASSUME NEW i \in 1..Len(frames) PROVE g[i].frame = frames[i] /\ g[i].live = live
  <2>1. g[i] = [frame |-> frames[i], live |-> live]
    BY <1>1
  <2>2. g[i].frame = frames[i]
    BY <2>1
  <2>3. g[i].live = live
    BY <2>1
  <2> QED BY <2>2, <2>3
<1> QED BY <1>3, <1>4 DEF g

\* What a step of the console does to the decoder.
LEMMA FeedIs ==
  ASSUME NEW chunk \in Seq(Byte), DecodeInv, Feed(chunk)
  PROVE  LET frames == AllFrames(fed \o chunk).frames
         IN  /\ frames \in Seq(Whole) /\ Scan(held \o chunk).frames = frames
             /\ fed' \in Seq(Byte) /\ Len(fed') < FrameSize /\ KeptUp(held', fed')
             /\ expected' = expected \o frames
             /\ decoded' = decoded \o Findings(frames, ~paused)
<1> DEFINE scan == Scan(held \o chunk)  s == fed \o chunk  all == AllFrames(s)
<1>1. KeptUp(held, fed) /\ fed \in Seq(Byte)
  BY DEF DecodeInv
<1>2. /\ scan.frames = all.frames /\ scan \in FoundType /\ Kept(s) \in Seq(Byte)
      /\ Len(Kept(s)) < FrameSize /\ KeptUp(scan.held, Kept(s))
  BY <1>1, FeedFinds
<1>3. /\ held' = scan.held /\ fed' = Kept(s) /\ expected' = expected \o all.frames
      /\ decoded' = decoded \o Findings(scan.frames, ~paused)
  BY DEF Feed, Kept, Findings
<1>4. scan.frames \in Seq(Whole)
  BY <1>2 DEF FoundType
<1> HIDE DEF scan, all, s
<1> QED BY <1>2, <1>3, <1>4 DEF scan, all, s

LEMMA DecodesMore ==
  ASSUME expected \in Seq(Whole), decoded \in Seq(Finding), Decodes,
         NEW frames \in Seq(Whole), NEW live \in BOOLEAN,
         expected' = expected \o frames, decoded' = decoded \o Findings(frames, live)
  PROVE  expected' \in Seq(Whole) /\ decoded' \in Seq(Finding) /\ Decodes'
<1> DEFINE new == Findings(frames, live)  n == Len(decoded)  m == Len(frames)
<1>1. /\ new \in Seq(Finding) /\ Len(new) = m /\ \A i \in 1..m : new[i].frame = frames[i]
      /\ n \in Nat /\ m \in Nat
  BY FindingsType
<1> HIDE DEF new
<1>2. Len(expected) = n /\ \A i \in 1..n : expected[i] = decoded[i].frame
  BY DEF Decodes
<1>3. /\ expected \o frames \in Seq(Whole) /\ Len(expected \o frames) = Len(expected) + m
      /\ \A i \in 1..Len(expected) : (expected \o frames)[i] = expected[i]
      /\ \A i \in (Len(expected) + 1)..(Len(expected) + m) : (expected \o frames)[i] = frames[i - Len(expected)]
  BY CatType
<1>4. /\ decoded \o new \in Seq(Finding) /\ Len(decoded \o new) = n + m
      /\ \A i \in 1..n : (decoded \o new)[i] = decoded[i]
      /\ \A i \in (n + 1)..(n + m) : (decoded \o new)[i] = new[i - n]
  <2>1. /\ decoded \o new \in Seq(Finding) /\ Len(decoded \o new) = n + Len(new)
        /\ \A i \in 1..n : (decoded \o new)[i] = decoded[i]
        /\ \A i \in (n + 1)..(n + Len(new)) : (decoded \o new)[i] = new[i - n]
    <3> DEFINE c == decoded \o new
    <3>1. c \in Seq(Finding) /\ IsCat(c, decoded, new)
      BY <1>1, Catenated
    <3> HIDE DEF c
    <3>2. /\ c \in Seq(Finding) /\ Len(c) = n + Len(new) /\ \A i \in 1..n : c[i] = decoded[i]
          /\ \A i \in (n + 1)..(n + Len(new)) : c[i] = new[i - n]
      BY <3>1 DEF IsCat
    <3> QED BY <3>2 DEF c
  <2> QED BY <2>1, <1>1
<1> DEFINE e == expected \o frames  d == decoded \o new
<1>5. expected' = e /\ decoded' = d
  BY DEF new
<1>6. /\ e \in Seq(Whole) /\ Len(e) = n + m /\ \A i \in 1..n : e[i] = decoded[i].frame
      /\ \A i \in (n + 1)..(n + m) : e[i] = frames[i - n]
  <2> HIDE DEF e, n, m
  <2> QED BY <1>2, <1>3 DEF e
<1> HIDE DEF e, d, n, m
<1>7. /\ d \in Seq(Finding) /\ Len(d) = n + m /\ \A i \in 1..n : d[i] = decoded[i]
      /\ \A i \in (n + 1)..(n + m) : d[i] = new[i - n]
  BY <1>4 DEF d
<1>8. ASSUME NEW i \in 1..(n + m) PROVE d[i].frame = e[i]
  <2>1. CASE i <= n
    <3>1. i \in 1..n
      BY <2>1, <1>1
    <3> QED BY <3>1, <1>6, <1>7
  <2>2. CASE i > n
    <3>1. i \in (n + 1)..(n + m) /\ i - n \in 1..m
      BY <2>2, <1>1
    <3> QED BY <3>1, <1>1, <1>6, <1>7
  <2> QED BY <2>1, <2>2, <1>1
<1>9. [i \in 1..Len(d) |-> d[i].frame] = e
  <2>1. e = [i \in 1..(n + m) |-> e[i]]
    BY <1>6
  <2>2. [i \in 1..(n + m) |-> d[i].frame] = [i \in 1..(n + m) |-> e[i]]
    BY <1>8
  <2>3. Len(d) = n + m
    BY <1>7
  <2> QED BY <2>1, <2>2, <2>3
<1>10. Decodes'
  <2>1. [i \in 1..Len(decoded') |-> decoded'[i].frame] = expected'
    BY <1>5, <1>9
  <2> QED BY <2>1 DEF Decodes
<1> QED BY <1>5, <1>6, <1>7, <1>10

LEMMA DecodeInit == Init => DecodeInv
<1> SUFFICES ASSUME Init PROVE DecodeInv
  OBVIOUS
<1>1. /\ wire = << >> /\ split = FALSE /\ nextSeq = FirstSeq /\ paused = FALSE /\ held = << >>
      /\ fed = << >> /\ expected = << >> /\ decoded = << >>
  BY DEF Init, PortInit
<1>2. PortInv
  <2>1. << >> \in Seq(Message)
    OBVIOUS
  <2> QED BY <1>1, <2>1 DEF PortInv
<1>3. KeptUp(held, fed)
  <2>1. 0 \in 0..Len(fed) /\ From(fed, 0 + 1) = << >> /\ \A q \in 1..0 : FALSE
    BY <1>1 DEF From
  <2> QED BY <2>1, <1>1 DEF KeptUp
<1>4. Decodes
  BY <1>1 DEF Decodes
<1>5. nextSeq \in Byte /\ paused \in BOOLEAN
  BY <1>1, TelemetryAssumption
<1>6. fed \in Seq(Byte) /\ expected \in Seq(Whole) /\ decoded \in Seq(Finding) /\ Len(fed) = 0
  BY <1>1
<1>7. Len(fed) < FrameSize
  BY <1>6, Constants
<1> QED BY <1>2, <1>3, <1>4, <1>5, <1>6, <1>7 DEF DecodeInv

LEMMA DecodeStep == DecodeInv /\ [Next]_vars => DecodeInv'
<1> SUFFICES ASSUME DecodeInv, [Next]_vars PROVE DecodeInv'
  OBVIOUS
<1> USE DEF DecodeInv
<1>0. Base \in Nat /\ Base > 3 /\ Byte = 0..(Base - 1)
  BY Constants
<1>1. CASE DeviceFrame
  <2>1. UNCHANGED <<held, fed, expected, decoded, paused>> /\ nextSeq' = (nextSeq + 1) % Base
    BY <1>1 DEF DeviceFrame, plotVars
  <2>2. PICK p \in Payload : Arrives("frame", Frame(nextSeq, p))
    BY <1>1 DEF DeviceFrame
  <2>3. Frame(nextSeq, p) \in Seq(Byte)
    BY FrameIs, TelemetryAssumption DEF Whole
  <2>4. PortInv'
    BY <2>2, <2>3, Arrival
  <2>5. nextSeq' \in Byte
    BY <2>1, <1>0
  <2> QED BY <2>1, <2>4, <2>5 DEF Decodes
<1>2. CASE DeviceOther
  <2>1. UNCHANGED <<held, fed, expected, decoded, paused, nextSeq>>
    BY <1>2 DEF DeviceOther, plotVars
  <2>2. PICK bytes \in Others : Arrives("other", bytes)
    BY <1>2 DEF DeviceOther
  <2>3. bytes \in Seq(Byte)
    BY TelemetryAssumption
  <2>4. PortInv'
    BY <2>2, <2>3, Arrival
  <2> QED BY <2>1, <2>4 DEF Decodes
<1>3. CASE Read
  <2>1. PICK part \in Parts : Some(part) /\ Advance(part) /\ Feed(Chunk(part))
    BY <1>3 DEF Read
  <2>2. PortInv' /\ Chunk(part) \in Seq(Byte)
    BY <2>1, Advances, ChunkType
  <2> DEFINE frames == AllFrames(fed \o Chunk(part)).frames
  <2>3. /\ frames \in Seq(Whole)
        /\ fed' \in Seq(Byte) /\ Len(fed') < FrameSize /\ KeptUp(held', fed')
        /\ expected' = expected \o frames /\ decoded' = decoded \o Findings(frames, ~paused)
    BY <2>1, <2>2, FeedIs
  <2> HIDE DEF frames
  <2>4. expected' \in Seq(Whole) /\ decoded' \in Seq(Finding) /\ Decodes'
    BY <2>3, DecodesMore, (~paused) \in BOOLEAN
  <2>5. UNCHANGED <<nextSeq, paused>>
    BY <1>3 DEF Read
  <2> QED BY <2>2, <2>3, <2>4, <2>5
<1>4. CASE Overlook
  <2>1. PICK part \in Parts : Some(part) /\ Advance(part)
    BY <1>4 DEF Overlook
  <2>2. PortInv'
    BY <2>1, Advances
  <2>3. UNCHANGED <<held, fed, expected, decoded, paused, nextSeq>>
    BY <1>4 DEF Overlook, plotVars
  <2> QED BY <2>2, <2>3 DEF Decodes
<1>5. CASE PauseOrResume
  <2>1. UNCHANGED <<held, fed, expected, decoded, nextSeq, wire, split>> /\ paused' = ~paused
    BY <1>5 DEF PauseOrResume, plotVars, portVars
  <2> QED BY <2>1 DEF Decodes, PortInv
<1>6. CASE UNCHANGED vars
  <2>1. UNCHANGED <<held, fed, expected, decoded, nextSeq, wire, split, paused>>
    BY <1>6 DEF vars, plotVars, portVars
  <2> QED BY <2>1 DEF Decodes, PortInv
<1> QED BY <1>1, <1>2, <1>3, <1>4, <1>5, <1>6 DEF Next

LEMMA DecodeAlways == Spec => []DecodeInv
<1> QED BY DecodeInit, DecodeStep, PTL DEF Spec

\* However the stream is cut up by the port, TelemetryDecoder.feed finds the
\* frames that a look at the whole stream finds, in order, no more and no less.
THEOREM DecodesCorrect == Spec => []Decodes
<1>1. DecodeInv => Decodes
  BY DEF DecodeInv
<1> QED BY <1>1, DecodeAlways, PTL
-----------------------------------------------------------------------------
(* The plot.                                                               *)

PlotType == [last : Byte \cup {NoFrame}, number : Nat, missing : Nat, samples : Seq(Nat)]

PlotSet == {plot \in PlotType : /\ Len(plot.samples) <= Window
                                /\ \A i \in 1..Len(plot.samples) : plot.samples[i] < plot.number}

GapOf(frame, before) == (Number(frame) - before) % Base

LEMMA NumberType == ASSUME NEW frame \in Whole PROVE Number(frame) \in Byte
<1>1. frame \in Seq(Byte) /\ 3 \in 1..Len(frame)
  BY Constants DEF Whole
<1> QED BY <1>1 DEF Number

LEMMA GapType ==
  ASSUME NEW frame \in Whole, NEW before \in Byte \cup {NoFrame}
  PROVE  GapOf(frame, before) \in Nat
<1>1. Number(frame) - before \in Int /\ Base \in Nat \ {0}
  BY NumberType, Constants DEF NoFrame
<1>2. GapOf(frame, before) \in 0..(Base - 1)
  BY <1>1, DivMod DEF GapOf
<1> QED BY <1>2

LEMMA NewestType ==
  ASSUME NEW s \in Seq(Nat), NEW k \in Nat, NEW x \in Nat, x < k,
         Len(s) <= Window, \A i \in 1..Len(s) : s[i] < k
  PROVE  LET t == Newest(Append(s, x))
         IN  t \in Seq(Nat) /\ Len(t) <= Window /\ \A i \in 1..Len(t) : t[i] < k
<1> DEFINE a == Append(s, x)
<1>1. /\ a \in Seq(Nat) /\ Len(a) = Len(s) + 1 /\ Len(s) \in Nat
      /\ \A i \in 1..Len(a) : a[i] < k
  <2>1. a \in Seq(Nat) /\ Len(a) = Len(s) + 1 /\ Len(s) \in Nat
    OBVIOUS
  <2>2. a[Len(s) + 1] = x /\ \A i \in 1..Len(s) : a[i] = s[i]
    OBVIOUS
  <2> HIDE DEF a
  <2>3. ASSUME NEW i \in 1..Len(a) PROVE a[i] < k
    <3>1. i \in 1..Len(s) \/ i = Len(s) + 1
      BY <2>1
    <3> QED BY <3>1, <2>2
  <2> QED BY <2>1, <2>3
<1> HIDE DEF a
<1>2. Window \in Nat
  BY TelemetryAssumption
<1>3. CASE Len(a) > Window
  <2>1. /\ Tail(a) \in Seq(Nat) /\ Len(Tail(a)) = Len(a) - 1
        /\ \A i \in 1..(Len(a) - 1) : Tail(a)[i] = a[i + 1]
    BY <1>1, a # << >>
  <2> DEFINE t == Tail(a)
  <2>2. Newest(a) = t
    BY <1>3 DEF Newest
  <2> HIDE DEF t
  <2>3. ASSUME NEW i \in 1..Len(t) PROVE t[i] < k
    <3>1. i + 1 \in 1..Len(a) /\ t[i] = a[i + 1]
      BY <1>1, <2>1 DEF t
    <3> QED BY <3>1, <1>1
  <2>4. Len(t) <= Window
    BY <1>1, <1>2, <2>1 DEF t
  <2> QED BY <2>1, <2>2, <2>3, <2>4 DEF t, a
<1>4. CASE ~(Len(a) > Window)
  <2>1. Newest(a) = a
    BY <1>4 DEF Newest
  <2>2. Len(a) <= Window
    BY <1>1, <1>2, <1>4
  <2> QED BY <2>1, <2>2, <1>1 DEF a
<1> QED BY <1>3, <1>4

LEMMA ShownIs ==
  ASSUME NEW plot \in PlotSet, NEW frame \in Whole
  PROVE  /\ Shown(plot, frame) \in PlotSet
         /\ Shown(plot, frame).missing =
              plot.missing + (IF plot.last # NoFrame /\ GapOf(frame, plot.last) # 0
                                THEN GapOf(frame, plot.last) - 1 ELSE 0)
         /\ Shown(plot, frame).last = Number(frame)
<1> DEFINE gap == GapOf(frame, plot.last)
           place == IF plot.last = NoFrame THEN plot.number ELSE plot.number + gap
           new == [last |-> Number(frame), number |-> place + 1,
                   missing |-> IF plot.last = NoFrame THEN plot.missing ELSE plot.missing + gap - 1,
                   samples |-> Newest(Append(plot.samples, place))]
           same == plot.last # NoFrame /\ gap = 0
<1>1. /\ plot.last \in Byte \cup {NoFrame} /\ plot.number \in Nat /\ plot.missing \in Nat
      /\ plot.samples \in Seq(Nat) /\ Len(plot.samples) <= Window
      /\ \A i \in 1..Len(plot.samples) : plot.samples[i] < plot.number
  BY DEF PlotSet, PlotType
<1>2. gap \in Nat /\ Number(frame) \in Byte
  BY <1>1, GapType, NumberType
<1>3. Shown(plot, frame) = IF same THEN plot ELSE new
  BY DEF Shown, GapOf
<1>4. Base \in Nat /\ Base > 3 /\ Byte = 0..(Base - 1) /\ NoFrame \notin Byte
  BY Constants DEF NoFrame
<1>5. CASE same
  <2>1. plot.last = Number(frame)
    <3>1. plot.last \in Byte /\ (Number(frame) - plot.last) % Base = 0
      BY <1>1, <1>5 DEF GapOf
    <3> DEFINE a == Number(frame)  b == plot.last
    <3>2. a \in 0..(Base - 1) /\ b \in 0..(Base - 1) /\ (a - b) % Base = 0
      BY <1>2, <1>4, <3>1
    <3> HIDE DEF a, b
    <3>3. CASE a # b
      <4>1. a - b # 0 /\ (a - b) - 0 < Base /\ 0 - (a - b) < Base /\ a - b \in Int /\ Base \in Nat \ {0} /\ 0 \in Int
        BY <1>4, <3>2, <3>3
      <4>2. (a - b) % Base # 0 % Base
        BY <4>1, ModDiffers
      <4>3. 0 % Base = 0
        BY <4>1, ModSmall, 0 \in 0..(Base - 1)
      <4> QED BY <4>2, <4>3, <3>2
    <3> QED BY <3>3 DEF a, b
  <2>2. Shown(plot, frame) = plot
    BY <1>3, <1>5
  <2>3. ~(plot.last # NoFrame /\ gap # 0)
    BY <1>5
  <2> HIDE DEF gap
  <2> QED BY <2>1, <2>2, <2>3, <1>1 DEF gap
<1>6. CASE ~same
  <2>0. Shown(plot, frame) = new
    BY <1>3, <1>6
  <2>1. place \in Nat
    BY <1>1, <1>2
  <2>2. \A i \in 1..Len(plot.samples) : plot.samples[i] < place + 1
    <3>1. place >= plot.number
      BY <1>1, <1>2
    <3>2. ASSUME NEW i \in 1..Len(plot.samples) PROVE plot.samples[i] < place + 1
      <4>1. plot.samples[i] \in Nat /\ plot.samples[i] < plot.number
        BY <1>1
      <4> HIDE DEF place
      <4> QED BY <3>1, <4>1, <2>1, <1>1
    <3> QED BY <3>2
  <2> DEFINE t == Newest(Append(plot.samples, place))
  <2>3. t \in Seq(Nat) /\ Len(t) <= Window /\ \A i \in 1..Len(t) : t[i] < place + 1
    <3> HIDE DEF place
    <3>1. place + 1 \in Nat /\ place < place + 1
      BY <2>1
    <3> QED BY <3>1, <2>1, <2>2, <1>1, NewestType
  <2> HIDE DEF t
  <2> DEFINE miss == IF plot.last = NoFrame THEN plot.missing ELSE plot.missing + gap - 1
  <2>4. miss \in Nat /\ miss = plot.missing + (IF plot.last # NoFrame /\ gap # 0 THEN gap - 1 ELSE 0)
    BY <1>1, <1>2, <1>6
  <2> HIDE DEF miss, gap, place, same
  <2>5. new = [last |-> Number(frame), number |-> place + 1, missing |-> miss, samples |-> t]
    BY DEF miss, t
  <2>6. new \in PlotType
    BY <2>1, <2>3, <2>4, <2>5, <1>2 DEF PlotType
  <2>7. new.samples = t /\ new.number = place + 1 /\ new.last = Number(frame) /\ new.missing = miss
    BY <2>5
  <2>8. new \in PlotSet
    BY <2>3, <2>6, <2>7 DEF PlotSet
  <2> HIDE DEF new
  <2> QED BY <2>0, <2>4, <2>7, <2>8 DEF gap
<1> QED BY <1>5, <1>6

LEMMA DiscardedIs ==
  ASSUME NEW plot \in PlotSet, NEW frame \in Whole
  PROVE  /\ Discarded(plot, frame) \in PlotSet
         /\ Discarded(plot, frame).missing = plot.missing
         /\ Discarded(plot, frame).last = Number(frame)
<1> DEFINE new == [plot EXCEPT !.last = Number(frame)]
<1>1. /\ plot \in PlotType /\ Len(plot.samples) <= Window
      /\ \A i \in 1..Len(plot.samples) : plot.samples[i] < plot.number
  BY DEF PlotSet
<1>2. Number(frame) \in Byte
  BY NumberType
<1>3. /\ new \in PlotType /\ new.samples = plot.samples /\ new.number = plot.number
      /\ new.missing = plot.missing /\ new.last = Number(frame)
  BY <1>1, <1>2 DEF PlotType
<1> HIDE DEF new
<1>4. new \in PlotSet
  BY <1>1, <1>3 DEF PlotSet
<1>5. Discarded(plot, frame) = new
  BY DEF Discarded, new
<1> QED BY <1>3, <1>4, <1>5
\* What one frame does to the plot.
Once(plot, frame) == IF paused THEN Discarded(plot, frame) ELSE Shown(plot, frame)

Plots(u, frames) == /\ u \in [0..Len(frames) -> PlotSet] /\ u[0] = Plot
                    /\ \A i \in 1..Len(frames) : u[i] = Once(u[i - 1], frames[i])

LEMMA OnceType ==
  ASSUME NEW plot \in PlotSet, NEW frame \in Whole
  PROVE  Once(plot, frame) \in PlotSet
  BY ShownIs, DiscardedIs DEF Once

LEMMA PlottedIs ==
  ASSUME Plot \in PlotSet, NEW frames \in Seq(Whole)
  PROVE  \E u : Plots(u, frames) /\ Plotted(frames) = u[Len(frames)]
<1> DEFINE n == Len(frames)
           Rule(g) == g = [i \in 0..n |-> IF i = 0 THEN Plot
                                          ELSE IF paused THEN Discarded(g[i - 1], frames[i])
                                          ELSE Shown(g[i - 1], frames[i])]
           g == CHOOSE h : Rule(h)
           step == [pi \in PlotSet \X (1..n) |-> Once(pi[1], frames[pi[2]])]
<1>1. Plotted(frames) = g[n]
  BY DEF Plotted
<1>2. n \in Nat /\ \A i \in 1..n : frames[i] \in Whole
  OBVIOUS
<1>3. IsStep(step, PlotSet, n)
  BY <1>2, OnceType DEF IsStep
<1>4. PICK u : Ascends(u, PlotSet, n, Plot, step)
  <2> HIDE DEF step, n
  <2> QED BY <1>2, <1>3, Ascent
<1>5. /\ u \in [0..n -> PlotSet] /\ u[0] = Plot
      /\ \A i \in 1..n : u[i] = Once(u[i - 1], frames[i])
  <2>1. u \in [0..n -> PlotSet] /\ u[0] = Plot /\ \A i \in 1..n : u[i] = step[<<u[i - 1], i>>]
    <3> HIDE DEF step, n
    <3> QED BY <1>4 DEF Ascends
  <2>2. ASSUME NEW i \in 1..n PROVE step[<<u[i - 1], i>>] = Once(u[i - 1], frames[i])
    <3>1. u[i - 1] \in PlotSet
      BY <2>1, <1>2, i - 1 \in 0..n
    <3> QED BY <3>1
  <2> QED BY <2>1, <2>2
<1>6. Rule(u)
  <2> DEFINE r == [i \in 0..n |-> IF i = 0 THEN Plot
                                  ELSE IF paused THEN Discarded(u[i - 1], frames[i])
                                  ELSE Shown(u[i - 1], frames[i])]
  <2>1. ASSUME NEW i \in 0..n PROVE u[i] = r[i]
    <3>1. CASE i = 0
      BY <3>1, <1>5
    <3>2. CASE i # 0
      <4>1. i \in 1..n
        BY <3>2, <1>2
      <4> QED BY <3>2, <4>1, <1>5 DEF Once
    <3> QED BY <3>1, <3>2
  <2>2. u = [i \in 0..n |-> u[i]]
    BY <1>5
  <2> QED BY <2>1, <2>2
<1>7. Rule(g)
  BY <1>6
<1> HIDE DEF g
<1>8. g[0] = Plot /\ \A i \in 1..n : g[i] = Once(g[i - 1], frames[i])
  <2>1. \A i \in 0..n : g[i] = IF i = 0 THEN Plot
                               ELSE IF paused THEN Discarded(g[i - 1], frames[i])
                               ELSE Shown(g[i - 1], frames[i])
    BY <1>7
  <2> HIDE DEF Rule
  <2>2. g[0] = Plot
    <3>1. 0 \in 0..n
      BY <1>2
    <3> QED BY <2>1, <3>1
  <2>3. ASSUME NEW i \in 1..n PROVE g[i] = Once(g[i - 1], frames[i])
    <3>1. i \in 0..n /\ i # 0
      BY <1>2
    <3> QED BY <2>1, <3>1 DEF Once
  <2> QED BY <2>2, <2>3
<1> HIDE DEF Rule, n
<1>9. Follows(g, u, n)
  BY <1>5, <1>8 DEF Follows
<1>10. g[n] = u[n]
  BY <1>2, <1>9, Alike, n \in 0..n
<1>11. Plots(u, frames)
  BY <1>5 DEF Plots, n
<1> QED BY <1>1, <1>10, <1>11 DEF n

\* The frames missing before a finding, as far as the number of a frame tells.
Skipped(findings, i) ==
  LET gap == GapOf(findings[i].frame, Number(findings[i - 1].frame))
  IN  IF i > 1 /\ findings[i].live /\ gap # 0 THEN gap - 1 ELSE 0

LastOf(findings, i) == IF i = 0 THEN NoFrame ELSE Number(findings[i].frame)

Counts(c, findings) ==
  /\ c \in [0..Len(findings) -> Nat] /\ c[0] = 0
  /\ \A i \in 1..Len(findings) : c[i] = c[i - 1] + Skipped(findings, i)

PlotInv ==
  /\ Plot \in PlotSet
  /\ last = LastOf(decoded, Len(decoded))
  /\ \E c : Counts(c, decoded) /\ missing = c[Len(decoded)]

\* One frame more: what the plot remembers and counts is what was found.
LEMMA OneMore ==
  ASSUME NEW plot \in PlotSet, NEW findings \in Seq(Finding), NEW i \in 1..Len(findings),
         plot.last = LastOf(findings, i - 1), findings[i].live = ~paused, paused \in BOOLEAN
  PROVE  LET after == Once(plot, findings[i].frame)
         IN  after.last = LastOf(findings, i) /\ after.missing = plot.missing + Skipped(findings, i)
<1> DEFINE frame == findings[i].frame  after == Once(plot, frame)
           gap == GapOf(frame, plot.last)
<1>1. frame \in Whole /\ findings[i].live \in BOOLEAN
  <2>1. findings[i] \in Finding
    OBVIOUS
  <2> QED BY <2>1 DEF Finding
<1>2. LastOf(findings, i) = Number(frame)
  BY DEF LastOf
<1>3. CASE i = 1
  <2>1. plot.last = NoFrame /\ Skipped(findings, i) = 0
    BY <1>3 DEF LastOf, Skipped
  <2>2. plot.missing \in Nat
    BY DEF PlotSet, PlotType
  <2> HIDE DEF frame
  <2>3. CASE paused
    <3>1. after.missing = plot.missing /\ after.last = Number(frame)
      BY <2>3, <1>1, DiscardedIs DEF Once
    <3> QED BY <3>1, <2>1, <2>2, <1>2 DEF frame
  <2>4. CASE ~paused
    <3>1. after.missing = plot.missing + 0 /\ after.last = Number(frame)
      BY <2>1, <2>4, <1>1, ShownIs DEF Once
    <3> QED BY <3>1, <2>1, <2>2, <1>2 DEF frame
  <2> QED BY <2>3, <2>4
<1>4. CASE i # 1
  <2>1. i - 1 \in 1..Len(findings) /\ i > 1 /\ i - 1 # 0
    BY <1>4
  <2>2. plot.last = Number(findings[i - 1].frame)
    BY <2>1 DEF LastOf
  <2>3. plot.last # NoFrame
    <3>0. findings[i - 1] \in Finding
      BY <2>1
    <3>1. findings[i - 1].frame \in Whole
      BY <3>0 DEF Finding
    <3>2. plot.last \in Byte
      BY <2>2, <3>1, NumberType
    <3> QED BY <3>2, Constants DEF NoFrame
  <2>4. plot.missing \in Nat
    BY DEF PlotSet, PlotType
  <2>5. Skipped(findings, i) = IF ~paused /\ gap # 0 THEN gap - 1 ELSE 0
    BY <2>1, <2>2 DEF Skipped
  <2> HIDE DEF frame, gap
  <2>6. CASE paused
    <3>1. after.missing = plot.missing /\ after.last = Number(frame)
      BY <2>6, <1>1, DiscardedIs DEF Once
    <3>2. Skipped(findings, i) = 0
      BY <2>5, <2>6
    <3> QED BY <3>1, <3>2, <2>4, <1>2 DEF frame
  <2>7. CASE ~paused
    <3>1. after.missing = plot.missing + (IF gap # 0 THEN gap - 1 ELSE 0) /\ after.last = Number(frame)
      BY <2>3, <2>7, <1>1, ShownIs DEF Once, gap
    <3>2. Skipped(findings, i) = IF gap # 0 THEN gap - 1 ELSE 0
      BY <2>5, <2>7
    <3> QED BY <3>1, <3>2, <1>2 DEF frame
  <2> QED BY <2>6, <2>7
<1> QED BY <1>3, <1>4

LEMMA CountsOn ==
  ASSUME decoded \in Seq(Finding), paused \in BOOLEAN, PlotInv,
         NEW frames \in Seq(Whole), NEW u, Plots(u, frames)
  PROVE  LET new == decoded \o Findings(frames, ~paused)
             k == Len(frames)
         IN  /\ u[k] \in PlotSet /\ u[k].last = LastOf(new, Len(new))
             /\ \E c : Counts(c, new) /\ u[k].missing = c[Len(new)]
<1> DEFINE found == Findings(frames, ~paused)  new == decoded \o found
           n == Len(decoded)  k == Len(frames)
<1>1. /\ found \in Seq(Finding) /\ Len(found) = k
      /\ \A i \in 1..k : found[i].frame = frames[i] /\ found[i].live = ~paused
      /\ n \in Nat /\ k \in Nat
  <2>1. (~paused) \in BOOLEAN /\ n \in Nat /\ k \in Nat
    OBVIOUS
  <2> HIDE DEF n, k
  <2>2. /\ found \in Seq(Finding) /\ Len(found) = k
        /\ \A i \in 1..k : found[i].frame = frames[i] /\ found[i].live = ~paused
    BY <2>1, FindingsType DEF k
  <2> QED BY <2>1, <2>2
<1> HIDE DEF found
<1>2. new \in Seq(Finding) /\ IsCat(new, decoded, found)
  BY <1>1, Catenated
<1> HIDE DEF new
<1>3. /\ Len(new) = n + k /\ \A i \in 1..n : new[i] = decoded[i]
      /\ \A i \in 1..k : new[n + i] = found[i]
  BY <1>1, <1>2 DEF IsCat
<1>4. /\ u \in [0..k -> PlotSet] /\ u[0] = Plot
      /\ \A i \in 1..k : u[i] = Once(u[i - 1], frames[i])
  BY DEF Plots
<1>5. Plot.last = last /\ Plot.missing = missing
  BY DEF Plot
<1> HIDE DEF n, k
\* What the plot remembers is the last finding.
<1>6. LastOf(new, n) = LastOf(decoded, n)
  <2>1. CASE n = 0
    BY <2>1 DEF LastOf
  <2>2. CASE n # 0
    <3>1. new[n] = decoded[n]
      BY <2>2, <1>1, <1>3
    <3> QED BY <3>1 DEF LastOf
  <2> QED BY <2>1, <2>2
<1>7. ASSUME NEW i \in 1..k, u[i - 1].last = LastOf(new, n + (i - 1))
      PROVE  /\ u[i].last = LastOf(new, n + i)
             /\ u[i].missing = u[i - 1].missing + Skipped(new, n + i)
  <2>1. /\ n + i \in 1..Len(new) /\ (n + i) - 1 = n + (i - 1) /\ i - 1 \in 0..k
        /\ new[n + i].frame = frames[i] /\ new[n + i].live = ~paused
    <3>1. n + i \in 1..Len(new) /\ (n + i) - 1 = n + (i - 1) /\ i - 1 \in 0..k
      BY <1>1, <1>3
    <3>2. new[n + i] = found[i]
      BY <1>3
    <3>3. found[i].frame = frames[i]
      BY <1>1
    <3>4. found[i].live = ~paused
      BY <1>1, Zenon
    <3> QED BY <3>1, <3>2, <3>3, <3>4
  <2>2. u[i - 1] \in PlotSet /\ u[i] = Once(u[i - 1], new[n + i].frame)
    BY <2>1, <1>4
  <2> DEFINE plot == u[i - 1]  m == n + i
  <2>3. plot.last = LastOf(new, m - 1) /\ m \in 1..Len(new) /\ plot \in PlotSet /\ new[m].live = ~paused
    BY <2>1, <2>2, <1>7
  <2>4. u[i] = Once(plot, new[m].frame)
    BY <2>2
  <2> HIDE DEF plot, m
  <2>5. /\ Once(plot, new[m].frame).last = LastOf(new, m)
        /\ Once(plot, new[m].frame).missing = plot.missing + Skipped(new, m)
    BY <1>2, <2>3, OneMore
  <2> QED BY <2>4, <2>5 DEF plot, m
<1> DEFINE Right == {i \in 0..k : u[i].last = LastOf(new, n + i)}
<1>8. 0..k \subseteq Right
  <2>1. 0 \in Right
    <3>1. u[0].last = LastOf(new, n) /\ n + 0 = n /\ 0 \in 0..k
      BY <1>1, <1>4, <1>5, <1>6 DEF PlotInv, n
    <3> QED BY <3>1
  <2>2. ASSUME NEW i \in 0..k, i \in Right, i < k PROVE i + 1 \in Right
    <3>1. i + 1 \in 1..k /\ (i + 1) - 1 = i /\ i + 1 \in 0..k
      BY <2>2, <1>1
    <3>2. u[(i + 1) - 1].last = LastOf(new, n + ((i + 1) - 1))
      BY <2>2, <3>1
    <3>3. u[i + 1].last = LastOf(new, n + (i + 1))
      BY <3>1, <3>2, <1>7
    <3> QED BY <3>1, <3>3
  <2> HIDE DEF Right
  <2> QED BY <2>1, <2>2, <1>1, Climb
<1>9. ASSUME NEW i \in 1..k PROVE u[i].missing = u[i - 1].missing + Skipped(new, n + i)
  <2>1. i - 1 \in 0..k
    BY <1>1
  <2>2. u[i - 1].last = LastOf(new, n + (i - 1))
    BY <2>1, <1>8
  <2> QED BY <2>2, <1>7
<1>10. u[k].last = LastOf(new, Len(new)) /\ u[k] \in PlotSet
  <2>1. k \in 0..k
    BY <1>1
  <2> QED BY <2>1, <1>3, <1>4, <1>8
<1>11. PICK c : Counts(c, decoded) /\ missing = c[n]
  BY DEF PlotInv, n
<1>12. /\ c \in [0..n -> Nat] /\ c[0] = 0 /\ c[n] = u[0].missing
       /\ \A i \in 1..n : c[i] = c[i - 1] + Skipped(decoded, i)
  BY <1>4, <1>5, <1>11 DEF Counts, n
<1>13. ASSUME NEW i \in 1..n PROVE Skipped(new, i) = Skipped(decoded, i)
  <2>1. CASE i = 1
    BY <2>1 DEF Skipped
  <2>2. CASE i # 1
    <3>1. i - 1 \in 1..n
      BY <2>2, <1>1
    <3> QED BY <3>1, <1>3 DEF Skipped
  <2> QED BY <2>1, <2>2
<1>14. \A i \in 0..k : u[i].missing \in Nat
  BY <1>4 DEF PlotSet, PlotType
<1> DEFINE e == [i \in 0..(n + k) |-> IF i <= n THEN c[i] ELSE u[i - n].missing]
<1>15. /\ e \in [0..(n + k) -> Nat] /\ \A i \in 0..n : e[i] = c[i]
       /\ \A i \in 0..k : e[n + i] = u[i].missing
  <2>1. ASSUME NEW i \in 0..(n + k)
        PROVE  (IF i <= n THEN c[i] ELSE u[i - n].missing) \in Nat
    <3>1. CASE i <= n
      BY <3>1, <1>1, <1>12
    <3>2. CASE ~(i <= n)
      <4>1. i - n \in 0..k
        BY <3>2, <1>1
      <4> QED BY <3>2, <4>1, <1>14
    <3> QED BY <3>1, <3>2
  <2>2. \A i \in 0..n : e[i] = c[i]
    BY <1>1
  <2>3. ASSUME NEW i \in 0..k PROVE e[n + i] = u[i].missing
    <3>1. CASE i = 0
      <4>1. n + i = n /\ n \in 0..(n + k)
        BY <3>1, <1>1
      <4> QED BY <4>1, <3>1, <1>1, <1>12
    <3>2. CASE i # 0
      <4>1. n + i \in 0..(n + k) /\ ~(n + i <= n) /\ (n + i) - n = i
        BY <3>2, <1>1
      <4> QED BY <4>1
    <3> QED BY <3>1, <3>2
  <2> QED BY <2>1, <2>2, <2>3
<1> HIDE DEF e
<1>16. ASSUME NEW i \in 1..(n + k) PROVE e[i] = e[i - 1] + Skipped(new, i)
  <2>1. CASE i <= n
    <3>1. i \in 1..n /\ i \in 0..n /\ i - 1 \in 0..n
      BY <2>1, <1>1
    <3> QED BY <3>1, <1>12, <1>13, <1>15
  <2>2. CASE ~(i <= n)
    <3> DEFINE j == i - n
    <3>1. j \in 1..k /\ j \in 0..k /\ j - 1 \in 0..k /\ n + j = i /\ n + (j - 1) = i - 1
      BY <2>2, <1>1
    <3> HIDE DEF j
    <3>2. u[j].missing = u[j - 1].missing + Skipped(new, n + j)
      BY <3>1, <1>9
    <3>3. e[n + j] = u[j].missing /\ e[n + (j - 1)] = u[j - 1].missing
      BY <3>1, <1>15
    <3> QED BY <3>1, <3>2, <3>3
  <2> QED BY <2>1, <2>2
<1>17. e[0] = 0
  BY <1>1, <1>12, <1>15, 0 \in 0..n
<1>18. Counts(e, new)
  BY <1>3, <1>15, <1>16, <1>17 DEF Counts
<1>19. u[k].missing = e[Len(new)]
  BY <1>1, <1>3, <1>15, k \in 0..k
<1> QED BY <1>10, <1>18, <1>19 DEF new, found, k
-----------------------------------------------------------------------------
(* The inductive invariant.                                                *)

SentInv ==
  /\ sent \in Seq(Whole)
  /\ nextSeq = (FirstSeq + Len(sent)) % Base
  /\ \A i \in 1..Len(sent) : Number(sent[i]) = (FirstSeq + (i - 1)) % Base

TelemetryInv == DecodeInv /\ PlotInv /\ SentInv

LEMMA TelemetryInit == Init => TelemetryInv
<1> SUFFICES ASSUME Init PROVE TelemetryInv
  OBVIOUS
<1>1. /\ last = NoFrame /\ number = 0 /\ missing = 0 /\ samples = << >> /\ decoded = << >>
      /\ sent = << >> /\ nextSeq = FirstSeq
  BY DEF Init
<1>2. Plot \in PlotSet
  <2>1. Plot = [last |-> NoFrame, number |-> 0, missing |-> 0, samples |-> << >>]
    BY <1>1 DEF Plot
  <2>2. << >> \in Seq(Nat) /\ Len(<< >>) = 0 /\ \A i \in 1..0 : FALSE
    OBVIOUS
  <2>3. Plot \in PlotType
    BY <2>1, <2>2 DEF PlotType
  <2>4. Plot.samples = << >>
    BY <2>1
  <2>5. 0 <= Window
    BY TelemetryAssumption
  <2> QED BY <2>2, <2>3, <2>4, <2>5 DEF PlotSet
<1>3. PlotInv
  <2> DEFINE c == [i \in 0..0 |-> 0]
  <2>1. c \in [0..0 -> Nat] /\ c[0] = 0 /\ \A i \in 1..0 : FALSE
    OBVIOUS
  <2> HIDE DEF c
  <2>2. Len(decoded) = 0
    BY <1>1
  <2>3. Counts(c, decoded) /\ missing = c[Len(decoded)]
    BY <1>1, <2>1, <2>2 DEF Counts
  <2>4. last = LastOf(decoded, Len(decoded))
    BY <1>1, <2>2 DEF LastOf
  <2> QED BY <1>2, <2>3, <2>4 DEF PlotInv
<1>4. SentInv
  <2>1. sent \in Seq(Whole) /\ Len(sent) = 0 /\ \A i \in 1..0 : FALSE
    BY <1>1
  <2>2. FirstSeq \in 0..(Base - 1) /\ Base \in Nat \ {0}
    BY TelemetryAssumption, Constants
  <2>3. (FirstSeq + 0) % Base = FirstSeq
    BY <2>2, ModSmall
  <2> QED BY <1>1, <2>1, <2>3 DEF SentInv
<1> QED BY <1>3, <1>4, DecodeInit DEF TelemetryInv

LEMMA SentStep == DecodeInv /\ SentInv /\ [Next]_vars => SentInv'
<1> SUFFICES ASSUME DecodeInv, SentInv, [Next]_vars PROVE SentInv'
  OBVIOUS
<1>1. CASE DeviceFrame
  <2>1. nextSeq \in Byte /\ sent \in Seq(Whole)
    BY DEF DecodeInv, SentInv
  <2>2. PICK p \in Payload : sent' = Append(sent, Frame(nextSeq, p))
    BY <1>1 DEF DeviceFrame
  <2>3. Frame(nextSeq, p) \in Whole /\ Number(Frame(nextSeq, p)) = nextSeq
    BY <2>1, FrameIs, TelemetryAssumption
  <2> DEFINE new == Frame(nextSeq, p)  n == Len(sent)
  <2> HIDE DEF new
  <2>4. /\ sent' \in Seq(Whole) /\ Len(sent') = n + 1 /\ sent'[n + 1] = new
        /\ \A i \in 1..n : sent'[i] = sent[i] /\ n \in Nat
    BY <2>1, <2>2, <2>3 DEF new
  <2>5. n \in Nat
    BY <2>1
  <2>6. /\ nextSeq = (FirstSeq + n) % Base
        /\ \A i \in 1..n : Number(sent[i]) = (FirstSeq + (i - 1)) % Base
    BY DEF SentInv
  <2> HIDE DEF n
  <2>7. Base \in Nat \ {0} /\ FirstSeq \in Int /\ FirstSeq + n \in Int
    BY <2>5, TelemetryAssumption, Constants
  <2>8. nextSeq' = (FirstSeq + (n + 1)) % Base
    <3>1. nextSeq' = (nextSeq + 1) % Base
      BY <1>1 DEF DeviceFrame
    <3>2. (((FirstSeq + n) % Base) + 1) % Base = ((FirstSeq + n) + 1) % Base
      BY <2>7, ModStep
    <3>3. (FirstSeq + n) + 1 = FirstSeq + (n + 1)
      BY <2>5, <2>7
    <3> QED BY <3>1, <3>2, <3>3, <2>6
  <2>9. ASSUME NEW i \in 1..(n + 1) PROVE Number(sent'[i]) = (FirstSeq + (i - 1)) % Base
    <3>1. CASE i \in 1..n
      BY <3>1, <2>4, <2>6
    <3>2. CASE i = n + 1
      <4>1. i - 1 = n
        BY <3>2, <2>5
      <4> QED BY <3>2, <4>1, <2>3, <2>4, <2>6 DEF new
    <3> QED BY <3>1, <3>2, <2>5
  <2> QED BY <2>4, <2>8, <2>9 DEF SentInv
<1>2. CASE UNCHANGED <<sent, nextSeq>>
  BY <1>2 DEF SentInv
<1>3. DeviceFrame \/ UNCHANGED <<sent, nextSeq>>
  BY DEF Next, DeviceOther, Read, Overlook, PauseOrResume, vars
<1> QED BY <1>1, <1>2, <1>3

LEMMA PlotStep == DecodeInv /\ PlotInv /\ [Next]_vars => PlotInv'
<1> SUFFICES ASSUME DecodeInv, PlotInv, [Next]_vars PROVE PlotInv'
  OBVIOUS
<1>1. CASE Read
  <2>1. PICK part \in Parts : Some(part) /\ Advance(part) /\ Feed(Chunk(part))
    BY <1>1 DEF Read
  <2>2. PortInv /\ decoded \in Seq(Finding) /\ paused \in BOOLEAN
    BY DEF DecodeInv
  <2>3. Chunk(part) \in Seq(Byte)
    BY <2>2, ChunkType
  <2> DEFINE frames == AllFrames(fed \o Chunk(part)).frames  k == Len(frames)
  <2>4. /\ frames \in Seq(Whole) /\ Scan(held \o Chunk(part)).frames = frames
        /\ decoded' = decoded \o Findings(frames, ~paused)
    BY <2>1, <2>3, FeedIs
  <2>5. /\ last' = Plotted(frames).last /\ number' = Plotted(frames).number
        /\ missing' = Plotted(frames).missing /\ samples' = Plotted(frames).samples
    <3> HIDE DEF frames
    <3> QED BY <2>1, <2>4 DEF Feed
  <2> HIDE DEF frames
  <2>6. PICK u : Plots(u, frames) /\ Plotted(frames) = u[k]
    BY <2>4, PlottedIs DEF PlotInv
  <2> DEFINE new == decoded \o Findings(frames, ~paused)
  <2>7. /\ u[k] \in PlotSet /\ u[k].last = LastOf(new, Len(new))
        /\ \E c : Counts(c, new) /\ u[k].missing = c[Len(new)]
    BY <2>2, <2>4, <2>6, CountsOn
  <2> HIDE DEF new, k
  <2>8. decoded' = new
    BY <2>4 DEF new
  <2>9. Plot' \in PlotSet
    <3>1. u[k] = [last |-> u[k].last, number |-> u[k].number, missing |-> u[k].missing,
                  samples |-> u[k].samples]
      BY <2>7 DEF PlotSet, PlotType
    <3>2. Plot' = u[k]
      BY <2>5, <2>6, <3>1 DEF Plot
    <3> QED BY <3>2, <2>7
  <2>10. PlotSet' = PlotSet
    BY DEF PlotSet, PlotType, Byte, NoFrame
  <2>11. last' = LastOf(decoded', Len(decoded'))
    BY <2>5, <2>6, <2>7, <2>8
  <2>12. \E c : Counts(c, decoded') /\ missing' = c[Len(decoded')]
    BY <2>5, <2>6, <2>7, <2>8
  <2> QED BY <2>9, <2>10, <2>11, <2>12 DEF PlotInv
<1>2. CASE UNCHANGED <<last, number, missing, samples, decoded>>
  BY <1>2 DEF PlotInv, Plot
<1>3. Read \/ UNCHANGED <<last, number, missing, samples, decoded>>
  BY DEF Next, DeviceFrame, DeviceOther, Overlook, PauseOrResume, vars, plotVars
<1> QED BY <1>1, <1>2, <1>3

LEMMA TelemetryAlways == Spec => []TelemetryInv
<1>1. TelemetryInv /\ [Next]_vars => TelemetryInv'
  BY DecodeStep, PlotStep, SentStep DEF TelemetryInv
<1> QED BY <1>1, TelemetryInit, PTL DEF Spec

\* The decoder keeps less than a frame; the plot keeps at most max_samples
\* places, all of them before the next one, and never counts below nothing.
THEOREM TypeCorrect == Spec => []TypeOK
<1>1. TelemetryInv => TypeOK
  <2> SUFFICES ASSUME TelemetryInv PROVE TypeOK
    OBVIOUS
  <2>1. PortTypeOK /\ nextSeq \in Byte /\ paused \in BOOLEAN
    BY PortIs DEF TelemetryInv, DecodeInv
  <2>2. held \in Seq(Byte) /\ Len(held) < FrameSize
    <3>1. fed \in Seq(Byte) /\ Len(fed) < FrameSize /\ KeptUp(held, fed)
      BY DEF TelemetryInv, DecodeInv
    <3>2. PICK d \in 0..Len(fed) : held = From(fed, d + 1)
      BY <3>1 DEF KeptUp
    <3>3. held \in Seq(Byte) /\ Len(held) = Len(fed) - (d + 1) + 1
      BY <3>1, <3>2, FromType, d + 1 \in 1..(Len(fed) + 1)
    <3> QED BY <3>1, <3>3, Constants
  <2>3. /\ last \in Byte \cup {NoFrame} /\ number \in Nat /\ missing \in Nat
        /\ Len(samples) <= Window /\ \A i \in 1..Len(samples) : samples[i] < number
    <3>1. Plot \in PlotSet
      BY DEF TelemetryInv, PlotInv
    <3>2. Plot.last = last /\ Plot.number = number /\ Plot.missing = missing /\ Plot.samples = samples
      BY DEF Plot
    <3> HIDE DEF Plot
    <3>3. /\ Plot \in PlotType /\ Len(Plot.samples) <= Window
          /\ \A i \in 1..Len(Plot.samples) : Plot.samples[i] < Plot.number
      BY <3>1 DEF PlotSet
    <3> QED BY <3>2, <3>3 DEF PlotType
  <2> QED BY <2>1, <2>2, <2>3 DEF TypeOK
<1> QED BY <1>1, TelemetryAlways, PTL

\* How far the numbers of two frames are apart tells how many were sent between
\* them, when it is less than a round.
LEMMA GapTells ==
  ASSUME NEW i \in Int, NEW j \in Int, i - j \in 1..(Base - 1)
  PROVE  (((FirstSeq + (i - 1)) % Base) - ((FirstSeq + (j - 1)) % Base)) % Base = i - j
<1> DEFINE a == FirstSeq + (i - 1)  b == FirstSeq + (j - 1)
<1>1. a \in Int /\ b \in Int /\ a - b = i - j /\ Base \in Nat \ {0} /\ i - j \in 0..(Base - 1)
  BY TelemetryAssumption, Constants
<1> HIDE DEF a, b
<1>2. ((a % Base) - (b % Base)) % Base = (a - b) % Base
  BY <1>1, ModDistance
<1>3. (i - j) % Base = i - j
  BY <1>1, ModSmall
<1> QED BY <1>1, <1>2, <1>3 DEF a, b

\* Whatever was overlooked at the port, LiveTelemetryPlot counts as missing the
\* frames sent between a frame it shows and the one before, as long as they are
\* less than a round of the sequence byte.
THEOREM AccountedCorrect == Spec => []Accounted
<1>1. TelemetryInv => Accounted
  <2> SUFFICES ASSUME TelemetryInv, NEW place \in [1..Len(decoded) -> 1..Len(sent)], Genuine(place)
               PROVE  LET between[i \in 0..Len(decoded)] ==
                            IF i = 0 THEN 0
                            ELSE between[i - 1] +
                                   (IF i > 1 /\ decoded[i].live THEN place[i] - place[i - 1] - 1
                                                                ELSE 0)
                      IN  missing = between[Len(decoded)]
    BY DEF Accounted
  <2> DEFINE m == Len(decoded)
             More(i) == IF i > 1 /\ decoded[i].live THEN place[i] - place[i - 1] - 1 ELSE 0
             Rule(g) == g = [i \in 0..m |-> IF i = 0 THEN 0 ELSE g[i - 1] + More(i)]
             g == CHOOSE h : Rule(h)
  <2>1. SUFFICES missing = g[m]
    OBVIOUS
  <2>2. decoded \in Seq(Finding) /\ m \in Nat
    BY DEF TelemetryInv, DecodeInv
  <2>3. PICK c : Counts(c, decoded) /\ missing = c[m]
    BY DEF TelemetryInv, PlotInv
  <2>4. c \in [0..m -> Nat] /\ c[0] = 0 /\ \A i \in 1..m : c[i] = c[i - 1] + Skipped(decoded, i)
    BY <2>3 DEF Counts
  <2>5. \A i \in 1..m : Number(decoded[i].frame) = (FirstSeq + (place[i] - 1)) % Base
    <3>1. \A i \in 1..m : place[i] \in 1..Len(sent) /\ sent[place[i]] = decoded[i].frame
      BY DEF Genuine
    <3>2. \A i \in 1..Len(sent) : Number(sent[i]) = (FirstSeq + (i - 1)) % Base
      BY DEF TelemetryInv, SentInv
    <3> HIDE DEF m
    <3>3. ASSUME NEW i \in 1..m PROVE Number(decoded[i].frame) = (FirstSeq + (place[i] - 1)) % Base
      <4>1. place[i] \in 1..Len(sent) /\ sent[place[i]] = decoded[i].frame
        BY <3>1
      <4>2. Number(sent[place[i]]) = (FirstSeq + (place[i] - 1)) % Base
        BY <4>1, <3>2
      <4> QED BY <4>1, <4>2
    <3> QED BY <3>3
  <2>6. ASSUME NEW i \in 1..m PROVE Skipped(decoded, i) = More(i)
    <3>1. CASE i = 1
      BY <3>1 DEF Skipped
    <3>2. CASE i # 1
      <4>1. i > 1 /\ i - 1 \in 1..m
        BY <3>2, <2>2
      <4>2. place[i] \in Int /\ place[i - 1] \in Int /\ place[i] - place[i - 1] \in 1..(Base - 1)
        <5>1. place[i] \in 1..Len(sent) /\ place[i - 1] \in 1..Len(sent)
          BY <4>1
        <5>2. place[i] - place[i - 1] \in 1..(Base - 1)
          BY <4>1 DEF Genuine
        <5> QED BY <5>1, <5>2
      <4> DEFINE p == place[i]  q == place[i - 1]
      <4>3. GapOf(decoded[i].frame, Number(decoded[i - 1].frame)) = p - q
        <5>1. /\ Number(decoded[i].frame) = (FirstSeq + (p - 1)) % Base
              /\ Number(decoded[i - 1].frame) = (FirstSeq + (q - 1)) % Base
          BY <4>1, <2>5
        <5>2. (((FirstSeq + (p - 1)) % Base) - ((FirstSeq + (q - 1)) % Base)) % Base = p - q
          BY <4>2, GapTells
        <5> HIDE DEF p, q
        <5> QED BY <5>1, <5>2 DEF GapOf
      <4>4. p - q # 0
        BY <4>2
      <4> QED BY <4>1, <4>3, <4>4 DEF Skipped
    <3> QED BY <3>1, <3>2
  <2> HIDE DEF More, m
  <2>7. \A i \in 1..m : c[i] = c[i - 1] + More(i)
    BY <2>4, <2>6
  <2>8. Rule(c)
    <3> DEFINE r == [i \in 0..m |-> IF i = 0 THEN 0 ELSE c[i - 1] + More(i)]
    <3>1. ASSUME NEW i \in 0..m PROVE c[i] = r[i]
      <4>1. CASE i = 0
        BY <4>1, <2>4
      <4>2. CASE i # 0
        <5>1. i \in 1..m
          BY <4>2, <2>2
        <5> QED BY <5>1, <4>2, <2>7
      <4> QED BY <4>1, <4>2
    <3>2. c = [i \in 0..m |-> c[i]]
      BY <2>4
    <3> QED BY <3>1, <3>2
  <2>9. Rule(g)
    BY <2>8
  <2> HIDE DEF g
  <2>10. g[0] = 0 /\ \A i \in 1..m : g[i] = g[i - 1] + More(i)
    <3>1. \A i \in 0..m : g[i] = IF i = 0 THEN 0 ELSE g[i - 1] + More(i)
      BY <2>9
    <3>2. 0 \in 0..m /\ \A i \in 1..m : i \in 0..m /\ i # 0
      BY <2>2
    <3> QED BY <3>1, <3>2
  <2> HIDE DEF Rule
  <2>11. Follows(g, c, m)
    BY <2>4, <2>7, <2>10 DEF Follows
  <2>12. g[m] = c[m]
    BY <2>2, <2>11, Alike, m \in 0..m
  <2> QED BY <2>3, <2>12
<1> QED BY <1>1, TelemetryAlways, PTL
=============================================================================
