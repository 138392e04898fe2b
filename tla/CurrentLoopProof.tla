-------------------------- MODULE CurrentLoopProof --------------------------
(***************************************************************************)
(* Theorems about CurrentLoop, for every length of the ring, every reading *)
(* and every word.                                                         *)
(***************************************************************************)
EXTENDS CurrentLoop, BasicFacts

-----------------------------------------------------------------------------
(* The ring. *)

LEMMA Sizes == FrameCount \in Nat \ {0} /\ L = 5 /\ N = FrameCount * L
  BY LoopAssumption DEF L, N

LEMMA SizeTypes == FrameCount \in Nat \ {0} /\ L \in Nat \ {0} /\ N \in Nat \ {0}
  BY LoopAssumption DEF L, N

\* The frame the DMA is in is found from the samples left of the ring.
LEMMA FrameOf ==
  ASSUME NEW w \in Nat
  PROVE  Complete(w % N) % FrameCount = (w \div L) % FrameCount
<1> DEFINE q == w \div N  r == w % N  k == r \div L  j == r % L
<1>0. w \in Int /\ N \in Nat \ {0}
  BY SizeTypes
<1>1. q \in Int /\ r \in 0..(N - 1) /\ w = N * q + r
  BY <1>0, DivMod
<1> HIDE DEF q, r
<1>2. k \in Int /\ j \in 0..(L - 1) /\ r = L * k + j
  BY <1>1, DivMod, Sizes
<1> HIDE DEF k, j
<1>3. w = L * (FrameCount * q + k) + j
  <2>1. N * q = L * (FrameCount * q)
    BY <1>1, Sizes
  <2>2. FrameCount * q \in Int
    BY <1>1, Sizes
  <2>3. L * (FrameCount * q + k) = L * (FrameCount * q) + L * k
    BY <1>2, <2>2, Sizes
  <2> QED BY <2>1, <2>2, <2>3, <1>1, <1>2, Sizes
<1>4. w \div L = FrameCount * q + k
  BY <1>1, <1>2, <1>3, DivUnique, Sizes, FrameCount * q + k \in Int
<1>5. (k + FrameCount * q) % FrameCount = k % FrameCount
  BY <1>1, <1>2, ModTurns, Sizes
<1>6. Complete(w % N) = k
  BY DEF Complete, k, r
<1> QED BY <1>1, <1>2, <1>4, <1>5, <1>6, Sizes

\* A sample's frame and its place in it give its place in the ring.
LEMMA PlaceOf ==
  ASSUME NEW c \in Nat, NEW j \in 0..(L - 1)
  PROVE  /\ (c % FrameCount) * L + j = (c * L + j) % N
         /\ (c % FrameCount) * L + j \in 0..(N - 1)
<1> DEFINE q == c \div FrameCount  r == c % FrameCount
<1>1. q \in Int /\ r \in 0..(FrameCount - 1) /\ c = FrameCount * q + r
  BY DivMod, Sizes
<1> HIDE DEF q, r
<1>2. r * L + j \in 0..(N - 1)
  BY <1>1, Sizes
<1>3. c * L + j = N * q + (r * L + j)
  BY <1>1, Sizes
<1>4. (N * q + (r * L + j)) % N = r * L + j
  BY <1>1, <1>2, DivUnique, SizeTypes
<1> QED BY <1>2, <1>3, <1>4 DEF r

-----------------------------------------------------------------------------
(* The drain. *)

\* The samples of a whole run.
Limit == MaxFrames * L

LEMMA LimitType == MaxFrames \in Nat /\ Limit \in Nat
  BY LoopAssumption, Sizes DEF Limit

\* The next sample the drain reads, by its number since power-up.
NextSample == (base + frameCount) * L + slot

RingType ==
  /\ buffer \in [0..(N - 1) -> -1..(Limit - 1)]
  /\ written \in 0..Limit
  /\ readFrame \in 0..(FrameCount - 1) /\ writeFrame \in 0..(FrameCount - 1)
  /\ pc \in {"idle", "drain"} /\ frameCount \in 0..(FrameCount - 1) /\ slot \in 0..(L - 1)
  /\ snap \in 0..MaxFrames /\ base \in 0..snap
  /\ overrun \in BOOLEAN /\ right \in BOOLEAN

\* The two frame numbers, which wrap, against the counts, which do not.
Places ==
  /\ snap * L <= written
  /\ pc = "idle" => readFrame = snap % FrameCount
  /\ pc = "drain" => /\ snap - base < FrameCount
                     /\ writeFrame = snap % FrameCount
                     /\ readFrame = (base + frameCount) % FrameCount
                     /\ base + frameCount <= snap
                     /\ slot > 0 => base + frameCount < snap

\* The ring holds its last N samples, and those still to read are among them.
Recent == \A s \in Nat : s < written /\ written - N <= s => buffer[s % N] = s
Holds ==
  /\ Recent
  /\ ~overrun /\ pc = "drain" /\ NextSample < snap * L => written - N <= NextSample

RingInv == RingType /\ Places /\ Holds /\ WholeFrames

LEMMA RingInit == Init => RingInv
<1> SUFFICES ASSUME Init PROVE RingInv
  OBVIOUS
<1>1. /\ 0 \in 0..(FrameCount - 1) /\ 0 \in 0..(L - 1) /\ 0 \in 0..Limit
      /\ 0 \in 0..MaxFrames /\ 0 \in 0..0
  BY SizeTypes, LimitType
<1>2. buffer \in [0..(N - 1) -> -1..(Limit - 1)]
  BY LimitType DEF Init
<1>3. RingType
  BY <1>1, <1>2 DEF Init, RingType
<1>4. 0 % FrameCount = 0
  BY <1>1, SizeTypes, ModSmall
<1>5. Places
  BY <1>4, Sizes DEF Init, Places
<1>6. Holds
  BY DEF Init, Holds, Recent
<1>7. WholeFrames
  BY DEF Init, WholeFrames
<1> QED BY <1>3, <1>5, <1>6, <1>7 DEF RingInv

LEMMA RingDma == ASSUME RingInv, DmaWrites PROVE RingInv'
<1>1. /\ written \in 0..Limit /\ buffer \in [0..(N - 1) -> -1..(Limit - 1)]
      /\ base \in Nat /\ frameCount \in Nat /\ slot \in Nat /\ snap \in Nat
  BY SizeTypes, LimitType DEF RingInv, RingType
<1>2. /\ written < Limit
      /\ buffer' = [buffer EXCEPT ![written % N] = written]
      /\ written' = written + 1
      /\ overrun' = \/ overrun
                    \/ pc = "drain" /\ written - N \in NextSample..(snap * L - 1)
      /\ UNCHANGED <<drainVars, snap, base, right>>
  BY DEF DmaWrites, NextSample, Limit
<1>3. written \in Nat /\ N \in Nat \ {0}
  BY <1>1, SizeTypes, LimitType
<1>4. written % N \in 0..(N - 1)
  BY <1>3, DivMod
<1>5. RingType'
  <2>1. buffer' \in [0..(N - 1) -> -1..(Limit - 1)]
    BY <1>1, <1>2, <1>4, LimitType
  <2>2. written' \in 0..Limit
    BY <1>1, <1>2, LimitType
  <2>3. overrun' \in BOOLEAN
    BY <1>2 DEF RingInv, RingType
  <2> QED BY <2>1, <2>2, <2>3, <1>2 DEF RingInv, RingType, drainVars
<1>6. Places'
  <2>1. snap * L <= written /\ snap * L \in Int
    BY <1>1, Sizes DEF RingInv, Places
  <2>2. snap' * L <= written'
    BY <2>1, <1>1, <1>2, LimitType
  <2> QED BY <2>2, <1>2 DEF RingInv, Places, drainVars
<1>7. ASSUME NEW s \in Nat, s < written', written' - N <= s
      PROVE  buffer'[s % N] = s
  <2>1. CASE s = written
    BY <2>1, <1>1, <1>2, <1>4
  <2>2. CASE s # written
    <3>1. s < written /\ written - N <= s /\ written - s < N /\ s - written < N
      BY <2>2, <1>2, <1>3, <1>7
    <3>2. s % N # written % N
      <4>1. s \in Int /\ written \in Int
        BY <1>3
      <4> QED BY <4>1, <3>1, <2>2, <1>3, ModDiffers
    <3>3. s % N \in 0..(N - 1)
      BY <1>3, DivMod
    <3>4. buffer[s % N] = s
      BY <3>1 DEF RingInv, Holds, Recent
    <3> QED BY <3>2, <3>3, <3>4, <1>1, <1>2, <1>4
  <2> QED BY <2>1, <2>2
<1>8. NextSample \in Int /\ NextSample' = NextSample /\ snap' = snap /\ snap * L \in Int
  BY <1>1, <1>2, Sizes DEF NextSample, drainVars
<1>9. ~overrun' /\ pc' = "drain" /\ NextSample' < snap' * L => written' - N <= NextSample'
  BY <1>2, <1>3, <1>8 DEF RingInv, Holds, drainVars
<1>10. Recent'
  BY <1>7 DEF Recent
<1>11. Holds'
  BY <1>9, <1>10 DEF Holds
<1>12. WholeFrames'
  BY <1>2 DEF RingInv, WholeFrames
<1> QED BY <1>5, <1>6, <1>11, <1>12 DEF RingInv

\* A drain begins where the last one ended, unless the ring is full.
LEMMA RingBegin ==
  ASSUME RingInv, DrainBegin
  PROVE  RingInv' /\ (snap' - snap < FrameCount => base' = snap)
<1> DEFINE f == written \div L
           d == (f - snap) % FrameCount
<1>1. /\ pc = "idle" /\ pc' = "drain" /\ frameCount' = 0 /\ slot' = 0
      /\ writeFrame' = Complete(written % N) % FrameCount
      /\ snap' = f
      /\ base' = f - ((writeFrame' - readFrame) % FrameCount)
      /\ overrun' = FALSE /\ right' = TRUE
      /\ buffer' = buffer /\ written' = written /\ readFrame' = readFrame
  BY DEF DrainBegin, dmaVars
<1>2. /\ written \in Nat /\ written <= Limit /\ snap \in Nat /\ readFrame \in 0..(FrameCount - 1)
      /\ FrameCount \in Nat \ {0} /\ FrameCount \in Nat /\ L \in Nat \ {0}
  BY SizeTypes, LimitType DEF RingInv, RingType
<1>3. f \in Int /\ 5 * f <= written /\ written < 5 * f + 5
  <2>1. /\ f \in Int /\ written % L \in 0..(L - 1)
        /\ written = L * f + (written % L)
    BY <1>2, DivMod
  <2> HIDE DEF f
  <2> QED BY <2>1, <1>2, Sizes
<1>4. writeFrame' = f % FrameCount
  BY <1>1, <1>2, FrameOf
<1> HIDE DEF f
<1>5. snap <= f /\ f <= MaxFrames
  <2>1. 5 * snap <= written
    BY <1>2, Sizes DEF RingInv, Places
  <2>2. Limit = 5 * MaxFrames
    BY LimitType, Sizes DEF Limit
  <2> QED BY <2>1, <2>2, <1>2, <1>3, LimitType
<1>6. f - snap \in Nat /\ f - snap \in Int
  BY <1>2, <1>3, <1>5
<1>7. readFrame = snap % FrameCount
  BY <1>1 DEF RingInv, Places
<1>8. ((f % FrameCount) - readFrame) % FrameCount = d
  <2>1. f \in Int /\ snap \in Int
    BY <1>2, <1>3
  <2>2. ((f % FrameCount) - (snap % FrameCount)) % FrameCount = (f - snap) % FrameCount
    BY <2>1, <1>2, ModDistance
  <2> QED BY <2>2, <1>7 DEF d
<1>9. d \in 0..(FrameCount - 1) /\ d <= f - snap
  BY <1>2, <1>6, DivMod, ModLess
<1>10. f - snap < FrameCount => d = f - snap
  BY <1>2, <1>6, ModSmall
<1>11. \E k \in Int : f - snap = FrameCount * k + d
  BY <1>2, <1>6, DivMod
<1> HIDE DEF d
<1>12. base' = f - d
  BY <1>1, <1>4, <1>8
<1>13. RingType'
  <2>1. f % FrameCount \in 0..(FrameCount - 1)
    BY <1>2, <1>3, DivMod
  <2>2. f \in 0..MaxFrames /\ f - d \in 0..f
    BY <1>2, <1>3, <1>5, <1>9, LimitType
  <2>3. 0 \in 0..(FrameCount - 1) /\ 0 \in 0..(L - 1)
    BY <1>2
  <2> QED BY <2>1, <2>2, <2>3, <1>1, <1>4, <1>12 DEF RingInv, RingType
<1>14. readFrame = (f - d) % FrameCount
  <2>1. PICK k \in Int : f - snap = FrameCount * k + d
    BY <1>11
  <2>2. FrameCount * k \in Int
    BY <2>1, <1>2
  <2>3. f - d = snap + FrameCount * k
    BY <2>1, <2>2, <1>2, <1>3, <1>9
  <2>4. snap \in Int
    BY <1>2
  <2> QED BY <2>1, <2>3, <2>4, <1>2, <1>7, ModTurns
<1>15. Places'
  <2>1. /\ f - (f - d) < FrameCount /\ (f - d) + 0 <= f /\ (f - d) + 0 = f - d
        /\ f * L <= written
    BY <1>2, <1>3, <1>9, Sizes
  <2> QED BY <2>1, <1>1, <1>4, <1>12, <1>14 DEF Places
<1>16. written - N <= NextSample'
  <2>1. ((f - d) + 0) * L + 0 = (f - d) * 5
    BY <1>3, <1>9, Sizes
  <2>2. NextSample' = (f - d) * 5
    BY <2>1, <1>1, <1>12 DEF NextSample
  <2>3. N = FrameCount * 5
    BY Sizes
  <2>4. written - FrameCount * 5 <= (f - d) * 5
    BY <1>2, <1>3, <1>9
  <2> QED BY <2>2, <2>3, <2>4
<1>17. Holds'
  BY <1>1, <1>16 DEF RingInv, Holds, Recent
<1>18. WholeFrames'
  BY <1>1 DEF WholeFrames
<1>19. f - snap < FrameCount => f - d = snap
  BY <1>2, <1>3, <1>9, <1>10
<1> QED BY <1>1, <1>12, <1>13, <1>15, <1>17, <1>18, <1>19 DEF RingInv

\* A step of the drain takes the sample that is next, from its place.
LEMMA RingSample == ASSUME RingInv, DrainSample PROVE RingInv'
<1> DEFINE c == base + frameCount
<1>1. /\ pc = "drain" /\ (slot > 0 \/ More)
      /\ right' = (right /\ buffer[readFrame * L + slot] = c * L + slot)
      /\ slot' = (slot + 1) % L
      /\ IF slot = L - 1 THEN readFrame' = NextFrame(readFrame) /\ frameCount' = frameCount + 1
                         ELSE readFrame' = readFrame /\ frameCount' = frameCount
      /\ buffer' = buffer /\ written' = written /\ pc' = pc /\ writeFrame' = writeFrame
      /\ snap' = snap /\ base' = base /\ overrun' = overrun
  BY DEF DrainSample, dmaVars
<1>2. /\ written \in Nat /\ snap \in Nat /\ base \in Nat /\ frameCount \in Nat
      /\ slot \in 0..4 /\ FrameCount \in Nat \ {0} /\ FrameCount \in Nat /\ L = 5
      /\ snap - base < FrameCount /\ c <= snap /\ c \in Nat
      /\ readFrame = c % FrameCount /\ writeFrame = snap % FrameCount
  BY <1>1, Sizes, SizeTypes, LimitType DEF RingInv, RingType, Places
<1>3. c < snap
  <2>1. CASE slot > 0
    BY <2>1, <1>1 DEF RingInv, Places
  <2>2. CASE More
    <3>1. c # snap
      BY <2>2, <1>2 DEF More
    <3> QED BY <3>1, <1>2
  <2> QED BY <2>1, <2>2, <1>1
<1>4. /\ NextSample = c * L + slot /\ NextSample \in Nat
      /\ snap * L = 5 * snap /\ c * L = 5 * c
  BY <1>2 DEF NextSample
<1> HIDE DEF c
<1>5. NextSample < snap * L /\ NextSample < written
  <2>1. 5 * snap <= written
    BY <1>2, <1>4 DEF RingInv, Places
  <2> QED BY <2>1, <1>2, <1>3, <1>4
<1>6. right' = right \/ overrun
  <2>1. readFrame * L + slot = NextSample % N
    BY <1>2, <1>4, PlaceOf, slot \in 0..(L - 1)
  <2>2. overrun \/ written - N <= NextSample
    BY <1>1, <1>5 DEF RingInv, Holds
  <2>3. overrun \/ buffer[NextSample % N] = NextSample
    BY <2>2, <1>4, <1>5 DEF RingInv, Holds, Recent
  <2> QED BY <2>1, <2>3, <1>1, <1>4 DEF RingInv, RingType
<1>7. WholeFrames'
  BY <1>1, <1>6 DEF RingInv, WholeFrames
<1>8. right' \in BOOLEAN
  BY <1>1 DEF RingInv, RingType
<1>9. CASE slot = 4
  <2>1. slot' = 0 /\ readFrame' = NextFrame(readFrame) /\ frameCount' = frameCount + 1
    <3>1. (4 + 1) % 5 = 0
      OBVIOUS
    <3> QED BY <3>1, <1>1, <1>2, <1>9
  <2>2. /\ base + (frameCount + 1) = c + 1 /\ c + 1 <= snap
        /\ frameCount + 1 \in 0..(FrameCount - 1)
    BY <1>2, <1>3 DEF c
  <2>3. NextFrame(readFrame) = (c + 1) % FrameCount
    BY <1>2, ModStep, c \in Int DEF NextFrame
  <2>4. (c + 1) % FrameCount \in 0..(FrameCount - 1)
    BY <1>2, DivMod, c + 1 \in Int
  <2>5. (c + 1) * L + 0 = NextSample + 1
    BY <1>2, <1>4, <1>9
  <2>6. 0 \in 0..(L - 1)
    BY <1>2
  <2>7. RingType'
    BY <2>1, <2>2, <2>3, <2>4, <2>6, <1>1, <1>8 DEF RingInv, RingType
  <2>8. Places'
    BY <2>1, <2>2, <2>3, <1>1, <1>2 DEF RingInv, Places
  <2>9. NextSample' = NextSample + 1
    BY <2>1, <2>2, <2>5, <1>1 DEF NextSample
  <2>10. written - N <= NextSample => written - N <= NextSample + 1
    BY <1>2, <1>4, SizeTypes
  <2>11. Holds'
    BY <2>9, <2>10, <1>1, <1>5 DEF RingInv, Holds, Recent
  <2> QED BY <2>7, <2>8, <2>11, <1>7 DEF RingInv
<1>10. CASE slot # 4
  <2>1. slot' = slot + 1 /\ readFrame' = readFrame /\ frameCount' = frameCount
    <3>1. (slot + 1) % 5 = slot + 1
      BY <1>2, <1>10
    <3> QED BY <3>1, <1>1, <1>2, <1>10
  <2>2. slot + 1 \in 0..(L - 1) /\ base + frameCount < snap
    BY <1>2, <1>3, <1>10 DEF c
  <2>3. c * L + (slot + 1) = NextSample + 1
    BY <1>2, <1>4
  <2>4. RingType'
    BY <2>1, <2>2, <1>1, <1>8 DEF RingInv, RingType
  <2>5. Places'
    BY <2>1, <2>2, <1>1, <1>2 DEF RingInv, Places
  <2>6. NextSample' = NextSample + 1
    BY <2>1, <2>3, <1>1 DEF NextSample, c
  <2>7. written - N <= NextSample => written - N <= NextSample + 1
    BY <1>2, <1>4, SizeTypes
  <2>8. Holds'
    BY <2>6, <2>7, <1>1, <1>5 DEF RingInv, Holds, Recent
  <2> QED BY <2>4, <2>5, <2>8, <1>7 DEF RingInv
<1> QED BY <1>9, <1>10

\* The drain ends where the DMA was when it began.
LEMMA RingControl == ASSUME RingInv, Control PROVE RingInv'
<1>1. /\ pc = "drain" /\ slot = 0 /\ ~More /\ pc' = "idle"
      /\ UNCHANGED <<dmaVars, readFrame, writeFrame, frameCount, slot, accountVars>>
  BY DEF Control
<1>2. RingType' /\ Holds' /\ WholeFrames'
  BY <1>1 DEF RingInv, RingType, Holds, Recent, WholeFrames, NextSample, dmaVars, accountVars
<1>3. readFrame = writeFrame
  <2>1. frameCount < FrameCount
    BY SizeTypes DEF RingInv, RingType
  <2> QED BY <2>1, <1>1 DEF More, Budget
<1>4. Places'
  BY <1>1, <1>3 DEF RingInv, Places, dmaVars, accountVars
<1> QED BY <1>2, <1>4 DEF RingInv

LEMMA RingNext == ASSUME RingInv, [Next]_vars PROVE RingInv'
<1>1. ASSUME UNCHANGED <<dmaVars, drainVars, accountVars>> PROVE RingInv'
  BY <1>1 DEF RingInv, RingType, Places, Holds, Recent, WholeFrames, NextSample,
              dmaVars, drainVars, accountVars
<1>2. CASE TaskSetpoint
  BY <1>1, <1>2 DEF TaskSetpoint
<1>3. CASE HostSetpoint
  BY <1>1, <1>3 DEF HostSetpoint
<1>4. CASE FsmSwitches
  BY <1>1, <1>4 DEF FsmSwitches
<1>5. CASE HostGains
  BY <1>1, <1>5 DEF HostGains
<1>6. CASE UNCHANGED vars
  BY <1>1, <1>6 DEF vars
<1> QED BY RingDma, RingBegin, RingSample, RingControl, <1>2, <1>3, <1>4, <1>5, <1>6 DEF Next

LEMMA RingAlways == Spec => []RingInv
  BY RingInit, RingNext, PTL DEF Spec

\* Every sample that is averaged belongs to the place and to the frame it is
\* taken for, whatever the length of the ring, unless the DMA laps the drain.
THEOREM WholeFramesCorrect == Spec => []WholeFrames
<1>1. RingInv => WholeFrames
  BY DEF RingInv
<1> QED BY <1>1, RingAlways, PTL

\* A drain goes on where the last one ended, however often the ring has turned,
\* unless the ring was full.
THEOREM NoneSkippedCorrect == Spec => NoneSkipped
<1> DEFINE Step == pc = "idle" /\ pc' = "drain" /\ snap' - snap < FrameCount => base' = snap
<1>1. ASSUME RingInv, [Next]_vars, pc = "idle", pc' = "drain" PROVE DrainBegin
  <2>1. \/ DmaWrites \/ DrainBegin \/ DrainSample \/ Control
        \/ TaskSetpoint \/ HostSetpoint \/ HostGains \/ FsmSwitches \/ UNCHANGED vars
    BY <1>1 DEF Next
  <2>2. ~ DrainSample /\ ~ Control
    BY <1>1 DEF DrainSample, Control
  <2>3. pc' = pc => FALSE
    BY <1>1
  <2> QED BY <2>1, <2>2, <2>3 DEF DmaWrites, TaskSetpoint, HostSetpoint, HostGains, FsmSwitches, vars,
                                      drainVars
<1>2. RingInv /\ [Next]_vars => [Step]_vars
  BY <1>1, RingBegin
<1>3. NoneSkipped <=> [][Step]_vars
  BY PTL DEF NoneSkipped
<1> QED BY <1>2, <1>3, RingAlways, PTL DEF Spec

-----------------------------------------------------------------------------
(* Fixed-point arithmetic. *)

Fixed == (-Word)..(Word - 1)

LEMMA WordType == /\ Word \in Nat \ {0} /\ One \in Nat \ {0} /\ One > 1 /\ Word > One
                  /\ {VGain, IGain, Ts} \subseteq Nat
                  /\ Highest \in [1..L -> Nat] /\ Setpoints \subseteq Fixed /\ 0 \in Setpoints
                  /\ Overflow \in Fixed
  BY LoopAssumption DEF Fixed, Overflow

LEMMA Half == One \div 2 \in Nat /\ One \div 2 >= 1 /\ One = (One \div 2) + (One \div 2)
<1>1. One \in Nat /\ One > 1 /\ One % 2 = 0
  BY LoopAssumption
<1>2. One \div 2 \in Int /\ One = 2 * (One \div 2) + (One % 2)
  BY <1>1, DivMod
<1> QED BY <1>1, <1>2

LEMMA WrapFits == ASSUME NEW x \in Int PROVE Wrap(x) \in Fixed
<1>1. 2 * Word \in Nat \ {0} /\ x + Word \in Int /\ Word \in Nat
  BY WordType
<1>2. (x + Word) % (2 * Word) \in 0..(2 * Word - 1)
  BY <1>1, DivMod
<1> QED BY <1>1, <1>2 DEF Wrap, Fixed

LEMMA WrapSame == ASSUME NEW x \in Fixed PROVE Wrap(x) = x
<1>1. Word \in Nat \ {0} /\ 2 * Word \in Nat \ {0}
  BY WordType
<1>2. x \in Int /\ x + Word \in 0..(2 * Word - 1)
  BY <1>1 DEF Fixed
<1>3. (x + Word) % (2 * Word) = x + Word
  BY <1>1, <1>2, ModSmall
<1> QED BY <1>1, <1>2, <1>3 DEF Wrap

LEMMA AddFits == ASSUME NEW a \in Int, NEW b \in Int
                 PROVE  FixAdd(a, b) \in Fixed /\ FixSub(a, b) \in Fixed
  BY WordType DEF FixAdd, FixSub, Fits, Fixed

LEMMA RoundedType == ASSUME NEW p \in Int PROVE Rounded(p) \in Int
<1> DEFINE h == One \div 2
<1>1. h \in Int /\ One \in Nat \ {0}
  BY Half, WordType
<1> HIDE DEF h
<1>2. ((IF p < 0 THEN p - 1 ELSE p) + h) \in Int
  BY <1>1
<1>3. ((IF p < 0 THEN p - 1 ELSE p) + h) \div One \in Int
  BY <1>1, <1>2, DivMod
<1> QED BY <1>3 DEF Rounded, h

\* A product of at least half a unit in the last place does not round to nothing,
\* and no product changes its sign.
LEMMA RoundedSign ==
  ASSUME NEW p \in Int
  PROVE  /\ p >= 0 => Rounded(p) >= 0
         /\ p <= 0 => Rounded(p) <= 0
         /\ 2 * p >= One => Rounded(p) >= 1
         /\ 2 * p <= -One => Rounded(p) <= -1
<1> DEFINE h == One \div 2
           x == (IF p < 0 THEN p - 1 ELSE p) + h
           q == x \div One
<1>1. h \in Nat /\ h >= 1 /\ One = h + h /\ One \in Nat \ {0}
  BY Half, WordType
<1>2. Rounded(p) = q
  BY DEF Rounded
<1> HIDE DEF h
<1>3. x \in Int
  BY <1>1
<1>4. q \in Int /\ x % One \in 0..(One - 1) /\ x = One * q + (x % One)
  BY <1>1, <1>3, DivMod
<1>5. /\ p >= 0 => x >= 0
      /\ p <= 0 => x < One
      /\ 2 * p >= One => x >= One
      /\ 2 * p <= -One => x < 0
  BY <1>1
<1> HIDE DEF x, q
<1>6. /\ x >= 0 => q >= 0
      /\ x < One => q <= 0
      /\ x >= One => q >= 1
      /\ x < 0 => q <= -1
  BY <1>1, <1>3, <1>4
<1> QED BY <1>2, <1>5, <1>6

LEMMA MulFits == ASSUME NEW a \in Int, NEW b \in Int PROVE FixMul(a, b) \in Fixed
<1>1. a * b \in Int
  OBVIOUS
<1> QED BY <1>1, RoundedType, WrapFits, WordType DEF FixMul

\* The product of an integer and a gain is exact.
LEMMA MulExact ==
  ASSUME NEW k \in Int, NEW g \in Nat, k * g \in (-Word + 1)..(Word - 1)
  PROVE  FixMul(k * One, g) = k * g
<1> DEFINE h == One \div 2
           m == k * g
           x == (IF m * One < 0 THEN m * One - 1 ELSE m * One) + h
           r == IF m < 0 THEN h - 1 ELSE h
<1>1. /\ h \in Nat /\ h >= 1 /\ One = h + h /\ One \in Nat \ {0} /\ Word \in Nat /\ m \in Int
      /\ m \in Fixed
  BY Half, WordType DEF Fixed
<1>2. (k * One) * g = m * One
  BY <1>1
<1> HIDE DEF h, m
<1>3. m < 0 <=> m * One < 0
  BY <1>1
<1>4. x = One * m + r /\ r \in 0..(One - 1)
  BY <1>1, <1>3
<1>5. x \div One = m
  BY <1>1, <1>4, DivUnique
<1>6. Rounded(m * One) = m
  BY <1>5 DEF Rounded, h
<1>7. FitsTwice(m * One)
  <2>1. -Word <= m /\ m <= Word - 1
    BY <1>1 DEF Fixed
  <2>2. -(Word * One) <= m * One /\ m * One < Word * One
    BY <2>1, <1>1
  <2> QED BY <2>2 DEF FitsTwice
<1> QED BY <1>1, <1>2, <1>6, <1>7, WrapSame DEF FixMul, m

-----------------------------------------------------------------------------
(* One run of the controller. *)

LEMMA TermTypes ==
  ASSUME NEW e \in Int, kp \in Int, ki \in Int
  PROVE  PTerm(e) \in Fixed /\ ITerm(e) \in Fixed /\ PTerm(e) \in Int /\ ITerm(e) \in Int
<1>1. Fixed \subseteq Int /\ Ts \in Int
  BY WordType DEF Fixed
<1>2. FixMul(e, Ts) \in Int
  BY <1>1, MulFits
<1>3. FixMul(kp, e) \in Fixed /\ FixMul(ki, FixMul(e, Ts)) \in Fixed
  BY <1>1, <1>2, MulFits
<1> QED BY <1>1, <1>3 DEF PTerm, ITerm

LEMMA ControlTypes ==
  ASSUME NEW e \in Int, NEW lim \in 0..(Word - 1), integral \in Fixed,
         kp \in Int, ki \in Int
  PROVE  NewIntegral(e, lim) \in Fixed /\ NewOut(e, lim) \in Fixed
<1>0. Fixed \subseteq Int
  BY WordType DEF Fixed
<1>1. PTerm(e) \in Int /\ ITerm(e) \in Int /\ integral \in Int
  BY <1>0, TermTypes
<1>2. NewIntegral(e, lim) \in Fixed
  BY <1>1, AddFits DEF NewIntegral
<1>3. Wrap(PTerm(e) + NewIntegral(e, lim)) \in Fixed
  BY <1>1, <1>2, WrapFits, WordType, PTerm(e) + NewIntegral(e, lim) \in Int DEF Fixed
<1>4. lim \in Fixed /\ -lim \in Fixed
  BY WordType DEF Fixed
<1>5. NewOut(e, lim) \in Fixed
  BY <1>3, <1>4 DEF NewOut, Limited
<1> QED BY <1>2, <1>5

\* What InRange says of one error.
Tame(e) == /\ e \in Fixed
           /\ FitsTwice(kp * e) /\ FitsTwice(e * Ts) /\ FitsTwice(ki * FixMul(e, Ts))
           /\ Rounded(kp * e) \in Fixed /\ Rounded(e * Ts) \in Fixed
           /\ Rounded(ki * FixMul(e, Ts)) \in Fixed
           /\ \A i \in (-VMax)..VMax : i + ITerm(e) \in Fixed /\ PTerm(e) + i + ITerm(e) \in Fixed

\* No overflow disturbs the terms.
LEMMA TermValues ==
  ASSUME NEW e \in Int, kp \in Int, ki \in Int,
         FitsTwice(kp * e), FitsTwice(e * Ts), FitsTwice(ki * FixMul(e, Ts)),
         Rounded(kp * e) \in Fixed, Rounded(e * Ts) \in Fixed,
         Rounded(ki * FixMul(e, Ts)) \in Fixed
  PROVE  /\ PTerm(e) = Rounded(kp * e) /\ FixMul(e, Ts) = Rounded(e * Ts)
         /\ ITerm(e) = Rounded(ki * FixMul(e, Ts))
<1>1. PTerm(e) = Rounded(kp * e) /\ FixMul(e, Ts) = Rounded(e * Ts)
  BY WrapSame DEF PTerm, FixMul
<1> DEFINE t == FixMul(e, Ts)
<1> HIDE DEF t
<1>2. ASSUME FitsTwice(ki * t), Rounded(ki * t) \in Fixed PROVE FixMul(ki, t) = Rounded(ki * t)
  BY <1>2, WrapSame DEF FixMul
<1>3. FixMul(ki, t) = Rounded(ki * t)
  BY <1>2 DEF t
<1> QED BY <1>1, <1>3 DEF ITerm, t

\* With gains of one sign the terms agree in theirs, and the integral one is not
\* nothing for an error above the resolution of the period.
LEMMA TermSigns ==
  ASSUME NEW e \in Int, kp \in Int, ki \in Int, Tame(e)
  PROVE  /\ ~Opposite /\ ITerm(e) > 0 => PTerm(e) >= 0
         /\ ~Opposite /\ ITerm(e) < 0 => PTerm(e) <= 0
         /\ ki >= One /\ 2 * e * Ts >= One => ITerm(e) >= 1
         /\ ki >= One /\ 2 * e * Ts <= -One => ITerm(e) <= -1
<1> DEFINE t == FixMul(e, Ts)  P == PTerm(e)  I == ITerm(e)  a == kp * e  b == ki * t  c == e * Ts
<1>1. Ts \in Nat /\ One \in Nat /\ One >= 1
  BY WordType
<1>2. a \in Int /\ c \in Int
  BY <1>1
<1>3. P = Rounded(a) /\ t = Rounded(c) /\ I = Rounded(b)
  BY TermValues DEF Tame
<1> HIDE DEF P, I
<1>4. t \in Int
  BY <1>2, <1>3, RoundedType
<1> HIDE DEF t
<1>5. b \in Int
  BY <1>4
<1>6. P \in Int /\ I \in Int
  BY <1>2, <1>3, <1>5, RoundedType
<1>7. /\ e >= 0 => c >= 0
      /\ e <= 0 => c <= 0
      /\ 2 * e * Ts = 2 * c
  BY <1>1
<1>8. /\ e >= 0 => t >= 0
      /\ e <= 0 => t <= 0
      /\ 2 * e * Ts >= One => t >= 1
      /\ 2 * e * Ts <= -One => t <= -1
  <2> HIDE DEF c
  <2> QED BY <1>1, <1>2, <1>3, <1>7, RoundedSign
<1>9. /\ kp >= 0 /\ e >= 0 => a >= 0
      /\ kp >= 0 /\ e <= 0 => a <= 0
      /\ kp <= 0 /\ e >= 0 => a <= 0
      /\ kp <= 0 /\ e <= 0 => a >= 0
  OBVIOUS
<1>10. /\ ki >= 0 /\ t >= 0 => b >= 0
       /\ ki >= 0 /\ t <= 0 => b <= 0
       /\ ki <= 0 /\ t >= 0 => b <= 0
       /\ ki <= 0 /\ t <= 0 => b >= 0
       /\ ki >= One /\ t >= 1 => b >= One
       /\ ki >= One /\ t <= -1 => b <= -One
  BY <1>1, <1>4
<1> HIDE DEF a, b, c
<1>11. /\ I > 0 => b > 0
       /\ I < 0 => b < 0
       /\ a >= 0 => P >= 0
       /\ a <= 0 => P <= 0
       /\ b >= One => I >= 1
       /\ b <= -One => I <= -1
  <2>1. /\ b <= 0 => I <= 0
        /\ b >= 0 => I >= 0
        /\ 2 * b >= One => I >= 1
        /\ 2 * b <= -One => I <= -1
    BY <1>3, <1>5, RoundedSign
  <2>2. /\ a >= 0 => P >= 0
        /\ a <= 0 => P <= 0
    BY <1>2, <1>3, RoundedSign
  <2> QED BY <2>1, <2>2, <1>1, <1>5, <1>6
<1>12. ~Opposite => (kp >= 0 /\ ki >= 0) \/ (kp <= 0 /\ ki <= 0)
  BY DEF Opposite
<1>13. /\ ~Opposite /\ I > 0 => P >= 0
       /\ ~Opposite /\ I < 0 => P <= 0
  <2>1. CASE kp >= 0 /\ ki >= 0
    BY <2>1, <1>4, <1>5, <1>8, <1>9, <1>10, <1>11
  <2>2. CASE kp <= 0 /\ ki <= 0
    BY <2>2, <1>4, <1>5, <1>8, <1>9, <1>10, <1>11
  <2> QED BY <2>1, <2>2, <1>12
<1>14. /\ ki >= One /\ 2 * e * Ts >= One => I >= 1
       /\ ki >= One /\ 2 * e * Ts <= -One => I <= -1
  BY <1>8, <1>10, <1>11
<1> QED BY <1>13, <1>14 DEF P, I

\* With gains of one sign the integral stays within the supply; and with any it
\* moves with an error above the resolution unless the output is at its limit.
LEMMA IntegralStep ==
  ASSUME NEW e \in Int, kp \in Int, ki \in Int, Tame(e), NEW lim \in 0..VMax, VMax \in Nat,
         integral \in (-VMax)..VMax
  PROVE  /\ ~Opposite => NewIntegral(e, lim) \in (-VMax)..VMax
         /\ ki >= One /\ 2 * e * Ts >= One /\ PTerm(e) + integral + ITerm(e) <= lim
              => NewIntegral(e, lim) > integral
         /\ ki >= One /\ 2 * e * Ts <= -One /\ PTerm(e) + integral + ITerm(e) >= -lim
              => NewIntegral(e, lim) < integral
<1> DEFINE p == PTerm(e)  i == ITerm(e)
<1>1. p \in Int /\ i \in Int /\ integral \in Int
  BY TermTypes
<1>2. integral + i \in Fixed /\ p + integral + i \in Fixed
  BY DEF Tame
<1>3. /\ ~Opposite /\ i > 0 => p >= 0
      /\ ~Opposite /\ i < 0 => p <= 0
      /\ ki >= One /\ 2 * e * Ts >= One => i >= 1
      /\ ki >= One /\ 2 * e * Ts <= -One => i <= -1
  BY TermSigns
<1>4. FixAdd(integral, i) = integral + i
  BY <1>2 DEF FixAdd, Fits, Fixed
<1>5. Wrap(p + (integral + i)) = p + integral + i
  <2>1. p + (integral + i) = p + integral + i
    BY <1>1
  <2> QED BY <2>1, <1>2, WrapSame
<1>6. NewIntegral(e, lim) =
        IF \/ p + integral + i > lim /\ i > 0
           \/ p + integral + i < -lim /\ i < 0 THEN integral ELSE integral + i
  BY <1>4, <1>5 DEF NewIntegral, Freeze
<1> HIDE DEF p, i
<1>7. ASSUME ~Opposite PROVE NewIntegral(e, lim) \in (-VMax)..VMax
  <2>1. CASE NewIntegral(e, lim) = integral
    BY <2>1
  <2>2. CASE NewIntegral(e, lim) = integral + i /\ i > 0 /\ p + integral + i <= lim
    BY <2>2, <1>1, <1>3, <1>7
  <2>3. CASE NewIntegral(e, lim) = integral + i /\ i < 0 /\ p + integral + i >= -lim
    BY <2>3, <1>1, <1>3, <1>7
  <2> QED BY <2>1, <2>2, <2>3, <1>1, <1>6
<1>8. ki >= One /\ 2 * e * Ts >= One /\ p + integral + i <= lim => NewIntegral(e, lim) > integral
  BY <1>1, <1>3, <1>6
<1>9. ki >= One /\ 2 * e * Ts <= -One /\ p + integral + i >= -lim
        => NewIntegral(e, lim) < integral
  BY <1>1, <1>3, <1>6
<1> QED BY <1>7, <1>8, <1>9 DEF p, i

-----------------------------------------------------------------------------
(* What is measured. *)

\* The sum of n samples that are at most h has an average that is at most h.
LEMMA AverageBound ==
  ASSUME NEW n \in Nat \ {0}, NEW h \in Nat, NEW s \in Nat, s <= n * h
  PROVE  s \div n \in 0..h
<1> DEFINE q == s \div n
<1>1. q \in Int /\ s % n \in 0..(n - 1) /\ s = n * q + (s % n)
  BY DivMod
<1> HIDE DEF q
<1>2. q >= 0
  <2>1. q < 0 => n * q <= -n
    BY <1>1
  <2> QED BY <2>1, <1>1
<1>3. q <= h
  <2>1. q >= h + 1 => n * q >= n * h + n
    BY <1>1
  <2> QED BY <2>1, <1>1
<1> QED BY <1>1, <1>2, <1>3 DEF q

\* A sample is not above the highest of its place.
LEMMA ValueBound ==
  ASSUME NEW sample \in Int, NEW j \in 0..(L - 1), sample >= 0 => sample % L = j
  PROVE  Value(sample) \in 0..Highest[j + 1]
<1>1. Highest \in [1..L -> Nat] /\ L = 5 /\ j + 1 \in 1..L
  BY WordType, Sizes
<1>2. CASE sample < 0
  BY <1>1, <1>2 DEF Value
<1>3. CASE sample >= 0
  <2> DEFINE k == ((sample \div L) % Len(Reading)) + 1
  <2>1. Len(Reading) \in Nat \ {0} /\ Reading \in [1..Len(Reading) -> [1..L -> Nat]]
    BY LoopAssumption
  <2>2. sample \div L \in Int
    BY SizeTypes, DivMod
  <2>3. (sample \div L) % Len(Reading) \in 0..(Len(Reading) - 1)
    BY <2>1, <2>2, DivMod
  <2>4. k \in 1..Len(Reading)
    BY <2>1, <2>3
  <2>5. Value(sample) = Reading[k][j + 1]
    BY <1>3 DEF Value
  <2> HIDE DEF k
  <2>6. Reading[k][j + 1] <= Highest[j + 1]
    BY <2>4, <1>1, LoopAssumption
  <2>7. Reading[k][j + 1] \in Nat /\ Highest[j + 1] \in Nat
    BY <2>1, <2>4, <1>1
  <2> QED BY <2>5, <2>6, <2>7
<1> QED BY <1>2, <1>3

MeasureType ==
  /\ sums \in [1..L -> Nat] /\ magRaw \in Nat /\ tempRaw \in Nat
  /\ sp \in Setpoints /\ kp \in Gains \cup {BootKp} /\ ki \in Gains \cup {BootKi}
  /\ on \in BOOLEAN /\ opposed \in BOOLEAN /\ integral \in Fixed /\ out \in Fixed

\* A sample is at its own place of a frame, even when the DMA laps the drain.
Columns == \A p \in 0..(N - 1) : buffer[p] >= 0 => buffer[p] % L = p % L

\* Each sum is of as many samples as the drain has read of its place.
Count(i) == IF i <= slot THEN frameCount + 1 ELSE frameCount
Sums == \A i \in 1..L : sums[i] <= Count(i) * Highest[i]

CurrentRange == (-(Highest[2] * IGain))..(Highest[3] * IGain)
Measured == vMeas \in 0..VMax /\ fb \in CurrentRange

MeasureInv == MeasureType /\ Columns /\ Sums /\ Measured

LEMMA HighestTypes ==
  /\ Highest[1] \in Nat /\ Highest[2] \in Nat /\ Highest[3] \in Nat
  /\ VGain \in Nat /\ IGain \in Nat
  /\ Highest[1] * VGain \in 0..(Word - 1)
  /\ Highest[2] * IGain \in 0..(Word - 1) /\ Highest[3] * IGain \in 0..(Word - 1)
  /\ VMax = Highest[1] * VGain /\ VMax \in 0..(Word - 1) /\ VMax \in Nat
<1>1. /\ Highest[1] \in Nat /\ Highest[2] \in Nat /\ Highest[3] \in Nat
      /\ VGain \in Nat /\ IGain \in Nat /\ Word \in Nat
  BY WordType, Sizes
<1>2. Highest[1] * VGain < Word /\ Highest[2] * IGain < Word /\ Highest[3] * IGain < Word
  BY LoopAssumption
<1>3. Highest[1] * VGain \in Nat /\ Highest[2] * IGain \in Nat /\ Highest[3] * IGain \in Nat
  BY <1>1
<1>4. /\ Highest[1] * VGain \in 0..(Word - 1) /\ Highest[2] * IGain \in 0..(Word - 1)
      /\ Highest[3] * IGain \in 0..(Word - 1)
  BY <1>1, <1>2, <1>3
<1>5. Highest[1] \in Int /\ Highest[1] * VGain \in (-Word + 1)..(Word - 1)
  BY <1>1, <1>4
<1>6. VMax = Highest[1] * VGain
  BY <1>1, <1>5, MulExact DEF VMax
<1> QED BY <1>1, <1>3, <1>4, <1>6

LEMMA Within ==
  ASSUME NEW lo \in 0..(Word - 1), NEW hi \in 0..(Word - 1), NEW x \in (-lo)..hi
  PROVE  x \in (-Word + 1)..(Word - 1)
<1>1. Word \in Nat
  BY WordType
<1> QED BY <1>1

LEMMA GainTypes ==
  /\ BootKp \in Fixed /\ BootKi \in Fixed /\ Gains \subseteq Fixed /\ Fixed \subseteq Int
  BY LoopAssumption DEF Fixed

LEMMA MeasureInit == Init => MeasureInv
<1> SUFFICES ASSUME Init PROVE MeasureInv
  OBVIOUS
<1>1. sums = [i \in 1..L |-> 0] /\ frameCount = 0 /\ slot = 0
  BY DEF Init
<1>2. MeasureType
  <2>1. 0 \in Fixed /\ 0 \in Setpoints
    BY WordType DEF Fixed
  <2>2. [i \in 1..L |-> 0] \in [1..L -> Nat]
    OBVIOUS
  <2> QED BY <2>1, <2>2 DEF Init, MeasureType
<1>3. Columns
  BY DEF Init, Columns
<1>4. Sums
  <2> SUFFICES ASSUME NEW i \in 1..L PROVE sums[i] <= Count(i) * Highest[i]
    BY DEF Sums
  <2>1. Count(i) = 0 /\ Highest[i] \in Nat /\ sums[i] = 0
    BY <1>1, WordType, Sizes DEF Count
  <2> QED BY <2>1
<1>5. Measured
  <2> DEFINE a == Highest[2] * IGain  b == Highest[3] * IGain
  <2>1. a \in 0..(Word - 1) /\ b \in 0..(Word - 1) /\ VMax \in Nat
    BY HighestTypes
  <2>2. vMeas = 0 /\ fb = 0 /\ Word \in Nat
    BY WordType DEF Init
  <2> HIDE DEF a, b
  <2>3. 0 \in (-a)..b /\ 0 \in 0..VMax
    BY ONLY <2>1, <2>2
  <2> QED BY ONLY <2>2, <2>3 DEF Measured, CurrentRange, a, b
<1> QED BY <1>2, <1>3, <1>4, <1>5 DEF MeasureInv

LEMMA MeasureDma == ASSUME RingInv, MeasureInv, DmaWrites PROVE MeasureInv'
<1>1. /\ buffer' = [buffer EXCEPT ![written % N] = written]
      /\ UNCHANGED <<drainVars, measureVars, inputVars, controlVars>>
  BY DEF DmaWrites
<1>2. MeasureType' /\ Sums' /\ Measured'
  BY <1>1 DEF MeasureInv, MeasureType, Sums, Count, Measured, CurrentRange, drainVars,
              measureVars, inputVars, controlVars
<1>3. written \in Nat /\ buffer \in [0..(N - 1) -> -1..(Limit - 1)]
  BY LimitType DEF RingInv, RingType
<1>4. (written % N) % L = written % L
  <2> DEFINE q == written \div N  r == written % N
  <2>1. q \in Int /\ r \in 0..(N - 1) /\ written = N * q + r
    BY <1>3, SizeTypes, DivMod
  <2> HIDE DEF q, r
  <2>2. FrameCount * q \in Int /\ written = r + L * (FrameCount * q)
    <3>1. N * q = L * (FrameCount * q) /\ FrameCount * q \in Int
      BY <2>1, Sizes
    <3> QED BY <3>1, <2>1, Sizes
  <2>3. r \in Int
    BY <2>1
  <2> QED BY <2>2, <2>3, SizeTypes, ModTurns DEF r
<1>5. Columns'
  BY <1>1, <1>3, <1>4 DEF MeasureInv, Columns
<1> QED BY <1>2, <1>5 DEF MeasureInv

LEMMA MeasureBegin == ASSUME RingInv, MeasureInv, DrainBegin PROVE MeasureInv'
<1>1. /\ frameCount' = 0 /\ slot' = 0 /\ sums' = [i \in 1..L |-> 0]
      /\ UNCHANGED <<dmaVars, measureVars, inputVars, controlVars>>
  BY DEF DrainBegin
<1>2. MeasureType' /\ Columns' /\ Measured'
  BY <1>1 DEF MeasureInv, MeasureType, Columns, Measured, CurrentRange, dmaVars,
              measureVars, inputVars, controlVars
<1>3. Sums'
  <2> SUFFICES ASSUME NEW i \in 1..L PROVE (sums[i] <= Count(i) * Highest[i])'
    BY DEF Sums
  <2>1. Count(i)' = 0 /\ Highest[i] \in Nat /\ sums'[i] = 0
    BY <1>1, WordType, Sizes DEF Count
  <2>2. 0 <= 0 * Highest[i]
    BY <2>1
  <2> QED BY <2>1, <2>2
<1> QED BY <1>2, <1>3 DEF MeasureInv

LEMMA MeasureSample == ASSUME RingInv, MeasureInv, DrainSample PROVE MeasureInv'
<1> DEFINE v == Value(buffer[readFrame * L + slot])
<1>1. /\ sums' = [sums EXCEPT ![slot + 1] = @ + v]
      /\ slot' = (slot + 1) % L
      /\ IF slot = L - 1 THEN frameCount' = frameCount + 1 ELSE frameCount' = frameCount
      /\ UNCHANGED <<dmaVars, measureVars, inputVars, controlVars>>
  BY DEF DrainSample
<1>2. /\ slot \in 0..4 /\ frameCount \in Nat /\ L = 5 /\ readFrame \in 0..(FrameCount - 1)
      /\ buffer \in [0..(N - 1) -> -1..(Limit - 1)]
      /\ sums \in [1..5 -> Nat] /\ Highest \in [1..5 -> Nat]
  <2>1. /\ slot \in 0..(L - 1) /\ frameCount \in 0..(FrameCount - 1)
        /\ readFrame \in 0..(FrameCount - 1)
        /\ buffer \in [0..(N - 1) -> -1..(Limit - 1)]
    BY DEF RingInv, RingType
  <2>2. sums \in [1..L -> Nat] /\ Highest \in [1..L -> Nat]
    BY WordType DEF MeasureInv, MeasureType
  <2>3. L = 5 /\ FrameCount \in Nat
    BY Sizes
  <2> QED BY <2>1, <2>2, <2>3
<1>3. v \in 0..Highest[slot + 1]
  <2>1. readFrame \in Nat /\ readFrame % FrameCount = readFrame /\ slot \in 0..(L - 1)
    <3>1. FrameCount \in Nat \ {0}
      BY SizeTypes
    <3>2. readFrame % FrameCount = readFrame
      BY <3>1, <1>2, ModSmall
    <3> QED BY <3>1, <3>2, <1>2
  <2>2. readFrame * L + slot \in 0..(N - 1)
    BY <2>1, PlaceOf
  <2>3. (readFrame * L + slot) % L = slot
    <3>1. readFrame * L + slot = L * readFrame + slot /\ readFrame \in Int
      BY <1>2, <2>1
    <3> QED BY <3>1, <2>1, SizeTypes, DivUnique
  <2>4. buffer[readFrame * L + slot] \in Int
    BY <2>2, <1>2, LimitType, SMTT(30)
  <2>5. buffer[readFrame * L + slot] >= 0 => buffer[readFrame * L + slot] % L = slot
    BY <2>2, <2>3 DEF MeasureInv, Columns
  <2> QED BY <2>1, <2>4, <2>5, ValueBound
<1> HIDE DEF v
<1>4. MeasureType'
  <2>1. sums' \in [1..L -> Nat]
    <3>1. slot + 1 \in 1..5 /\ Highest[slot + 1] \in Nat
      BY <1>2, SMTT(30)
    <3>2. v \in Nat /\ sums[slot + 1] \in Nat
      BY <3>1, <1>2, <1>3, SMTT(30)
    <3>3. sums[slot + 1] + v \in Nat
      BY <3>2
    <3> QED BY <3>1, <3>3, <1>1, <1>2
  <2> QED BY <2>1, <1>1 DEF MeasureInv, MeasureType, measureVars, inputVars, controlVars
<1>5. Columns' /\ Measured'
  BY <1>1 DEF MeasureInv, Columns, Measured, CurrentRange, dmaVars, measureVars
<1>6. Sums'
  <2> SUFFICES ASSUME NEW i \in 1..5 PROVE (sums[i] <= Count(i) * Highest[i])'
    BY <1>2 DEF Sums
  <2> DEFINE n == Count(i)  h == Highest[i]  s == sums[i]
  <2>1. n \in Nat /\ h \in Nat /\ s \in Nat /\ s <= n * h
    <3>1. i \in 1..L /\ n \in Nat
      BY <1>2 DEF Count
    <3>2. s <= n * h
      BY <3>1 DEF MeasureInv, Sums
    <3> QED BY <3>1, <3>2, <1>2
  <2>2. sums'[i] = IF i = slot + 1 THEN s + v ELSE s
    BY <1>1, <1>2
  <2>3. Count(i)' = IF i = slot + 1 THEN n + 1 ELSE n
    <3>1. CASE slot = 4
      <4>1. (4 + 1) % 5 = 0
        OBVIOUS
      <4>2. slot' = 0 /\ frameCount' = frameCount + 1
        BY <4>1, <3>1, <1>1, <1>2
      <4> QED BY <4>2, <3>1, <1>2, SMTT(30) DEF Count
    <3>2. CASE slot # 4
      <4>1. (slot + 1) % 5 = slot + 1
        BY <3>2, <1>2, SMTT(30)
      <4>2. slot' = slot + 1 /\ frameCount' = frameCount
        BY <4>1, <3>2, <1>1, <1>2
      <4> QED BY <4>2, <3>2, <1>2, SMTT(30) DEF Count
    <3> QED BY <3>1, <3>2
  <2>4. v \in Nat /\ (i = slot + 1 => v <= h)
    BY <1>2, <1>3
  <2> HIDE DEF n, h, s
  <2>5. (n + 1) * h = n * h + h
    BY <2>1
  <2>6. (IF i = slot + 1 THEN s + v ELSE s) <= (IF i = slot + 1 THEN n + 1 ELSE n) * h
    BY <2>1, <2>4, <2>5
  <2> QED BY <2>2, <2>3, <2>6 DEF h
<1> QED BY <1>4, <1>5, <1>6 DEF MeasureInv

\* The averages stay within the highest readings, and so does what is made of them.
LEMMA MeasureAverages == ASSUME RingInv, MeasureInv, slot = 0, Averages
                         PROVE  Measured' /\ magRaw' \in Nat /\ tempRaw' \in Nat
<1>1. CASE frameCount = 0
  BY <1>1 DEF Averages, measureVars, MeasureInv, MeasureType, Measured, CurrentRange
<1>2. CASE frameCount # 0
  <2> DEFINE a(i) == sums[i] \div frameCount
  <2>1. /\ vMeas' = FixMul(a(1) * One, VGain)
        /\ fb' = FixMul((a(3) - a(2)) * One, IGain)
        /\ magRaw' = a(4) /\ tempRaw' = a(5)
    BY <1>2 DEF Averages
  <2>2. frameCount \in Nat \ {0}
    BY <1>2, SizeTypes DEF RingInv, RingType
  <2>3. ASSUME NEW i \in 1..5 PROVE a(i) \in 0..Highest[i] /\ Highest[i] \in Nat
    <3>1. i \in 1..L /\ L = 5
      BY Sizes
    <3>2. sums[i] \in Nat /\ Highest[i] \in Nat
      BY <3>1, WordType DEF MeasureInv, MeasureType
    <3>3. Count(i) = frameCount
      BY <3>1 DEF Count
    <3>4. sums[i] <= frameCount * Highest[i]
      BY <3>1, <3>3 DEF MeasureInv, Sums
    <3> QED BY <3>2, <3>4, <2>2, AverageBound
  <2>4. /\ a(1) \in 0..Highest[1] /\ a(2) \in 0..Highest[2] /\ a(3) \in 0..Highest[3]
        /\ a(4) \in 0..Highest[4] /\ a(5) \in 0..Highest[5]
        /\ Highest[4] \in Nat /\ Highest[5] \in Nat
    BY <2>3
  <2> HIDE DEF a
  <2>5. magRaw' \in Nat /\ tempRaw' \in Nat
    BY <2>1, <2>4
  <2>6. vMeas' \in 0..VMax
    <3>1. a(1) \in Int /\ a(1) * VGain \in 0..(Highest[1] * VGain)
      BY <2>4, HighestTypes
    <3>2. a(1) * VGain \in (-Word + 1)..(Word - 1)
      <4>1. 0 \in 0..(Word - 1) /\ a(1) * VGain \in (-0)..(Highest[1] * VGain)
        BY <3>1, WordType
      <4> QED BY <4>1, HighestTypes, Within
    <3>3. FixMul(a(1) * One, VGain) = a(1) * VGain
      BY <3>1, <3>2, HighestTypes, MulExact
    <3> QED BY <3>1, <3>3, <2>1, HighestTypes
  <2>7. fb' \in CurrentRange
    <3> DEFINE k == a(3) - a(2)
    <3>1. k \in Int /\ -Highest[2] <= k /\ k <= Highest[3]
      BY <2>4, HighestTypes
    <3> HIDE DEF k
    <3>2. k * IGain \in (-(Highest[2] * IGain))..(Highest[3] * IGain)
      <4>1. k * IGain \in Int /\ (-Highest[2]) * IGain = -(Highest[2] * IGain)
        BY <3>1, HighestTypes
      <4>2. k * IGain <= Highest[3] * IGain
        BY <3>1, HighestTypes
      <4>3. (-Highest[2]) * IGain <= k * IGain
        BY <3>1, HighestTypes
      <4> QED BY <4>1, <4>2, <4>3, HighestTypes
    <3>3. k * IGain \in (-Word + 1)..(Word - 1)
      BY <3>2, HighestTypes, Within
    <3>4. FixMul(k * One, IGain) = k * IGain
      BY <3>1, <3>3, HighestTypes, MulExact
    <3> QED BY <3>2, <3>4, <2>1 DEF CurrentRange, k
  <2> QED BY <2>5, <2>6, <2>7 DEF Measured, CurrentRange
<1> QED BY <1>1, <1>2

LEMMA ErrorTypes == ASSUME NEW s \in Setpoints, NEW f \in CurrentRange
                    PROVE  FixSub(s, f) \in Int
<1>1. Fixed \subseteq Int
  BY WordType DEF Fixed
<1>2. s \in Int /\ f \in Int
  BY <1>1, WordType, HighestTypes DEF CurrentRange
<1> QED BY <1>1, <1>2, AddFits

LEMMA MeasureControl == ASSUME RingInv, MeasureInv, Control PROVE MeasureInv'
<1>1. /\ slot = 0 /\ Averages /\ UNCHANGED <<dmaVars, frameCount, slot, sums, inputVars>>
  BY DEF Control
<1>2. Measured' /\ magRaw' \in Nat /\ tempRaw' \in Nat
  BY <1>1, MeasureAverages
<1>3. integral' \in Fixed /\ out' \in Fixed
  <2>1. CASE ~on
    <3>1. 0 \in Fixed
      BY WordType DEF Fixed
    <3> QED BY <2>1, <3>1 DEF Control
  <2>2. CASE on
    <3>1. PICK f \in CurrentRange : f = fb'
      BY <1>2 DEF Measured, CurrentRange
    <3>2. PICK v \in 0..VMax : v = vMeas'
      BY <1>2 DEF Measured
    <3>3. v \in 0..(Word - 1)
      BY HighestTypes, WordType
    <3>4. FixSub(sp, f) \in Int
      BY ErrorTypes DEF MeasureInv, MeasureType
    <3>5. integral' = NewIntegral(FixSub(sp, f), v) /\ out' = NewOut(FixSub(sp, f), v)
      BY <2>2, <3>1, <3>2 DEF Control
    <3>6. integral \in Fixed
      BY DEF MeasureInv, MeasureType
    <3>7. kp \in Int /\ ki \in Int
      BY GainTypes DEF MeasureInv, MeasureType
    <3> QED BY <3>3, <3>4, <3>5, <3>6, <3>7, ControlTypes
  <2> QED BY <2>1, <2>2
<1>4. MeasureType'
  <2>1. opposed' \in BOOLEAN
    BY DEF Control, MeasureInv, MeasureType, Opposite
  <2> QED BY <2>1, <1>1, <1>2, <1>3 DEF MeasureInv, MeasureType, inputVars
<1>5. Columns' /\ Sums'
  BY <1>1 DEF MeasureInv, Columns, Sums, Count, dmaVars
<1> QED BY <1>2, <1>4, <1>5 DEF MeasureInv

LEMMA MeasureNext == ASSUME RingInv, MeasureInv, [Next]_vars PROVE MeasureInv'
<1> USE DEF MeasureInv, MeasureType, Columns, Sums, Count, Measured, CurrentRange
<1>1. CASE TaskSetpoint
  BY <1>1 DEF TaskSetpoint, dmaVars, drainVars, measureVars, inputVars, controlVars
<1>2. CASE HostSetpoint
  BY <1>2 DEF HostSetpoint, dmaVars, drainVars, measureVars, controlVars
<1>3. CASE FsmSwitches
  BY <1>3 DEF FsmSwitches, dmaVars, drainVars, measureVars, controlVars
<1>4. CASE HostGains
  BY <1>4 DEF HostGains, dmaVars, drainVars, measureVars, controlVars
<1>5. CASE UNCHANGED vars
  BY <1>5 DEF vars, dmaVars, drainVars, measureVars, inputVars, controlVars
<1> QED BY MeasureDma, MeasureBegin, MeasureSample, MeasureControl,
           <1>1, <1>2, <1>3, <1>4, <1>5 DEF Next

LEMMA MeasureAlways == Spec => [](RingInv /\ MeasureInv)
  BY MeasureInit, MeasureNext, RingAlways, PTL DEF Spec

\* Every variable keeps its type; in particular what is measured, accumulated and
\* put out always fits the word, whatever overflows on the way.
THEOREM TypeCorrect == Spec => []TypeOK
<1>1. ASSUME RingInv, MeasureInv PROVE TypeOK
  <2>1. Fits(vMeas) /\ Fits(fb)
    <3>1. vMeas \in Fixed
      BY <1>1, HighestTypes, WordType DEF MeasureInv, Measured, Fixed
    <3>2. fb \in (-Word + 1)..(Word - 1)
      BY <1>1, HighestTypes, Within DEF MeasureInv, Measured, CurrentRange
    <3>3. fb \in Fixed
      BY <3>2, WordType DEF Fixed
    <3> QED BY <3>1, <3>3 DEF Fits, Fixed
  <2>2. Fits(kp) /\ Fits(ki)
    BY <1>1, GainTypes DEF MeasureInv, MeasureType, Fits, Fixed
  <2> QED BY <1>1, <2>1, <2>2 DEF TypeOK, RingInv, RingType, MeasureInv, MeasureType, Limit, Fits,
                            Fixed
<1> QED BY <1>1, MeasureAlways, PTL

-----------------------------------------------------------------------------
(* The integral. *)

LEMMA ErrorsTame ==
  ASSUME InRange, NEW s \in Setpoints, NEW f \in CurrentRange,
         kp \in Gains \cup {BootKp}, ki \in Gains \cup {BootKi}
  PROVE  FixSub(s, f) \in Int /\ Tame(FixSub(s, f)) /\ kp \in Int /\ ki \in Int
<1> DEFINE e == s - f
<1>0. kp \in Int /\ ki \in Int
  BY GainTypes
<1>1. /\ Fits(e) /\ FitsTwice(kp * e) /\ FitsTwice(e * Ts) /\ FitsTwice(ki * FixMul(e, Ts))
      /\ Fits(Rounded(kp * e)) /\ Fits(Rounded(e * Ts)) /\ Fits(Rounded(ki * FixMul(e, Ts)))
      /\ \A x \in (-VMax)..VMax :
           /\ Fits(x + Rounded(ki * FixMul(e, Ts)))
           /\ Fits(Rounded(kp * e) + x + Rounded(ki * FixMul(e, Ts)))
  BY DEF InRange, CurrentRange
<1>2. FixSub(s, f) = e
  BY <1>1 DEF FixSub
<1>3. e \in Int
  BY <1>2, ErrorTypes
<1> HIDE DEF e
<1>4. PTerm(e) = Rounded(kp * e) /\ ITerm(e) = Rounded(ki * FixMul(e, Ts))
  BY <1>0, <1>1, <1>3, TermValues DEF Fits, Fixed
<1>5. Tame(e)
  BY <1>1, <1>4 DEF Tame, Fits, Fixed
<1> QED BY <1>0, <1>2, <1>3, <1>5

\* What a run of the controller does to the integral.
LEMMA ControlStep ==
  ASSUME InRange, RingInv, MeasureInv, NoWindup, Control
  PROVE  /\ NoWindup'
         /\ on => \E f \in CurrentRange : \E v \in 0..VMax :
                    /\ f = fb' /\ v = vMeas' /\ Tame(FixSub(sp, f)) /\ FixSub(sp, f) \in Int
                    /\ integral' = NewIntegral(FixSub(sp, f), v)
<1>1. VMax \in Nat /\ (~opposed => integral \in (-VMax)..VMax)
  <2>1. integral \in Int
    BY WordType DEF MeasureInv, MeasureType, Fixed
  <2> QED BY <2>1, HighestTypes DEF NoWindup
<1>2. Measured'
  BY MeasureControl DEF MeasureInv
<1>3. CASE ~on
  <2>1. integral' = 0
    BY <1>3 DEF Control
  <2>2. -VMax <= 0 /\ 0 <= VMax
    BY <1>1
  <2> QED BY <1>3, <2>1, <2>2 DEF NoWindup
<1>4. CASE on
  <2>1. PICK f \in CurrentRange : f = fb'
    BY <1>2 DEF Measured, CurrentRange
  <2>2. PICK v \in 0..VMax : v = vMeas'
    BY <1>2 DEF Measured
  <2>3. FixSub(sp, f) \in Int /\ Tame(FixSub(sp, f)) /\ kp \in Int /\ ki \in Int
    BY ErrorsTame DEF MeasureInv, MeasureType
  <2>4. integral' = NewIntegral(FixSub(sp, f), v) /\ opposed' = (opposed \/ Opposite)
    BY <1>4, <2>1, <2>2 DEF Control
  <2>5. NoWindup'
    <3>1. CASE opposed \/ Opposite
      BY <3>1, <2>4 DEF NoWindup
    <3>2. CASE ~opposed /\ ~Opposite
      <4>1. NewIntegral(FixSub(sp, f), v) \in (-VMax)..VMax
        BY <3>2, <1>1, <2>3, IntegralStep
      <4>2. -VMax <= integral' /\ integral' <= VMax
        BY <1>1, <2>4, <4>1
      <4> QED BY <4>2 DEF NoWindup
    <3> QED BY <3>1, <3>2
  <2> QED BY <2>1, <2>2, <2>3, <2>4, <2>5
<1> QED BY <1>3, <1>4

\* The integral never exceeds what the supply allows, for every supply and every
\* set of gains with which no sum and no product leaves the word, unless gains of
\* opposite signs have wound it.
THEOREM NoWindupCorrect == ASSUME InRange PROVE Spec => []NoWindup
<1>1. Init => NoWindup
  <2>1. -VMax <= 0 /\ 0 <= VMax
    BY HighestTypes
  <2> QED BY <2>1 DEF Init, NoWindup
<1>2. ASSUME RingInv, MeasureInv, NoWindup, [Next]_vars PROVE NoWindup'
  <2>1. CASE Control
    BY <2>1, <1>2, ControlStep
  <2>2. CASE ~Control
    <3>1. integral' = integral /\ opposed' = opposed
      BY <1>2, <2>2 DEF Next, DmaWrites, DrainBegin, DrainSample, TaskSetpoint, HostSetpoint,
                        HostGains, FsmSwitches, vars, controlVars
    <3> QED BY <3>1, <1>2 DEF NoWindup
  <2> QED BY <2>1, <2>2
<1> QED BY <1>1, <1>2, MeasureAlways, PTL DEF Spec

\* An error that is not below the resolution of the period moves the integral,
\* unless that would take the output out of its limits.
THEOREM IntegratesCorrect == ASSUME InRange PROVE Spec => Integrates
<1> DEFINE Step ==
      (pc = "drain" /\ pc' = "idle" /\ on /\ ki >= One /\ ~opposed) =>
         LET e == FixSub(sp, fb')
         IN  /\ 2 * e * Ts >= One /\ PTerm(e) + integral + ITerm(e) <= vMeas'
                  => integral' > integral
             /\ 2 * e * Ts <= -One /\ PTerm(e) + integral + ITerm(e) >= -vMeas'
                  => integral' < integral
<1>1. ASSUME RingInv, MeasureInv, NoWindup, [Next]_vars PROVE [Step]_vars
  <2> SUFFICES ASSUME pc = "drain", pc' = "idle", on, ki >= One, ~opposed PROVE Step
    OBVIOUS
  <2>1. Control
    BY <1>1 DEF Next, DmaWrites, DrainBegin, DrainSample, TaskSetpoint, HostSetpoint,
                HostGains, FsmSwitches, vars, drainVars
  <2>2. PICK f \in CurrentRange, v \in 0..VMax :
          /\ f = fb' /\ v = vMeas' /\ Tame(FixSub(sp, f)) /\ FixSub(sp, f) \in Int
          /\ integral' = NewIntegral(FixSub(sp, f), v)
    BY <1>1, <2>1, ControlStep
  <2>3. integral \in (-VMax)..VMax /\ VMax \in Nat
    <3>1. integral \in Int
      BY <1>1, WordType DEF MeasureInv, MeasureType, Fixed
    <3> QED BY <3>1, <1>1, HighestTypes DEF NoWindup
  <2>6. kp \in Int /\ ki \in Int
    BY <1>1, GainTypes DEF MeasureInv, MeasureType
  <2> DEFINE e == FixSub(sp, f)
  <2>4. /\ 2 * e * Ts >= One /\ PTerm(e) + integral + ITerm(e) <= v
             => NewIntegral(e, v) > integral
        /\ 2 * e * Ts <= -One /\ PTerm(e) + integral + ITerm(e) >= -v
             => NewIntegral(e, v) < integral
    BY <2>2, <2>3, <2>6, IntegralStep
  <2> QED BY <2>2, <2>4
<1>2. Integrates <=> [][Step]_vars
  BY PTL DEF Integrates
<1> QED BY <1>1, <1>2, MeasureAlways, NoWindupCorrect, PTL DEF Spec

-----------------------------------------------------------------------------
(* The temperature. *)

LEMMA DivRises ==
  ASSUME NEW b \in Nat \ {0}, NEW x \in Int, NEW y \in Int, x <= y
  PROVE  x \div b <= y \div b
<1> DEFINE p == x \div b  q == y \div b
<1>1. /\ p \in Int /\ x = b * p + (x % b) /\ x % b \in 0..(b - 1)
      /\ q \in Int /\ y = b * q + (y % b) /\ y % b \in 0..(b - 1)
  BY DivMod
<1> HIDE DEF p, q
<1>2. ~ (p - q >= 1)
  <2> SUFFICES ASSUME p - q >= 1 PROVE FALSE
    OBVIOUS
  <2>1. b * (p - q) >= b
    BY <1>1
  <2>2. b * (p - q) = b * p - b * q
    BY <1>1
  <2> QED BY <1>1, <2>1, <2>2
<1>3. p <= q
  BY <1>1, <1>2
<1> QED BY <1>3 DEF p, q

LEMMA LutType == /\ Len(Lut) \in Nat /\ Len(Lut) > 1 /\ Spacing \in Nat \ {0}
                 /\ \A k \in 1..Len(Lut) : Lut[k] \in Int
                 /\ RawMax \in Nat
<1>1. /\ Len(Lut) \in Nat /\ Len(Lut) > 1 /\ Spacing \in Nat \ {0}
      /\ \A k \in 1..Len(Lut) : Lut[k] \in Int
  BY LutAssumption
<1>2. (Len(Lut) - 1) * Spacing >= Spacing /\ (Len(Lut) - 1) * Spacing \in Int
  BY <1>1
<1> QED BY <1>1, <1>2 DEF RawMax

LEMMA LutRises ==
  ASSUME NEW i \in 1..Len(Lut), NEW j \in 1..Len(Lut), i <= j
  PROVE  Lut[i] <= Lut[j]
<1> DEFINE Up == {d \in 0..(j - i) : Lut[i] <= Lut[i + d]}
<1>1. /\ Len(Lut) \in Nat /\ \A k \in 1..Len(Lut) : Lut[k] \in Int
      /\ \A k \in 1..(Len(Lut) - 1) : Lut[k] <= Lut[k + 1]
  BY LutType, LutAssumption
<1>2. 0 \in Up
  BY <1>1
<1>3. ASSUME NEW d \in 0..(j - i), d \in Up, d < j - i PROVE d + 1 \in Up
  <2>1. i + d \in 1..(Len(Lut) - 1) /\ (i + d) + 1 = i + (d + 1) /\ d + 1 \in 0..(j - i)
    BY <1>1, <1>3
  <2>2. i + d \in 1..Len(Lut) /\ i + (d + 1) \in 1..Len(Lut)
    BY <1>1, <2>1
  <2>3. Lut[i + d] <= Lut[i + (d + 1)] /\ Lut[i] <= Lut[i + d]
    BY <1>1, <1>3, <2>1
  <2>4. Lut[i] \in Int /\ Lut[i + d] \in Int /\ Lut[i + (d + 1)] \in Int
    BY <1>1, <2>2
  <2> QED BY <2>1, <2>3, <2>4
<1> HIDE DEF Up
<1>4. 0..(j - i) \subseteq Up
  BY <1>2, <1>3, Climb, j - i \in Nat
<1>5. j - i \in Up
  BY <1>4
<1>6. i + (j - i) = j
  BY <1>1
<1> QED BY <1>5, <1>6 DEF Up

\* What lies between two entries, times Spacing.
Mix(lo, hi, fract) == lo * (Spacing - fract) + hi * fract

LEMMA MixType ==
  ASSUME NEW lo \in Int, NEW hi \in Int, NEW f \in Int
  PROVE  Mix(lo, hi, f) \in Int /\ Mix(lo, hi, f) = Spacing * lo + (hi - lo) * f
  BY LutType DEF Mix

LEMMA MixRises ==
  ASSUME NEW lo \in Int, NEW hi \in Int, lo <= hi,
         NEW f \in Int, NEW g \in Int, f <= g
  PROVE  Mix(lo, hi, f) <= Mix(lo, hi, g)
<1> DEFINE w == hi - lo
           a == w * f
           b == w * g
           c == Spacing * lo
<1>1. w \in Nat
  OBVIOUS
<1>2. Mix(lo, hi, f) = c + a /\ Mix(lo, hi, g) = c + b
  BY MixType
<1>3. a <= b
  <2> HIDE DEF w
  <2>1. w * (g - f) >= 0 /\ w * (g - f) = w * g - w * f
    BY <1>1
  <2>2. w * g \in Int /\ w * f \in Int
    BY <1>1
  <2> QED BY <2>1, <2>2
<1>4. a \in Int /\ b \in Int /\ c \in Int
  BY LutType
<1> HIDE DEF a, b, c
<1> QED BY <1>2, <1>3, <1>4

LEMMA MixEnds ==
  ASSUME NEW lo \in Int, NEW hi \in Int
  PROVE  Mix(lo, hi, 0) = Spacing * lo /\ Mix(lo, hi, Spacing) = Spacing * hi
  BY LutType DEF Mix

\* A higher reading never gives a lower temperature.
LEMMA TemperatureMonotone ==
  ASSUME NEW a \in Nat, NEW b \in Nat, a <= b
  PROVE  Temperature(a) <= Temperature(b)
<1> DEFINE cut(raw) == IF raw >= RawMax THEN RawMax ELSE raw
           i == cut(a) \div Spacing  f == cut(a) % Spacing
           j == cut(b) \div Spacing  g == cut(b) % Spacing
           x == Mix(Lut[i + 1], Lut[i + 2], f)
           y == Mix(Lut[j + 1], Lut[j + 2], g)
<1>1. Temperature(a) = x \div Spacing /\ Temperature(b) = y \div Spacing
  BY DEF Temperature, Mix
<1>2. cut(a) \in 0..RawMax /\ cut(b) \in 0..RawMax /\ cut(a) <= cut(b)
  BY LutType
<1> HIDE DEF cut
<1>3. ASSUME NEW r \in 0..RawMax
      PROVE  /\ r \div Spacing \in 0..(Len(Lut) - 2) /\ r % Spacing \in 0..(Spacing - 1)
             /\ r = Spacing * (r \div Spacing) + (r % Spacing)
  <2> DEFINE n == r \div Spacing  m == r % Spacing
  <2>1. n \in Int /\ m \in 0..(Spacing - 1) /\ r = Spacing * n + m
    BY LutType, DivMod, r \in Int
  <2> HIDE DEF n, m
  <2>2. n >= 0
    <3> SUFFICES ASSUME n <= -1 PROVE FALSE
      BY <2>1
    <3>1. Spacing * n <= Spacing * (-1)
      BY <2>1, LutType
    <3> QED BY <2>1, <3>1, LutType
  <2>3. n <= Len(Lut) - 2
    <3> SUFFICES ASSUME n >= Len(Lut) - 1 PROVE FALSE
      BY <2>1, LutType
    <3>1. Spacing * n >= Spacing * (Len(Lut) - 1)
      BY <2>1, LutType
    <3>2. Spacing * (Len(Lut) - 1) = RawMax + 1
      BY LutType DEF RawMax
    <3> QED BY <2>1, <3>1, <3>2, LutType
  <2> QED BY <2>1, <2>2, <2>3, LutType DEF n, m
<1>4. /\ i \in 0..(Len(Lut) - 2) /\ f \in 0..(Spacing - 1) /\ cut(a) = Spacing * i + f
      /\ j \in 0..(Len(Lut) - 2) /\ g \in 0..(Spacing - 1) /\ cut(b) = Spacing * j + g
  BY <1>2, <1>3
<1> HIDE DEF i, f, j, g
<1>5. /\ {i + 1, i + 2, j + 1, j + 2} \subseteq 1..Len(Lut)
      /\ i \in Int /\ j \in Int /\ f \in Int /\ g \in Int /\ Spacing \in Int
      /\ f <= Spacing /\ 0 <= g
  BY <1>4, LutType
<1>6. /\ Lut[i + 1] \in Int /\ Lut[i + 2] \in Int /\ Lut[i + 1] <= Lut[i + 2]
      /\ Lut[j + 1] \in Int /\ Lut[j + 2] \in Int /\ Lut[j + 1] <= Lut[j + 2]
  BY <1>5, LutType, LutRises
<1>7. x \in Int /\ y \in Int
  BY <1>5, <1>6, MixType
<1>8. i <= j
  <2> SUFFICES ASSUME i >= j + 1 PROVE FALSE
    BY <1>5
  <2>1. Spacing * i >= Spacing * (j + 1) /\ Spacing * (j + 1) = Spacing * j + Spacing
    BY <1>5, LutType
  <2> DEFINE p == Spacing * i  q == Spacing * j
  <2>2. p \in Int /\ q \in Int
    BY <1>5
  <2>3. p >= q + Spacing /\ cut(a) = p + f /\ cut(b) = q + g
    BY <1>4, <2>1
  <2> HIDE DEF p, q
  <2> QED BY <1>2, <1>4, <1>5, <2>2, <2>3
<1>9. CASE i = j
  <2>1. f <= g
    BY <1>2, <1>4, <1>5, <1>9
  <2>2. x <= y
    BY <1>5, <1>6, <1>9, <2>1, MixRises
  <2> QED BY <1>1, <1>7, <2>2, DivRises, LutType
<1>10. CASE i < j
  <2>1. x <= Spacing * Lut[i + 2]
    <3>1. x <= Mix(Lut[i + 1], Lut[i + 2], Spacing)
      BY <1>5, <1>6, MixRises
    <3> QED BY <3>1, <1>6, MixEnds
  <2>2. Spacing * Lut[j + 1] <= y
    <3>1. Mix(Lut[j + 1], Lut[j + 2], 0) <= y
      BY <1>5, <1>6, MixRises, 0 \in Int
    <3> QED BY <3>1, <1>6, MixEnds
  <2>3. Lut[i + 2] <= Lut[j + 1]
    BY <1>5, <1>10, LutRises
  <2>4. Spacing * Lut[i + 2] <= Spacing * Lut[j + 1]
    BY <1>6, <2>3, LutType
  <2>5. Spacing * Lut[i + 2] \in Int /\ Spacing * Lut[j + 1] \in Int
    BY <1>6, LutType
  <2>6. x <= y
    BY <1>7, <2>1, <2>2, <2>4, <2>5
  <2> QED BY <1>1, <1>7, <2>6, DivRises, LutType
<1> QED BY <1>5, <1>8, <1>9, <1>10

\* The temperature task_setpoint publishes rises with the reading, over the whole
\* table and past its end, for every table that does not fall.
THEOREM TemperatureRisesCorrect == Spec => TemperatureRises
<1> DEFINE Step ==
      temp' # temp =>
         /\ \A raw \in (tempRaw - Spacing)..(tempRaw - 1) :
              raw >= 0 => Temperature(raw) <= temp'
         /\ \A raw \in tempRaw..(tempRaw + Spacing) :
              raw <= RawMax + 1 => temp' <= Temperature(raw)
<1>1. ASSUME TypeOK, [Next]_vars PROVE [Step]_temp
  <2> SUFFICES ASSUME temp' # temp PROVE Step
    OBVIOUS
  <2>1. TaskSetpoint
    BY <1>1 DEF Next, DmaWrites, DrainBegin, DrainSample, Control, HostSetpoint, HostGains,
                FsmSwitches, vars
  <2>2. temp' = Temperature(tempRaw) /\ tempRaw \in Nat
    BY <1>1, <2>1 DEF TaskSetpoint, TypeOK
  <2>3. ASSUME NEW raw \in (tempRaw - Spacing)..(tempRaw - 1), raw >= 0
        PROVE  Temperature(raw) <= temp'
    <3>1. raw \in Nat /\ raw <= tempRaw
      BY <2>2, <2>3, LutAssumption
    <3> QED BY <2>2, <3>1, TemperatureMonotone
  <2>4. ASSUME NEW raw \in tempRaw..(tempRaw + Spacing), raw <= RawMax + 1
        PROVE  temp' <= Temperature(raw)
    <3>1. raw \in Nat /\ tempRaw <= raw
      BY <2>2, <2>4, LutAssumption
    <3> QED BY <2>2, <3>1, TemperatureMonotone
  <2> QED BY <2>3, <2>4
<1>2. TemperatureRises <=> [][Step]_temp
  BY PTL DEF TemperatureRises
<1> QED BY <1>1, <1>2, TypeCorrect, PTL DEF Spec

=============================================================================
