----------------------------- MODULE BasicFacts -----------------------------
(***************************************************************************)
(* Facts the proofs of the other modules share: induction on the natural   *)
(* numbers, by the least counterexample and by a set that is closed under  *)
(* + 1, recursive functions, remainders and parts of sequences.            *)
(***************************************************************************)
EXTENDS Integers, Sequences, WellFoundedInduction, TLAPS

-----------------------------------------------------------------------------
(* Induction.                                                              *)

\* A set of natural numbers that has a member has a least one.
LEMMA Least ==
  ASSUME NEW S \in SUBSET Nat, S # {}
  PROVE  \E n \in S : \A m \in S : n <= m
<1> DEFINE R == OpToRel(<, Nat)
<1>1. IsWellFoundedOn(R, Nat)
  BY NatLessThanWellFounded
<1>2. \A n, m \in Nat : <<m, n>> \in R <=> m < n
  BY DEF OpToRel
<1> HIDE DEF R
<1>3. \E n \in S : \A m \in S : ~(<<m, n>> \in R)
  BY <1>1, WFMin
<1>4. PICK n \in S : \A m \in S : ~(<<m, n>> \in R)
  BY <1>3
<1>5. ASSUME NEW m \in S PROVE n <= m
  <2>1. m \in Nat /\ n \in Nat
    OBVIOUS
  <2>2. ~(m < n)
    BY <1>4, <1>2, <2>1
  <2> QED BY <2>1, <2>2
<1> QED BY <1>5

\* A set that holds 0, and with every n up to N the next, holds all of 0..N.
LEMMA Climb ==
  ASSUME NEW N \in Nat, NEW S, 0 \in S,
         \A n \in 0..N : n \in S /\ n < N => n + 1 \in S
  PROVE  0..N \subseteq S
<1> SUFFICES ASSUME (0..N) \ S # {} PROVE FALSE
  OBVIOUS
<1>1. PICK n \in (0..N) \ S : \A m \in (0..N) \ S : n <= m
  BY Least, (0..N) \ S \in SUBSET Nat
<1>2. n # 0 /\ n - 1 \in 0..N /\ n - 1 < N
  BY <1>1
<1>3. n - 1 \in S
  BY <1>1, <1>2
<1>4. (n - 1) + 1 = n
  BY <1>2
<1> QED BY <1>1, <1>2, <1>3, <1>4

-----------------------------------------------------------------------------
(* Recursive functions: what they are said to be, they can be.             *)

\* One that goes up from 0, a step at a time.
IsStep(step, T, n) == step \in [T \X (1..n) -> T]

Ascends(u, T, n, base, step) ==
  u \in [0..n -> T] /\ u[0] = base /\ \A i \in 1..n : u[i] = step[<<u[i - 1], i>>]

LEMMA Ascent ==
  ASSUME NEW T, NEW base \in T, NEW n \in Nat, NEW step, IsStep(step, T, n)
  PROVE  \E u : Ascends(u, T, n, base, step)
<1>0. step \in [T \X (1..n) -> T]
  BY DEF IsStep
<1> DEFINE Goes(u, m) == u[0] = base /\ \A i \in 1..m : u[i] = step[<<u[i - 1], i>>]
           Can == {m \in 0..n : \E u \in [0..m -> T] : Goes(u, m)}
<1>1. 0 \in Can
  <2> DEFINE r == [i \in 0..0 |-> base]
  <2>1. r \in [0..0 -> T] /\ r[0] = base /\ \A i \in 1..0 : FALSE
    OBVIOUS
  <2> HIDE DEF r
  <2>2. Goes(r, 0)
    BY <2>1
  <2> QED BY <2>1, <2>2
<1>2. ASSUME NEW m \in 0..n, m \in Can, m < n PROVE m + 1 \in Can
  <2>1. PICK u \in [0..m -> T] : Goes(u, m)
    BY <1>2
  <2> DEFINE new == step[<<u[m], m + 1>>]
             r == [i \in 0..(m + 1) |-> IF i <= m THEN u[i] ELSE new]
  <2>2. m \in Nat /\ m + 1 \in 1..n /\ u[m] \in T /\ m + 1 \in 0..n
    BY <1>2, <2>1
  <2>3. new \in T
    BY <1>0, <2>2
  <2>4. /\ r \in [0..(m + 1) -> T] /\ r[0] = base /\ r[m + 1] = new
        /\ \A i \in 0..m : r[i] = u[i]
    <3> HIDE DEF new
    <3> QED BY <2>1, <2>2, <2>3
  <2> HIDE DEF r
  <2>5. ASSUME NEW i \in 1..(m + 1) PROVE r[i] = step[<<r[i - 1], i>>]
    <3>1. i - 1 \in 0..m /\ (i \in 1..m \/ i = m + 1)
      BY <2>2
    <3>2. r[i - 1] = u[i - 1]
      BY <3>1, <2>4
    <3>3. CASE i \in 1..m
      <4>1. r[i] = u[i]
        BY <3>3, <2>2, <2>4
      <4> QED BY <4>1, <3>2, <3>3, <2>1
    <3>4. CASE i = m + 1
      <4>1. i - 1 = m
        BY <2>2, <3>4
      <4> QED BY <4>1, <3>2, <3>4, <2>4
    <3> QED BY <3>1, <3>3, <3>4
  <2>6. Goes(r, m + 1)
    BY <2>4, <2>5
  <2> QED BY <2>2, <2>4, <2>6
<1> HIDE DEF Can
<1>3. 0..n \subseteq Can
  BY <1>1, <1>2, Climb
<1>4. n \in Can
  BY <1>3
<1> QED BY <1>4 DEF Can, Ascends

\* One that comes down from N and looks at what is above it.
Turns(T, N, Stops, end, next, comb) ==
  /\ end \in [1..N -> T] /\ comb \in [(1..N) \X T -> T]
  /\ \A p \in 1..N : p \notin Stops => next[p] \in (p + 1)..N

Descends(u, T, N, Stops, end, next, comb) ==
  /\ u \in [1..N -> T]
  /\ \A p \in 1..N : u[p] = IF p \in Stops THEN end[p] ELSE comb[<<p, u[next[p]]>>]

LEMMA Descent ==
  ASSUME NEW T, NEW N \in Nat, NEW Stops, NEW end, NEW next, NEW comb, T # {},
         Turns(T, N, Stops, end, next, comb)
  PROVE  \E u : Descends(u, T, N, Stops, end, next, comb)
<1>0. /\ end \in [1..N -> T] /\ comb \in [(1..N) \X T -> T]
      /\ \A p \in 1..N : p \notin Stops => next[p] \in (p + 1)..N
  BY DEF Turns
<1> DEFINE Rule(u, p) == IF p \in Stops THEN end[p] ELSE comb[<<p, u[next[p]]>>]
           Can == {k \in 0..N : \E u \in [1..N -> T] : \A p \in (N - k + 1)..N : u[p] = Rule(u, p)}
<1>1. 0 \in Can
  <2>1. PICK t : t \in T
    OBVIOUS
  <2> DEFINE u == [p \in 1..N |-> t]
  <2>2. u \in [1..N -> T] /\ \A p : p \notin (N - 0 + 1)..N
    BY <2>1
  <2> HIDE DEF u
  <2>3. \A p \in (N - 0 + 1)..N : u[p] = Rule(u, p)
    <3> HIDE DEF Rule
    <3> QED BY <2>2
  <2>4. 0 \in 0..N
    OBVIOUS
  <2> HIDE DEF Rule
  <2> QED BY <2>2, <2>3, <2>4
<1>2. ASSUME NEW k \in 0..N, k \in Can, k < N PROVE k + 1 \in Can
  <2>1. PICK u \in [1..N -> T] : \A p \in (N - k + 1)..N : u[p] = Rule(u, p)
    BY <1>2
  <2> DEFINE q == N - k
             new == Rule(u, q)
             r == [u EXCEPT ![q] = new]
  <2>2. q \in 1..N /\ N - (k + 1) + 1 = q /\ k + 1 \in 0..N /\ N - k + 1 = q + 1
    BY <1>2
  <2>3. \A p \in 1..N : p \notin Stops => next[p] \in 1..N
    BY <1>0
  <2>4. new \in T
    BY <1>0, <2>2, <2>3
  <2>5. r \in [1..N -> T] /\ r[q] = new /\ \A p \in 1..N : p # q => r[p] = u[p]
    <3> HIDE DEF new, q
    <3> QED BY <2>2, <2>4
  <2> HIDE DEF r
  <2>6. ASSUME NEW p \in q..N PROVE r[p] = Rule(r, p)
    <3>1. p \in 1..N /\ (p = q \/ p \in (q + 1)..N)
      BY <2>2
    <3>2. p \notin Stops => next[p] \in 1..N /\ next[p] # q
      BY <1>0, <3>1, <2>2
    <3>3. Rule(r, p) = Rule(u, p)
      BY <3>2, <2>5
    <3>4. CASE p = q
      BY <3>3, <3>4, <2>5
    <3>5. CASE p \in (q + 1)..N
      <4>1. p # q /\ u[p] = Rule(u, p)
        BY <3>5, <2>1, <2>2
      <4> HIDE DEF Rule
      <4> QED BY <4>1, <3>1, <3>3, <2>5
    <3> QED BY <3>1, <3>4, <3>5
  <2>7. \E v \in [1..N -> T] : \A p \in (N - (k + 1) + 1)..N : v[p] = Rule(v, p)
    <3> HIDE DEF Rule, q, new
    <3> QED BY <2>2, <2>5, <2>6
  <2> QED BY <2>2, <2>7
<1> HIDE DEF Can
<1>3. 0..N \subseteq Can
  BY <1>1, <1>2, Climb
<1>4. PICK u \in [1..N -> T] : \A p \in (N - N + 1)..N : u[p] = Rule(u, p)
  <2>1. N \in Can
    BY <1>3
  <2> HIDE DEF Rule
  <2> QED BY <2>1 DEF Can
<1>5. N - N + 1 = 1
  OBVIOUS
<1> QED BY <1>4, <1>5 DEF Descends

\* Two that begin alike and go on alike.
Follows(u, v, n) == u[0] = v[0] /\ \A i \in 1..n : u[i - 1] = v[i - 1] => u[i] = v[i]

LEMMA Alike ==
  ASSUME NEW n \in Nat, NEW u, NEW v, Follows(u, v, n)
  PROVE  \A i \in 0..n : u[i] = v[i]
<1> DEFINE Same == {i \in 0..n : u[i] = v[i]}
<1>0. u[0] = v[0] /\ \A i \in 1..n : u[i - 1] = v[i - 1] => u[i] = v[i]
  BY DEF Follows
<1>1. 0 \in Same
  BY <1>0
<1>2. ASSUME NEW i \in 0..n, i \in Same, i < n PROVE i + 1 \in Same
  <2>1. i + 1 \in 1..n /\ (i + 1) - 1 = i /\ i + 1 \in 0..n
    BY <1>2
  <2>2. u[i + 1 - 1] = v[i + 1 - 1]
    BY <2>1, <1>2
  <2> QED BY <1>0, <2>1, <2>2
<1> HIDE DEF Same
<1>3. 0..n \subseteq Same
  BY <1>1, <1>2, Climb
<1> QED BY <1>3 DEF Same

-----------------------------------------------------------------------------
(* Division by any positive number.                                       *)

LEMMA DivMod ==
  ASSUME NEW a \in Int, NEW b \in Nat \ {0}
  PROVE  /\ a \div b \in Int
         /\ a % b \in 0..(b - 1)
         /\ a = b * (a \div b) + (a % b)
  BY SMT

LEMMA DivUnique ==
  ASSUME NEW b \in Nat \ {0}, NEW q \in Int, NEW r \in 0..(b - 1)
  PROVE  /\ (b * q + r) \div b = q
         /\ (b * q + r) % b = r
  BY SMT

\* What is some turns away is at the same place.
LEMMA ModTurns ==
  ASSUME NEW b \in Nat \ {0}, NEW a \in Int, NEW k \in Int
  PROVE  (a + b * k) % b = a % b
<1> DEFINE q == a \div b  r == a % b
<1>1. q \in Int /\ r \in 0..(b - 1) /\ a = b * q + r
  BY DivMod
<1> HIDE DEF q, r
<1>2. a + b * k = b * (q + k) + r
  BY <1>1
<1>3. (b * (q + k) + r) % b = r /\ (b * q + r) % b = r
  BY <1>1, DivUnique, q + k \in Int
<1> QED BY <1>1, <1>2, <1>3

LEMMA ModSmall ==
  ASSUME NEW b \in Nat \ {0}, NEW a \in 0..(b - 1)
  PROVE  a % b = a
  BY SMT

\* One step on from a place, and the way from one place to another.
LEMMA ModStep ==
  ASSUME NEW b \in Nat \ {0}, NEW a \in Int
  PROVE  ((a % b) + 1) % b = (a + 1) % b
<1> DEFINE q == a \div b  r == a % b
<1>1. q \in Int /\ r \in 0..(b - 1) /\ a = b * q + r
  BY DivMod
<1> HIDE DEF q, r
<1>2. a + 1 = (r + 1) + b * q
  BY <1>1
<1>3. ((r + 1) + b * q) % b = (r + 1) % b
  BY <1>1, ModTurns, r + 1 \in Int
<1> QED BY <1>1, <1>2, <1>3 DEF r

LEMMA ModDistance ==
  ASSUME NEW b \in Nat \ {0}, NEW a \in Int, NEW c \in Int
  PROVE  ((a % b) - (c % b)) % b = (a - c) % b
<1> DEFINE q == a \div b  r == a % b  p == c \div b  s == c % b
<1>1. /\ q \in Int /\ r \in 0..(b - 1) /\ a = b * q + r
      /\ p \in Int /\ s \in 0..(b - 1) /\ c = b * p + s
  BY DivMod
<1> HIDE DEF q, r, p, s
<1>2. a - c = (r - s) + b * (q - p)
  BY <1>1
<1>3. ((r - s) + b * (q - p)) % b = (r - s) % b
  BY <1>1, ModTurns, r - s \in Int, q - p \in Int
<1> QED BY <1>1, <1>2, <1>3 DEF r, s

\* Two numbers less than a turn apart are never at the same place.
LEMMA ModDiffers ==
  ASSUME NEW b \in Nat \ {0}, NEW a \in Int, NEW c \in Int,
         a # c, a - c < b, c - a < b
  PROVE  a % b # c % b
<1> SUFFICES ASSUME a % b = c % b PROVE FALSE
  OBVIOUS
<1>1. a % b \in Int /\ c % b \in Int
  BY DivMod
<1>2. (a - c) % b = 0 % b /\ (c - a) % b = 0 % b
  <2>1. (a % b) - (c % b) = 0 /\ (c % b) - (a % b) = 0
    BY <1>1
  <2>2. ((a % b) - (c % b)) % b = (a - c) % b /\ ((c % b) - (a % b)) % b = (c - a) % b
    BY ModDistance
  <2> QED BY <2>1, <2>2
<1>3. 0 % b = 0
  BY ModSmall
<1>4. CASE a > c
  BY <1>2, <1>3, <1>4, ModSmall, a - c \in 0..(b - 1)
<1>5. CASE c > a
  BY <1>2, <1>3, <1>5, ModSmall, c - a \in 0..(b - 1)
<1> QED BY <1>4, <1>5

LEMMA ModLess ==
  ASSUME NEW b \in Nat \ {0}, NEW a \in Nat
  PROVE  a % b <= a
<1>1. CASE a < b
  BY <1>1, ModSmall
<1>2. CASE a >= b
  <2>1. a % b \in 0..(b - 1)
    BY DivMod
  <2> QED BY <2>1, <1>2
<1> QED BY <1>1, <1>2

-----------------------------------------------------------------------------
(* Parts of sequences.                                                     *)

LEMMA SubType ==
  ASSUME NEW S, NEW s \in Seq(S), NEW a \in 1..(Len(s) + 1), NEW b \in Int, a <= b + 1, b <= Len(s)
  PROVE  /\ SubSeq(s, a, b) \in Seq(S) /\ Len(SubSeq(s, a, b)) = b - a + 1
         /\ \A i \in 1..(b - a + 1) : SubSeq(s, a, b)[i] = s[a + i - 1]
  OBVIOUS

LEMMA SameSeq ==
  ASSUME NEW S, NEW s \in Seq(S), NEW t \in Seq(S), Len(s) = Len(t),
         \A i \in 1..Len(s) : s[i] = t[i]
  PROVE  s = t
  OBVIOUS

IsCat(c, s, t) ==
  /\ Len(c) = Len(s) + Len(t)
  /\ \A i \in 1..Len(s) : c[i] = s[i]
  /\ \A i \in 1..Len(t) : c[Len(s) + i] = t[i]
  /\ \A i \in (Len(s) + 1)..(Len(s) + Len(t)) : c[i] = t[i - Len(s)]

LEMMA Catenated ==
  ASSUME NEW S, NEW s \in Seq(S), NEW t \in Seq(S)
  PROVE  s \o t \in Seq(S) /\ IsCat(s \o t, s, t)
  BY DEF IsCat

LEMMA CatType ==
  ASSUME NEW S, NEW s \in Seq(S), NEW t \in Seq(S)
  PROVE  /\ s \o t \in Seq(S) /\ Len(s \o t) = Len(s) + Len(t)
         /\ \A i \in 1..Len(s) : (s \o t)[i] = s[i]
         /\ \A i \in 1..Len(t) : (s \o t)[Len(s) + i] = t[i]
         /\ \A i \in (Len(s) + 1)..(Len(s) + Len(t)) : (s \o t)[i] = t[i - Len(s)]
  OBVIOUS

AppendsFirst(s, e, t) == Append(s, e) \o t = s \o (<<e>> \o t)

LEMMA AppendCat ==
  ASSUME NEW S, NEW s \in Seq(S), NEW e \in S, NEW t \in Seq(S)
  PROVE  AppendsFirst(s, e, t)
<1> DEFINE a == Append(s, e)  x == a \o t  c == <<e>> \o t  y == s \o c  n == Len(s)  m == Len(t)
<1>1. /\ a \in Seq(S) /\ Len(a) = n + 1 /\ a[n + 1] = e /\ \A i \in 1..n : a[i] = s[i]
      /\ n \in Nat /\ m \in Nat
  OBVIOUS
<1>2. <<e>> \in Seq(S) /\ Len(<<e>>) = 1 /\ <<e>>[1] = e
  OBVIOUS
<1>3. /\ c \in Seq(S) /\ Len(c) = m + 1 /\ c[1] = e
      /\ \A i \in 2..(m + 1) : c[i] = t[i - 1]
  BY <1>1, <1>2
<1> HIDE DEF a, c
<1>4. /\ x \in Seq(S) /\ Len(x) = n + 1 + m /\ \A i \in 1..(n + 1) : x[i] = a[i]
      /\ \A i \in (n + 2)..(n + 1 + m) : x[i] = t[i - (n + 1)]
  <2>1. /\ x \in Seq(S) /\ Len(x) = Len(a) + m /\ \A i \in 1..Len(a) : x[i] = a[i]
        /\ \A i \in (Len(a) + 1)..(Len(a) + m) : x[i] = t[i - Len(a)]
    <3>1. a \in Seq(S)
      BY <1>1
    <3>2. x \in Seq(S) /\ IsCat(x, a, t)
      BY <3>1, Catenated
    <3> HIDE DEF x
    <3> QED BY <3>2 DEF IsCat
  <2>2. Len(a) = n + 1 /\ Len(a) + 1 = n + 2
    BY <1>1
  <2> HIDE DEF x, n, m
  <2> QED BY <2>1, <2>2
<1>5. /\ y \in Seq(S) /\ Len(y) = n + (m + 1) /\ \A i \in 1..n : y[i] = s[i]
      /\ \A i \in (n + 1)..(n + (m + 1)) : y[i] = c[i - n]
  <2>1. /\ y \in Seq(S) /\ Len(y) = n + Len(c) /\ \A i \in 1..n : y[i] = s[i]
        /\ \A i \in (n + 1)..(n + Len(c)) : y[i] = c[i - n]
    <3>1. c \in Seq(S)
      BY <1>3
    <3>2. y \in Seq(S) /\ IsCat(y, s, c)
      BY <3>1, Catenated
    <3> HIDE DEF y
    <3> QED BY <3>2 DEF IsCat
  <2> HIDE DEF y, n, m
  <2> QED BY <2>1, <1>3
<1> HIDE DEF x, y, n, m
<1>6. ASSUME NEW i \in 1..Len(x) PROVE x[i] = y[i]
  <2>1. CASE i \in 1..n
    BY <2>1, <1>1, <1>4, <1>5
  <2>2. CASE i = n + 1
    BY <2>2, <1>1, <1>3, <1>4, <1>5
  <2>3. CASE i \in (n + 2)..(n + 1 + m)
    <3>1. i - n \in 2..(m + 1) /\ (i - n) - 1 = i - (n + 1) /\ i \in (n + 1)..(n + (m + 1))
      BY <2>3, <1>1
    <3> QED BY <3>1, <2>3, <1>3, <1>4, <1>5
  <2> QED BY <2>1, <2>2, <2>3, <1>1, <1>4
<1>7. Len(x) = Len(y)
  BY <1>1, <1>4, <1>5
<1>8. x = y
  BY <1>4, <1>5, <1>6, <1>7, SameSeq
<1> QED BY <1>8 DEF x, y, a, c, AppendsFirst
=============================================================================
