-------------------------- MODULE ActivityLedProofs --------------------------
(***************************************************************************)
(* Theorems about ActivityLed, for any window, any wrap of the counters    *)
(* and any traffic.  What iter().sum() computes is proved by induction     *)
(* over the buckets, in the form that the provers can use: a set of        *)
(* naturals that is not empty has a least member.                          *)
(***************************************************************************)
EXTENDS ActivityLed, TLAPS, WellFoundedInduction, SequenceTheorems

-----------------------------------------------------------------------------
(* Induction and remainders. *)

\* Every set of naturals that is not empty has a least member.
LEMMA LeastMember ==
  ASSUME NEW T, T \subseteq Nat, T # {}
  PROVE  \E x \in T : \A y \in T : x <= y
<1>1. PICK x \in T : \A y \in T : ~ (<<y, x>> \in OpToRel(<, Nat))
  BY WFMin, NatLessThanWellFounded
<1>2. \A y \in T : ~(y < x)
  BY <1>1 DEF OpToRel
<1>3. QED
  BY <1>2

\* A set that contains 0, and with every number up to n - 1 the next one, contains
\* 0..n.
LEMMA Induction ==
  ASSUME NEW n \in Nat, NEW P, 0 \in P,
         \A k \in 0..n - 1 : k \in P => k + 1 \in P
  PROVE  \A k \in 0..n : k \in P
<1> DEFINE T == {k \in 0..n : k \notin P}
<1>1. SUFFICES ASSUME T # {} PROVE FALSE
  OBVIOUS
<1>2. T \subseteq Nat
  OBVIOUS
<1>3. PICK x \in T : \A y \in T : x <= y
  BY <1>1, <1>2, LeastMember, Zenon
<1>4. x \in 0..n /\ x \notin P
  BY <1>3
<1>5. x # 0
  BY <1>4
<1>6. x - 1 \in 0..n - 1 /\ x - 1 \in 0..n /\ ~(x <= x - 1) /\ (x - 1) + 1 = x
  BY <1>4, <1>5
<1>7. x - 1 \notin T
  BY <1>3, <1>6
<1>8. x - 1 \in P
  BY <1>6, <1>7
<1>9. (x - 1) + 1 \in P
  BY <1>6, <1>8, Zenon
<1>10. QED
  BY <1>4, <1>6, <1>9

\* A remainder within one modulus of the range.
LEMMA Wrap ==
  ASSUME NEW m \in Nat \ {0}, NEW a \in Int, -m <= a, a < 2 * m
  PROVE  a % m = IF a < 0 THEN a + m ELSE IF a < m THEN a ELSE a - m
  OBVIOUS

\* The window has a slot, and a tick carries fewer frames than the counters count.
LEMMA Bounds ==
  /\ LED_BUCKETS \in Nat \ {0} /\ MaxPerTick \in Nat /\ CounterMod \in Nat \ {0}
  /\ MaxPerTick < CounterMod
<1>1. LED_BUCKETS \in Nat \ {0} /\ MaxPerTick \in Nat /\ CounterMod \in Nat
  BY LedAssumption
<1>2. MaxPerTick <= LED_BUCKETS * MaxPerTick
  <2>1. ASSUME NEW a \in Nat \ {0}, NEW b \in Nat PROVE b <= a * b
    OBVIOUS
  <2>2. QED
    BY <1>1, <2>1
<1>3. QED
  <2>1. LED_BUCKETS * MaxPerTick \in Nat /\ LED_BUCKETS * MaxPerTick < CounterMod
    BY <1>1, LedAssumption
  <2> HIDE DEF LedAssumption
  <2>2. QED
    BY <1>1, <1>2, <2>1

\* The slot y places behind slot x of the ring.
LEMMA RingSlot ==
  ASSUME NEW x \in Slots, NEW y \in 0..LED_BUCKETS
  PROVE  /\ (x + y) % LED_BUCKETS = IF x + y < LED_BUCKETS THEN x + y ELSE x + y - LED_BUCKETS
         /\ (x + y) % LED_BUCKETS \in Slots
<1>1. LED_BUCKETS \in Nat \ {0} /\ x \in Nat /\ y \in Nat /\ x < LED_BUCKETS /\ y <= LED_BUCKETS
  BY Bounds DEF Slots
<1>2. ASSUME NEW a \in Int, 0 <= a, a < 2 * LED_BUCKETS
      PROVE  /\ a % LED_BUCKETS = IF a < LED_BUCKETS THEN a ELSE a - LED_BUCKETS
             /\ a % LED_BUCKETS \in Slots
  <2>1. a % LED_BUCKETS = IF a < LED_BUCKETS THEN a ELSE a - LED_BUCKETS
    BY <1>1, <1>2
  <2>2. QED
    BY <1>1, <1>2, <2>1 DEF Slots
<1>3. x + y \in Int /\ 0 <= x + y /\ x + y < 2 * LED_BUCKETS
  BY <1>1
<1>4. QED
  BY <1>1, <1>2, <1>3

-----------------------------------------------------------------------------
(* What iter().sum() computes. *)

\* The partial sums of f.
Sums(f, sum) ==
  /\ sum \in [0..LED_BUCKETS -> Nat]
  /\ sum[0] = 0
  /\ \A n \in 0..LED_BUCKETS - 1 : sum[n + 1] = sum[n] + f[n]

\* There are partial sums up to every length.
LEMMA SumsExist ==
  ASSUME NEW f \in [Slots -> Nat]
  PROVE  \E sum : Sums(f, sum)
<1> DEFINE Upto(n) ==
      \E s \in [0..n -> Nat] : s[0] = 0 /\ \A i \in 0..n - 1 : s[i + 1] = s[i] + f[i]
    P == {n \in Nat : Upto(n)}
<1>1. LED_BUCKETS \in Nat
  BY LedAssumption
<1>2. 0 \in P
  <2> DEFINE z == [i \in 0..0 |-> 0]
  <2>1. z \in [0..0 -> Nat] /\ z[0] = 0 /\ \A i \in 0..0 - 1 : z[i + 1] = z[i] + f[i]
    OBVIOUS
  <2> HIDE DEF z
  <2>2. Upto(0)
    BY <2>1
  <2>3. QED
    BY <2>2
<1>3. ASSUME NEW n \in 0..LED_BUCKETS - 1, n \in P PROVE n + 1 \in P
  <2>1. PICK s \in [0..n -> Nat] : s[0] = 0 /\ \A i \in 0..n - 1 : s[i + 1] = s[i] + f[i]
    BY <1>3
  <2>2. n \in Nat /\ n \in 0..n /\ f[n] \in Nat /\ s[n] \in Nat
    BY <1>1, <2>1 DEF Slots
  <2> DEFINE t == [i \in 0..n + 1 |-> IF i = n + 1 THEN s[n] + f[n] ELSE s[i]]
  <2>3. t \in [0..n + 1 -> Nat]
    BY <2>1, <2>2
  <2>4. t[0] = 0
    BY <2>1, <2>2
  <2>5. ASSUME NEW i \in 0..n PROVE t[i + 1] = t[i] + f[i]
    <3>1. CASE i = n
      BY <2>2, <3>1
    <3>2. CASE i # n
      <4>1. i \in 0..n - 1 /\ i + 1 # n + 1 /\ i # n + 1 /\ i + 1 \in 0..n + 1 /\ i \in 0..n + 1
        BY <2>2, <3>2
      <4>2. t[i + 1] = s[i + 1] /\ t[i] = s[i]
        BY <4>1
      <4>3. QED
        BY <2>1, <4>1, <4>2
    <3>3. QED
      BY <3>1, <3>2
  <2>6. (n + 1) - 1 = n /\ n + 1 \in Nat
    BY <2>2
  <2>7. Upto(n + 1)
    <3> HIDE DEF t
    <3>1. QED
      BY <2>3, <2>4, <2>5, <2>6
  <2>8. QED
    BY <2>6, <2>7
<1>4. LED_BUCKETS \in P
  <2> HIDE DEF P
  <2>1. \A k \in 0..LED_BUCKETS : k \in P
    BY <1>1, <1>2, <1>3, Induction
  <2>2. QED
    BY <1>1, <2>1
<1>5. QED
  BY <1>4 DEF Sums

\* Total is the last of the partial sums.
LEMMA TotalSums ==
  ASSUME NEW f \in [Slots -> Nat]
  PROVE  \E sum : Sums(f, sum) /\ Total(f) = sum[LED_BUCKETS]
<1> DEFINE Eq(s) == s = [n \in 0..LED_BUCKETS |-> IF n = 0 THEN 0 ELSE s[n - 1] + f[n - 1]]
<1>1. LED_BUCKETS \in Nat
  BY LedAssumption
<1>2. PICK g : Sums(f, g)
  BY SumsExist
<1>3. Eq(g)
  <2>1. ASSUME NEW n \in 0..LED_BUCKETS
        PROVE  g[n] = IF n = 0 THEN 0 ELSE g[n - 1] + f[n - 1]
    <3>1. CASE n = 0
      BY <1>2, <3>1 DEF Sums
    <3>2. CASE n # 0
      <4>1. n - 1 \in 0..LED_BUCKETS - 1 /\ (n - 1) + 1 = n
        BY <1>1, <3>2
      <4>2. QED
        BY <1>2, <3>2, <4>1 DEF Sums
    <3>3. QED
      BY <3>1, <3>2
  <2>2. QED
    BY <1>2, <2>1 DEF Sums
<1> DEFINE h == CHOOSE s : Eq(s)
<1>4. Eq(h)
  BY <1>3, Zenon
<1>5. Total(f) = h[LED_BUCKETS]
  BY DEF Total
<1> HIDE DEF h
<1>6. \A n \in 0..LED_BUCKETS : h[n] = g[n]
  <2> DEFINE P == {n \in Nat : h[n] = g[n]}
  <2>1. 0 \in P
    BY <1>1, <1>2, <1>4 DEF Sums
  <2>2. ASSUME NEW n \in 0..LED_BUCKETS - 1, n \in P PROVE n + 1 \in P
    <3>1. n + 1 \in 0..LED_BUCKETS /\ n + 1 # 0 /\ (n + 1) - 1 = n /\ n + 1 \in Nat
      BY <1>1
    <3>2. h[n + 1] = h[n] + f[n]
      BY <1>4, <3>1
    <3>3. QED
      BY <1>2, <2>2, <3>1, <3>2 DEF Sums
  <2> HIDE DEF P
  <2>3. \A k \in 0..LED_BUCKETS : k \in P
    BY <1>1, <2>1, <2>2, Induction
  <2>4. QED
    BY <2>3 DEF P
<1>7. Total(f) = g[LED_BUCKETS]
  BY <1>1, <1>5, <1>6
<1>8. QED
  BY <1>2, <1>7

\* Sums are natural numbers.
LEMMA TotalType ==
  ASSUME NEW f \in [Slots -> Nat]
  PROVE  Total(f) \in Nat
<1>1. PICK s : Sums(f, s) /\ Total(f) = s[LED_BUCKETS]
  BY TotalSums
<1>2. LED_BUCKETS \in 0..LED_BUCKETS
  BY LedAssumption
<1>3. QED
  BY <1>1, <1>2 DEF Sums

\* A new value in one slot changes the sum by the difference.
LEMMA TotalUpdate ==
  ASSUME NEW f \in [Slots -> Nat], NEW j \in Slots, NEW v \in Nat
  PROVE  Total([f EXCEPT ![j] = v]) = Total(f) - f[j] + v
<1> DEFINE g == [f EXCEPT ![j] = v]
<1>1. LED_BUCKETS \in Nat /\ j \in 0..LED_BUCKETS - 1 /\ f[j] \in Nat
  BY LedAssumption DEF Slots
<1>2. g \in [Slots -> Nat] /\ g[j] = v /\ \A i \in Slots : i # j => g[i] = f[i]
  OBVIOUS
<1> HIDE DEF g
<1>3. PICK s : Sums(f, s) /\ Total(f) = s[LED_BUCKETS]
  BY TotalSums
<1>4. PICK t : Sums(g, t) /\ Total(g) = t[LED_BUCKETS]
  BY <1>2, TotalSums
<1> DEFINE P == {n \in Nat : t[n] = IF n <= j THEN s[n] ELSE s[n] - f[j] + v}
<1>5. 0 \in P
  BY <1>1, <1>3, <1>4 DEF Sums
<1>6. ASSUME NEW n \in 0..LED_BUCKETS - 1, n \in P PROVE n + 1 \in P
  <2>1. n \in Slots /\ n \in Nat /\ f[n] \in Nat /\ n \in 0..LED_BUCKETS
    BY <1>1 DEF Slots
  <2>2. s[n + 1] = s[n] + f[n] /\ t[n + 1] = t[n] + g[n] /\ s[n] \in Nat
    BY <1>3, <1>4, <2>1 DEF Sums
  <2>3. t[n] = IF n <= j THEN s[n] ELSE s[n] - f[j] + v
    BY <1>6
  <2>4. CASE n = j
    BY <1>1, <1>2, <2>1, <2>2, <2>3, <2>4
  <2>5. CASE n # j
    <3>1. g[n] = f[n]
      BY <1>2, <2>1, <2>5
    <3>2. (n + 1 <= j) <=> (n <= j)
      BY <1>1, <2>1, <2>5
    <3>3. QED
      BY <1>1, <2>1, <2>2, <2>3, <3>1, <3>2
  <2>6. QED
    BY <2>4, <2>5
<1>7. LED_BUCKETS \in P
  <2> HIDE DEF P
  <2>1. \A k \in 0..LED_BUCKETS : k \in P
    BY <1>1, <1>5, <1>6, Induction
  <2>2. QED
    BY <1>1, <2>1
<1>8. t[LED_BUCKETS] = s[LED_BUCKETS] - f[j] + v
  BY <1>1, <1>7
<1>9. QED
  BY <1>3, <1>4, <1>8 DEF g

\* Moving the window on replaces its oldest tick by the newest.
LEMMA TotalShifted ==
  ASSUME NEW f \in [Slots -> Nat], NEW v \in Nat
  PROVE  Total(Shifted(f, v)) = Total(f) - f[0] + v
<1> DEFINE g == Shifted(f, v)
<1>1. LED_BUCKETS \in Nat \ {0} /\ 0 \in Slots /\ f[0] \in Nat
  BY LedAssumption DEF Slots
<1>2. /\ g \in [Slots -> Nat] /\ g[LED_BUCKETS - 1] = v
      /\ \A i \in Slots : i # LED_BUCKETS - 1 => g[i] = f[i + 1]
  BY <1>1 DEF Shifted, Slots
<1> HIDE DEF g
<1>3. PICK s : Sums(f, s) /\ Total(f) = s[LED_BUCKETS]
  BY TotalSums
<1>4. PICK t : Sums(g, t) /\ Total(g) = t[LED_BUCKETS]
  BY <1>2, TotalSums
<1> DEFINE P == {n \in Nat : t[n] = s[n + 1] - f[0]}
<1>5. 0 \in P
  <2>1. s[1] = f[0]
    <3>1. 0 \in 0..LED_BUCKETS - 1 /\ 0 + 1 = 1
      BY <1>1
    <3>2. s[0 + 1] = s[0] + f[0] /\ s[0] = 0
      BY <1>3, <3>1 DEF Sums
    <3>3. QED
      BY <1>1, <3>1, <3>2
  <2>2. QED
    BY <1>1, <1>4, <2>1 DEF Sums
<1>6. ASSUME NEW n \in 0..(LED_BUCKETS - 1) - 1, n \in P PROVE n + 1 \in P
  <2>1. /\ n \in Slots /\ n # LED_BUCKETS - 1 /\ n + 1 \in Slots /\ n \in Nat
        /\ n + 1 \in 0..LED_BUCKETS - 1 /\ n \in 0..LED_BUCKETS - 1
        /\ n + 1 \in 0..LED_BUCKETS
    BY <1>1 DEF Slots
  <2>2. s[n + 1] \in Nat /\ f[n + 1] \in Nat
    BY <1>3, <2>1 DEF Sums
  <2>3. s[(n + 1) + 1] = s[n + 1] + f[n + 1] /\ t[n + 1] = t[n] + g[n]
    BY <1>3, <1>4, <2>1 DEF Sums
  <2>4. g[n] = f[n + 1]
    BY <1>2, <2>1
  <2>5. t[n] = s[n + 1] - f[0]
    BY <1>6
  <2>6. t[n + 1] = s[(n + 1) + 1] - f[0]
    BY <1>1, <2>2, <2>3, <2>4, <2>5
  <2>7. QED
    BY <2>1, <2>6
<1>7. LED_BUCKETS - 1 \in P
  <2> HIDE DEF P
  <2>1. LED_BUCKETS - 1 \in Nat /\ LED_BUCKETS - 1 \in 0..LED_BUCKETS - 1
    BY <1>1
  <2>2. \A k \in 0..LED_BUCKETS - 1 : k \in P
    BY <2>1, <1>5, <1>6, Induction
  <2>3. QED
    BY <2>1, <2>2
<1>8. t[LED_BUCKETS] = t[LED_BUCKETS - 1] + v /\ s[LED_BUCKETS] \in Nat
  <2>1. LED_BUCKETS - 1 \in 0..LED_BUCKETS - 1 /\ (LED_BUCKETS - 1) + 1 = LED_BUCKETS
        /\ LED_BUCKETS \in 0..LED_BUCKETS
    BY <1>1
  <2>2. t[(LED_BUCKETS - 1) + 1] = t[LED_BUCKETS - 1] + g[LED_BUCKETS - 1]
    BY <1>4, <2>1 DEF Sums
  <2>3. QED
    BY <1>2, <1>3, <2>1, <2>2 DEF Sums
<1>9. t[LED_BUCKETS - 1] = s[LED_BUCKETS] - f[0]
  <2>1. (LED_BUCKETS - 1) + 1 = LED_BUCKETS
    BY <1>1
  <2>2. QED
    BY <1>7, <2>1
<1>10. QED
  BY <1>1, <1>3, <1>4, <1>8, <1>9 DEF g

\* Buckets that are all empty sum up to nothing.
LEMMA TotalZero == Total([i \in Slots |-> 0]) = 0
<1> DEFINE f == [i \in Slots |-> 0]
<1>1. f \in [Slots -> Nat] /\ \A i \in Slots : f[i] = 0
  OBVIOUS
<1> HIDE DEF f
<1>2. LED_BUCKETS \in Nat
  BY LedAssumption
<1>3. PICK s : Sums(f, s) /\ Total(f) = s[LED_BUCKETS]
  BY <1>1, TotalSums
<1> DEFINE P == {n \in Nat : s[n] = 0}
<1>4. 0 \in P
  BY <1>3 DEF Sums
<1>5. ASSUME NEW n \in 0..LED_BUCKETS - 1, n \in P PROVE n + 1 \in P
  BY <1>1, <1>2, <1>3, <1>5 DEF Sums, Slots
<1>6. LED_BUCKETS \in P
  <2> HIDE DEF P
  <2>1. \A k \in 0..LED_BUCKETS : k \in P
    BY <1>2, <1>4, <1>5, Induction
  <2>2. QED
    BY <1>2, <2>1
<1>7. QED
  BY <1>3, <1>6 DEF f

-----------------------------------------------------------------------------
(* What reaches the LED. *)

\* A level is at most MAX_LEVEL, so it is a byte.
LEMMA LevelBounds == \A n \in Nat : level_from_count(n) \in 0..MAX_LEVEL
  BY DEF level_from_count, AtMost, MAX_LEVEL, MIN_LEVEL, FRAMES_FOR_FULL

\* A function on 1..n is a sequence.
LEMMA Listed ==
  ASSUME NEW n \in Nat, NEW c \in [1..n -> Int]
  PROVE  c \in Seq(Int) /\ Len(c) = n
<1>1. c \in Seq(Int)
  BY SeqDef
<1>2. DOMAIN c = 1..n
  OBVIOUS
<1>3. QED
  BY <1>1, <1>2, LenProperties

\* The bits of a byte make up the byte.
LEMMA BitsOfByte ==
  ASSUME NEW a \in 0..255
  PROVE  /\ Bits(a) \in Seq(Int) /\ Len(Bits(a)) = 8
         /\ 128 * Bits(a)[1] + 64 * Bits(a)[2] + 32 * Bits(a)[3] + 16 * Bits(a)[4]
              + 8 * Bits(a)[5] + 4 * Bits(a)[6] + 2 * Bits(a)[7] + Bits(a)[8] = a
<1>1. Bits(a) \in [1..8 -> Int]
  <2>1. ASSUME NEW i \in 1..8 PROVE (a \div 2^(8 - i)) % 2 \in Int
    <3>1. i = 1 \/ i = 2 \/ i = 3 \/ i = 4 \/ i = 5 \/ i = 6 \/ i = 7 \/ i = 8
      OBVIOUS
    <3>2. /\ 2^(8 - 1) = 128 /\ 2^(8 - 2) = 64 /\ 2^(8 - 3) = 32 /\ 2^(8 - 4) = 16
          /\ 2^(8 - 5) = 8 /\ 2^(8 - 6) = 4 /\ 2^(8 - 7) = 2 /\ 2^(8 - 8) = 1
      OBVIOUS
    <3>3. QED
      BY <3>1, <3>2
  <2>2. QED
    BY <2>1 DEF Bits
<1>2. Bits(a) \in Seq(Int) /\ Len(Bits(a)) = 8
  <2>1. 8 \in Nat
    OBVIOUS
  <2>2. QED
    BY <1>1, <2>1, Listed, Zenon
<1>3. /\ Bits(a)[1] = (a \div 128) % 2 /\ Bits(a)[2] = (a \div 64) % 2
      /\ Bits(a)[3] = (a \div 32) % 2 /\ Bits(a)[4] = (a \div 16) % 2
      /\ Bits(a)[5] = (a \div 8) % 2 /\ Bits(a)[6] = (a \div 4) % 2
      /\ Bits(a)[7] = (a \div 2) % 2 /\ Bits(a)[8] = (a \div 1) % 2
  BY DEF Bits
<1>4. 128 * ((a \div 128) % 2) + 64 * ((a \div 64) % 2) + 32 * ((a \div 32) % 2)
        + 16 * ((a \div 16) % 2) + 8 * ((a \div 8) % 2) + 4 * ((a \div 4) % 2)
        + 2 * ((a \div 2) % 2) + ((a \div 1) % 2) = a
  OBVIOUS
<1>5. QED
  BY <1>2, <1>3, <1>4

\* Sequence u consists of s and t.
Joined(u, s, t) ==
  /\ u \in Seq(Int) /\ Len(u) = Len(s) + Len(t)
  /\ \A i \in 1..Len(s) : u[i] = s[i]
  /\ \A i \in 1..Len(t) : u[Len(s) + i] = t[i]

\* So does a concatenation.
LEMMA Join ==
  ASSUME NEW s \in Seq(Int), NEW t \in Seq(Int)
  PROVE  Joined(s \o t, s, t)
<1>1. s \o t \in Seq(Int)
  OBVIOUS
<1>2. Len(s \o t) = Len(s) + Len(t)
  OBVIOUS
<1>3. ASSUME NEW i \in 1..Len(s) PROVE (s \o t)[i] = s[i]
  OBVIOUS
<1>4. ASSUME NEW i \in 1..Len(t) PROVE (s \o t)[Len(s) + i] = t[i]
  OBVIOUS
<1>5. QED
  BY <1>1, <1>2, <1>3, <1>4 DEF Joined

\* Sequence w is x, y and z of eight each.
Octets(w, x, y, z) ==
  /\ Len(w) = 24
  /\ \A i \in 1..8 : w[i] = x[i] /\ w[8 + i] = y[i] /\ w[16 + i] = z[i]

\* Three sequences of eight in a row.
LEMMA Rows ==
  ASSUME NEW x \in Seq(Int), NEW y \in Seq(Int), NEW z \in Seq(Int),
         Len(x) = 8, Len(y) = 8, Len(z) = 8
  PROVE  Octets(x \o y \o z, x, y, z)
<1>1. PICK u : u = x \o y
  OBVIOUS
<1>2. Joined(u, x, y)
  BY <1>1, Join, Zenon
<1>3. PICK w : w = u \o z
  OBVIOUS
<1>4. u \in Seq(Int)
  BY <1>2 DEF Joined
<1>5. Joined(w, u, z)
  BY <1>3, <1>4, Join, Zenon
<1>6. Len(u) = 16 /\ (\A i \in 1..8 : u[i] = x[i]) /\ \A i \in 1..8 : u[8 + i] = y[i]
  BY <1>2 DEF Joined
<1>7. Len(w) = 24 /\ (\A i \in 1..16 : w[i] = u[i]) /\ \A i \in 1..8 : w[16 + i] = z[i]
  BY <1>5, <1>6 DEF Joined
<1>8. ASSUME NEW i \in 1..8 PROVE w[i] = x[i] /\ w[8 + i] = y[i] /\ w[16 + i] = z[i]
  <2>1. i \in 1..16 /\ 8 + i \in 1..16
    OBVIOUS
  <2>2. w[i] = u[i] /\ w[8 + i] = u[8 + i]
    BY <1>7, <2>1, Zenon
  <2>3. QED
    BY <1>6, <1>7, <2>2, Zenon
<1>9. Octets(w, x, y, z)
  BY <1>7, <1>8 DEF Octets
<1>10. QED
  BY <1>1, <1>3, <1>9, Zenon

\* A WS2812B sees the colour that set_rgb was given.
LEMMA PulsesShow ==
  ASSUME NEW r \in 0..255, NEW g \in 0..255, NEW b \in 0..255
  PROVE  Colour(Pulses(r, g, b)) = [green |-> g, red |-> r, blue |-> b]
<1>1. PICK x \in Seq(Int) : x = Bits(g)
  BY BitsOfByte
<1>2. PICK y \in Seq(Int) : y = Bits(r)
  BY BitsOfByte
<1>3. PICK z \in Seq(Int) : z = Bits(b)
  BY BitsOfByte
<1>4. /\ Len(x) = 8 /\ Len(y) = 8 /\ Len(z) = 8
      /\ 128 * x[1] + 64 * x[2] + 32 * x[3] + 16 * x[4] + 8 * x[5] + 4 * x[6] + 2 * x[7] + x[8] = g
      /\ 128 * y[1] + 64 * y[2] + 32 * y[3] + 16 * y[4] + 8 * y[5] + 4 * y[6] + 2 * y[7] + y[8] = r
      /\ 128 * z[1] + 64 * z[2] + 32 * z[3] + 16 * z[4] + 8 * z[5] + 4 * z[6] + 2 * z[7] + z[8] = b
  BY <1>1, <1>2, <1>3, BitsOfByte
<1>5. PICK p : p = Pulses(r, g, b)
  OBVIOUS
<1>6. p = x \o y \o z
  BY <1>1, <1>2, <1>3, <1>5 DEF Pulses
<1>7. Len(p) = 24 /\ \A i \in 1..8 : p[i] = x[i] /\ p[8 + i] = y[i] /\ p[16 + i] = z[i]
  <2>1. Octets(p, x, y, z)
    BY <1>4, <1>6, Rows, Zenon
  <2>2. QED
    BY <2>1 DEF Octets
<1>8. Byte(p, 0) = g
  BY <1>4, <1>7 DEF Byte
<1>9. Byte(p, 8) = r
  BY <1>4, <1>7 DEF Byte
<1>10. Byte(p, 16) = b
  BY <1>4, <1>7 DEF Byte
<1>11. Colour(p) = [green |-> g, red |-> r, blue |-> b]
  BY <1>8, <1>9, <1>10 DEF Colour
<1>12. QED
  BY <1>5, <1>11, Zenon

-----------------------------------------------------------------------------
(* The invariant holds initially. *)

\* main starts with empty buckets and a dark LED.
LEMMA InitInv == Init => Inv
<1> SUFFICES ASSUME Init PROVE Inv
  OBVIOUS
<1> USE Bounds
<1>1. buckets = [c \in Counters |-> [i \in Slots |-> 0]] /\ recent = buckets
  BY DEF Init
<1>2. ASSUME NEW c \in Counters
      PROVE  Total(buckets[c]) = 0 /\ recent[c] = buckets[c]
  BY <1>1, TotalZero
<1>3. TypeOK
  <2>1. blues \in Seq({0, STATUS_BLUE}) /\ Len(blues) = 0
    BY DEF Init
  <2>2. 0 \in 0..CounterMod - 1 /\ 0 \in Slots /\ 0 \in 0..LED_BUCKETS
    BY DEF Slots
  <2>3. count = [c \in Counters |-> 0] /\ last = count /\ pending = count
    BY DEF Init
  <2>4. pending["rx"] + pending["tx"] <= MaxPerTick
    BY <2>3 DEF Counters
  <2>5. QED
    <3>1. count \in [Counters -> 0..CounterMod - 1] /\ pending \in [Counters -> Nat]
      BY <2>2, <2>3
    <3>2. last \in [Counters -> 0..CounterMod - 1]
      BY <2>3, <3>1
    <3>3. buckets \in [Counters -> [Slots -> Nat]] /\ recent \in [Counters -> [Slots -> Nat]]
      BY <1>1
    <3>4. CONFIG_MODE \in BOOLEAN /\ WIFI_CONNECTED \in BOOLEAN /\ TCP_CLIENTS \in BOOLEAN
      BY DEF Init
    <3>5. idx = 0 /\ status = "none" /\ steady = 0
      BY DEF Init
    <3>6. QED
      BY <2>1, <2>2, <2>4, <3>1, <3>2, <3>3, <3>4, <3>5 DEF TypeOK
<1>4. CountsApart
  BY DEF Init, CountsApart
<1>5. WindowExact
  <2>1. ASSUME NEW i \in Slots PROVE (idx + i) % LED_BUCKETS \in Slots
    <3>1. idx \in Slots /\ i \in 0..LED_BUCKETS
      BY DEF Init, Slots
    <3>2. QED
      BY <3>1, RingSlot
  <2>2. QED
    BY <1>1, <2>1 DEF WindowExact
<1>6. SameTotals
  BY <1>2 DEF SameTotals
<1>7. Shown
  <2>1. Total(recent["tx"]) = 0 /\ Total(recent["rx"]) = 0
    BY <1>2 DEF Counters
  <2>2. level_from_count(0) = 0
    BY DEF level_from_count
  <2>3. QED
    BY <2>1, <2>2 DEF Init, Shown, LastBlue
<1>8. BluesExact
  BY DEF Init, BluesExact
<1>9. QED
  BY <1>3, <1>4, <1>5, <1>6, <1>7, <1>8 DEF Inv

-----------------------------------------------------------------------------
(* A tick preserves it. *)

\* The next slot of the ring.
LEMMA NextSlot ==
  ASSUME TypeOK, NEW sent, Tick(sent)
  PROVE  /\ idx' = IF idx + 1 = LED_BUCKETS THEN 0 ELSE idx + 1
         /\ idx' \in Slots
<1>1. idx + 1 \in Int /\ 0 <= idx + 1 /\ idx + 1 <= LED_BUCKETS
  BY Bounds DEF TypeOK, Slots
<1>2. (idx + 1) % LED_BUCKETS = IF idx + 1 = LED_BUCKETS THEN 0 ELSE idx + 1
  BY <1>1, Bounds, Wrap
<1>3. QED
  BY <1>1, <1>2, Bounds DEF Tick, Slots

\* wrapping_sub finds the frames since the last tick, whatever wrapped.
LEMMA SinceExact ==
  ASSUME TypeOK, CountsApart, NEW c \in Counters
  PROVE  Since(c) = pending[c]
<1>1. count[c] \in 0..CounterMod - 1 /\ last[c] \in 0..CounterMod - 1 /\ pending[c] \in Nat
  BY DEF TypeOK
<1>2. pending[c] <= MaxPerTick
  <2>1. c = "rx" \/ c = "tx"
    BY DEF Counters
  <2>2. pending["rx"] \in Nat /\ pending["tx"] \in Nat /\ MaxPerTick \in Nat
    BY Bounds DEF TypeOK, Counters
  <2>3. QED
    BY <2>1, <2>2 DEF TypeOK
<1>3. pending[c] < CounterMod /\ CounterMod \in Nat \ {0}
  BY <1>1, <1>2, Bounds
<1>4. count[c] - last[c] = pending[c] \/ count[c] - last[c] = pending[c] - CounterMod
  BY DEF CountsApart
<1>5. (count[c] - last[c]) % CounterMod = pending[c]
  BY <1>1, <1>3, <1>4, Wrap
<1>6. QED
  BY <1>5 DEF Since

\* What a tick does to the ring and to the history of one counter.
LEMMA TickRing ==
  ASSUME TypeOK, CountsApart, NEW sent, Tick(sent), NEW c \in Counters
  PROVE  /\ pending[c] \in Nat
         /\ buckets[c] \in [Slots -> Nat] /\ recent[c] \in [Slots -> Nat]
         /\ buckets'[c] = [buckets[c] EXCEPT ![idx] = pending[c]]
         /\ recent'[c] = Shifted(recent[c], pending[c])
  BY SinceExact DEF TypeOK, Tick

\* The ring stays the window.
LEMMA WindowStep ==
  ASSUME TypeOK, CountsApart, WindowExact, NEW sent, Tick(sent)
  PROVE  WindowExact'
<1> SUFFICES ASSUME NEW c \in Counters, NEW i \in Slots
             PROVE  buckets'[c][(idx' + i) % LED_BUCKETS] = recent'[c][i]
  BY DEF WindowExact
<1> DEFINE n == LED_BUCKETS
<1>1. n \in Nat \ {0} /\ i \in 0..n - 1 /\ idx \in 0..n - 1 /\ idx' \in 0..n - 1
  BY Bounds, NextSlot DEF TypeOK, Slots
<1>2. idx' = IF idx + 1 = n THEN 0 ELSE idx + 1
  BY NextSlot
<1>3. (idx' + i) % n = IF idx' + i < n THEN idx' + i ELSE idx' + i - n
  <2>1. idx' \in Slots /\ i \in 0..LED_BUCKETS
    BY <1>1 DEF Slots
  <2>2. QED
    BY <2>1, RingSlot
<1>4. /\ buckets[c] \in [Slots -> Nat] /\ recent[c] \in [Slots -> Nat]
      /\ buckets'[c] = [buckets[c] EXCEPT ![idx] = pending[c]]
      /\ recent'[c] = Shifted(recent[c], pending[c])
  BY TickRing
<1>5. CASE i = n - 1
  <2>1. (idx' + i) % n = idx
    BY <1>1, <1>2, <1>3, <1>5
  <2>2. buckets'[c][idx] = pending[c]
    BY <1>1, <1>4 DEF Slots
  <2>3. recent'[c][i] = pending[c]
    BY <1>4, <1>5 DEF Shifted
  <2>4. QED
    BY <2>1, <2>2, <2>3
<1>6. CASE i # n - 1
  <2>1. i + 1 \in Slots
    BY <1>1, <1>6 DEF Slots
  <2>2. (idx + (i + 1)) % n = IF idx + (i + 1) < n THEN idx + (i + 1) ELSE idx + (i + 1) - n
    <3>1. idx \in Slots /\ i + 1 \in 0..LED_BUCKETS
      BY <1>1 DEF Slots
    <3>2. QED
      BY <3>1, RingSlot
  <2>3. (idx' + i) % n = (idx + (i + 1)) % n
    BY <1>1, <1>2, <1>3, <1>6, <2>2
  <2>4. (idx + (i + 1)) % n # idx /\ (idx + (i + 1)) % n \in Slots
    BY <1>1, <1>6, <2>2 DEF Slots
  <2>5. buckets'[c][(idx + (i + 1)) % n] = buckets[c][(idx + (i + 1)) % n]
    BY <1>4, <2>4
  <2>6. buckets[c][(idx + (i + 1)) % n] = recent[c][i + 1]
    BY <2>1 DEF WindowExact
  <2>7. recent'[c][i] = recent[c][i + 1]
    BY <1>4, <1>6 DEF Shifted
  <2>8. QED
    BY <2>3, <2>5, <2>6, <2>7
<1>7. QED
  BY <1>5, <1>6

\* The sums stay the same: the slot that is overwritten held the oldest tick.
LEMMA TotalsStep ==
  ASSUME TypeOK, CountsApart, WindowExact, SameTotals, NEW sent, Tick(sent)
  PROVE  SameTotals'
<1> SUFFICES ASSUME NEW c \in Counters PROVE Total(buckets'[c]) = Total(recent'[c])
  BY DEF SameTotals
<1>1. idx \in Slots /\ 0 \in Slots
  BY Bounds DEF TypeOK, Slots
<1>2. /\ pending[c] \in Nat /\ buckets[c] \in [Slots -> Nat] /\ recent[c] \in [Slots -> Nat]
      /\ buckets'[c] = [buckets[c] EXCEPT ![idx] = pending[c]]
      /\ recent'[c] = Shifted(recent[c], pending[c])
  BY TickRing
<1>3. buckets[c][idx] = recent[c][0]
  <2>1. (idx + 0) % LED_BUCKETS = idx
    BY <1>1, Bounds, Wrap DEF Slots
  <2>2. QED
    BY <1>1, <2>1 DEF WindowExact
<1>4. Total(buckets'[c]) = Total(buckets[c]) - buckets[c][idx] + pending[c]
  BY <1>1, <1>2, TotalUpdate
<1>5. Total(recent'[c]) = Total(recent[c]) - recent[c][0] + pending[c]
  BY <1>2, TotalShifted
<1>6. Total(buckets[c]) = Total(recent[c])
  BY DEF SameTotals
<1>7. QED
  BY <1>3, <1>4, <1>5, <1>6

\* Blue depends on the status and the slot only.
LEMMA BlueExact ==
  /\ Status \in {"client", "ready", "connecting"}
  /\ Blue = BlueOf(Status, idx) /\ Blue \in {0, STATUS_BLUE}
<1>1. Status \in {"client", "ready", "connecting"}
  BY DEF Status
<1>2. CASE Status = "client"
  BY <1>2 DEF Blue, BlueOf
<1>3. CASE Status = "ready"
  BY <1>3 DEF Blue, BlueOf
<1>4. CASE Status = "connecting"
  BY <1>4 DEF Blue, BlueOf
<1>5. QED
  BY <1>1, <1>2, <1>3, <1>4

\* After a tick every earlier one lies one slot further back.
LEMMA SlotBack ==
  ASSUME TypeOK, NEW sent, Tick(sent), NEW a \in 0..LED_BUCKETS - 1
  PROVE  SlotBefore(idx', a + 1) = SlotBefore(idx, a)
<1>1. idx \in 0..LED_BUCKETS - 1 /\ LED_BUCKETS \in Nat \ {0}
  BY Bounds DEF TypeOK, Slots
<1>2. idx' = IF idx + 1 = LED_BUCKETS THEN 0 ELSE idx + 1
  BY NextSlot
<1>3. QED
  BY <1>1, <1>2 DEF SlotBefore

\* The sequence of blue levels after a tick.
LEMMA BluesTick ==
  ASSUME TypeOK, NEW sent, Tick(sent)
  PROVE  /\ blues' \in Seq({0, STATUS_BLUE}) /\ Len(blues') = steady' /\ steady' \in 1..LED_BUCKETS
         /\ blues'[steady'] = Blue
         /\ steady' > 1 =>
              /\ status = Status
              /\ \A j \in 1..steady' - 1 :
                   /\ j + (steady + 1 - steady') \in 1..steady
                   /\ blues'[j] = blues[j + (steady + 1 - steady')]
<1> DEFINE B == {0, STATUS_BLUE}
<1>1. /\ LED_BUCKETS \in Nat \ {0} /\ steady \in 0..LED_BUCKETS
      /\ blues \in Seq(B) /\ Len(blues) = steady /\ Blue \in B
  BY Bounds, BlueExact DEF TypeOK
<1>2. CASE status # Status
  <2>1. steady' = 1 /\ blues' = <<Blue>>
    <3>1. steady' = 1
      BY <1>2 DEF Tick
    <3>2. blues' = IF Len(<<Blue>>) > LED_BUCKETS THEN Tail(<<Blue>>) ELSE <<Blue>>
      BY <1>2 DEF Tick
    <3>3. ~(Len(<<Blue>>) > LED_BUCKETS)
      BY <1>1
    <3>4. QED
      BY <3>1, <3>2, <3>3
  <2>2. <<Blue>> \in Seq(B) /\ Len(<<Blue>>) = 1 /\ <<Blue>>[1] = Blue
    BY <1>1
  <2>3. QED
    BY <1>1, <2>1, <2>2
<1>3. CASE status = Status
  <2>1. PICK b : b = Append(blues, Blue)
    OBVIOUS
  <2>2. b \in Seq(B) /\ Len(b) = steady + 1
    BY <1>1, <2>1, AppendProperties
  <2>3. b[steady + 1] = Blue /\ \A j \in 1..steady : b[j] = blues[j]
    BY <1>1, <2>1, AppendProperties
  <2>4. blues' = IF Len(b) > LED_BUCKETS THEN Tail(b) ELSE b
    BY <1>3, <2>1 DEF Tick
  <2>5. steady' = IF steady + 1 <= LED_BUCKETS THEN steady + 1 ELSE LED_BUCKETS
    BY <1>3 DEF Tick, AtMost
  <2>6. CASE steady < LED_BUCKETS
    <3>1. steady' = steady + 1 /\ blues' = b
      BY <1>1, <2>2, <2>4, <2>5, <2>6
    <3>2. steady' - 1 = steady /\ \A j \in 1..steady : j + (steady + 1 - steady') = j
      BY <1>1, <3>1
    <3>3. ASSUME NEW j \in 1..steady' - 1
          PROVE  /\ j + (steady + 1 - steady') \in 1..steady
                 /\ blues'[j] = blues[j + (steady + 1 - steady')]
      BY <1>1, <2>3, <3>1, <3>2
    <3>4. steady' \in 1..LED_BUCKETS /\ blues'[steady'] = Blue
      BY <1>1, <2>3, <2>6, <3>1
    <3>5. QED
      BY <1>3, <2>2, <3>1, <3>3, <3>4
  <2>7. CASE steady = LED_BUCKETS
    <3>1. steady' = LED_BUCKETS /\ blues' = Tail(b)
      BY <1>1, <2>2, <2>4, <2>5, <2>7
    <3>2. b # <<>>
      BY <1>1, <2>2, EmptySeq
    <3>3. blues' \in Seq(B) /\ Len(blues') = steady /\ \A j \in 1..steady : blues'[j] = b[j + 1]
      BY <1>1, <2>2, <3>1, <3>2, HeadTailProperties
    <3>4. steady' = steady /\ steady \in 1..steady /\ steady \in Nat
      BY <1>1, <2>7, <3>1
    <3>5. ASSUME NEW j \in 1..steady - 1
          PROVE  /\ j + (steady + 1 - steady') \in 1..steady
                 /\ blues'[j] = blues[j + (steady + 1 - steady')]
      <4>1. j + (steady + 1 - steady') = j + 1 /\ j + 1 \in 1..steady /\ j \in 1..steady
        BY <3>4
      <4>2. QED
        BY <2>3, <3>3, <4>1
    <3>6. QED
      BY <1>1, <1>3, <2>3, <2>7, <3>3, <3>4, <3>5
  <2>8. QED
    BY <1>1, <2>6, <2>7
<1>4. QED
  BY <1>2, <1>3

\* The LED gets the levels of the new window, or garbage.
LEMMA ShownStep ==
  ASSUME TypeOK, SameTotals', NEW sent, Tick(sent)
  PROVE  Shown'
<1>1. LastBlue' = Blue
  BY BluesTick DEF LastBlue
<1>2. Total(buckets'["tx"]) = Total(recent'["tx"]) /\ Total(buckets'["rx"]) = Total(recent'["rx"])
  BY DEF SameTotals, Counters
<1>3. strip' = IF sent THEN Pulses(level_from_count(Total(recent'["tx"])),
                                   level_from_count(Total(recent'["rx"])), Blue)
               ELSE Garbled
  BY <1>2 DEF Tick, set_rgb
<1>4. QED
  BY <1>1, <1>3 DEF Shown

\* Every blue level stays the one of its tick.
LEMMA BluesStep ==
  ASSUME TypeOK, BluesExact, NEW sent, Tick(sent)
  PROVE  BluesExact'
<1>0. PICK t : t = steady'
  OBVIOUS
<1> SUFFICES ASSUME NEW j \in 1..t
             PROVE  blues'[j] = BlueOf(status', SlotBefore(idx', t + 1 - j))
  BY <1>0 DEF BluesExact
<1>1. /\ LED_BUCKETS \in Nat \ {0} /\ steady \in 0..LED_BUCKETS /\ t \in 1..LED_BUCKETS
      /\ idx \in 0..LED_BUCKETS - 1
  BY <1>0, Bounds, BluesTick DEF TypeOK, Slots
<1>2. status' = Status
  BY DEF Tick
<1>3. CASE j = t
  <2>1. SlotBefore(idx, 0) = idx
    BY <1>1 DEF SlotBefore
  <2>2. 0 \in 0..LED_BUCKETS - 1
    BY <1>1
  <2>3. SlotBefore(idx', 0 + 1) = idx
    BY <2>1, <2>2, SlotBack
  <2>4. t + 1 - j = 0 + 1
    BY <1>1, <1>3
  <2>5. blues'[j] = Blue
    BY <1>0, <1>3, BluesTick
  <2>6. QED
    BY <1>2, <2>3, <2>4, <2>5, BlueExact
<1>4. CASE j # t
  <2>1. t > 1 /\ j \in 1..t - 1
    BY <1>1, <1>4
  <2> DEFINE k == j + (steady + 1 - t)
  <2>2. status = Status /\ k \in 1..steady /\ blues'[j] = blues[k]
    BY <1>0, <2>1, BluesTick
  <2>3. blues[k] = BlueOf(status, SlotBefore(idx, steady + 1 - k))
    BY <2>2 DEF BluesExact
  <2>4. steady + 1 - k = t - j /\ t - j \in 0..LED_BUCKETS - 1
    BY <1>1, <2>1
  <2>5. SlotBefore(idx', (t - j) + 1) = SlotBefore(idx, t - j)
    BY <2>4, SlotBack
  <2>6. t + 1 - j = (t - j) + 1
    BY <1>1
  <2> HIDE DEF k
  <2>7. QED
    BY <1>2, <2>2, <2>3, <2>4, <2>5, <2>6
<1>5. QED
  BY <1>3, <1>4

\* A tick keeps the types and starts a new count.
LEMMA TickType ==
  ASSUME TypeOK, CountsApart, NEW sent, Tick(sent)
  PROVE  TypeOK' /\ CountsApart'
<1>1. pending' = [c \in Counters |-> 0] /\ last' = count /\ count' = count
  BY DEF Tick
<1>2. CountsApart'
  BY <1>1 DEF CountsApart, TypeOK
<1>3. buckets' \in [Counters -> [Slots -> Nat]] /\ recent' \in [Counters -> [Slots -> Nat]]
  <2>1. ASSUME NEW c \in Counters
        PROVE  buckets'[c] \in [Slots -> Nat] /\ recent'[c] \in [Slots -> Nat]
    <3>1. /\ pending[c] \in Nat
          /\ buckets[c] \in [Slots -> Nat] /\ recent[c] \in [Slots -> Nat]
          /\ buckets'[c] = [buckets[c] EXCEPT ![idx] = pending[c]]
          /\ recent'[c] = Shifted(recent[c], pending[c])
      BY TickRing
    <3>2. Shifted(recent[c], pending[c]) \in [Slots -> Nat]
      <4>1. ASSUME NEW i \in Slots, i # LED_BUCKETS - 1 PROVE i + 1 \in Slots
        BY <4>1, Bounds DEF Slots
      <4>2. QED
        BY <3>1, <4>1 DEF Shifted
    <3>3. QED
      BY <3>1, <3>2
  <2>2. buckets' = [c \in Counters |-> buckets'[c]] /\ recent' = [c \in Counters |-> recent'[c]]
    BY DEF Tick
  <2>3. QED
    BY <2>1, <2>2
<1>4. idx' \in Slots
  BY NextSlot
<1>5. /\ blues' \in Seq({0, STATUS_BLUE}) /\ Len(blues') = steady'
      /\ steady' \in 0..LED_BUCKETS /\ status' \in {"client", "ready", "connecting"}
  <2>1. steady' \in 1..LED_BUCKETS
    BY BluesTick
  <2>2. status' \in {"client", "ready", "connecting"}
    BY BlueExact DEF Tick
  <2>3. 1..LED_BUCKETS \subseteq 0..LED_BUCKETS
    BY Bounds
  <2>4. QED
    BY <2>1, <2>2, <2>3, BluesTick
<1>6. pending' \in [Counters -> Nat] /\ pending'["rx"] + pending'["tx"] <= MaxPerTick
  BY <1>1, Bounds DEF Counters
<1>7. QED
  BY <1>1, <1>2, <1>3, <1>4, <1>5, <1>6 DEF TypeOK, Tick, world

\* A frame moves a counter and its history together, over the wrap.
LEMMA CountType ==
  ASSUME TypeOK, CountsApart, NEW c \in Counters, CountFrame(c)
  PROVE  TypeOK' /\ CountsApart'
<1>1. /\ count[c] \in 0..CounterMod - 1 /\ last[c] \in 0..CounterMod - 1 /\ pending[c] \in Nat
      /\ CounterMod \in Nat \ {0} /\ MaxPerTick \in Nat /\ MaxPerTick < CounterMod
  BY Bounds DEF TypeOK
<1>2. (count[c] + 1) % CounterMod = IF count[c] + 1 = CounterMod THEN 0 ELSE count[c] + 1
  <2>1. ASSUME NEW a \in 0..CounterMod - 1
        PROVE  (a + 1) % CounterMod = IF a + 1 = CounterMod THEN 0 ELSE a + 1
    BY <1>1
  <2>2. QED
    BY <1>1, <2>1
<1>3. /\ count' = [count EXCEPT ![c] = (count[c] + 1) % CounterMod]
      /\ pending' = [pending EXCEPT ![c] = pending[c] + 1] /\ last' = last
  BY DEF CountFrame, loop
<1>4. (count[c] + 1) % CounterMod \in 0..CounterMod - 1
  BY <1>1, <1>2
<1>5. pending[c] + 1 <= MaxPerTick /\ pending'["rx"] + pending'["tx"] <= MaxPerTick
  <2>1. pending["rx"] \in Nat /\ pending["tx"] \in Nat /\ (c = "rx" \/ c = "tx")
    BY DEF TypeOK, Counters
  <2>2. pending["rx"] + pending["tx"] < MaxPerTick
    BY DEF CountFrame
  <2>3. CASE c = "rx"
    <3>1. pending'["rx"] = pending["rx"] + 1 /\ pending'["tx"] = pending["tx"]
      BY <1>3, <2>3 DEF TypeOK, Counters
    <3>2. QED
      BY <1>1, <2>1, <2>2, <2>3, <3>1
  <2>4. CASE c = "tx"
    <3>1. pending'["tx"] = pending["tx"] + 1 /\ pending'["rx"] = pending["rx"]
      BY <1>3, <2>4 DEF TypeOK, Counters
    <3>2. QED
      BY <1>1, <2>1, <2>2, <2>4, <3>1
  <2>5. QED
    BY <2>1, <2>3, <2>4
<1>6. CountsApart'
  <2>1. ASSUME NEW e \in Counters
        PROVE  count'[e] - last'[e] \in {pending'[e], pending'[e] - CounterMod}
    <3>1. count[e] - last[e] \in {pending[e], pending[e] - CounterMod}
      BY DEF CountsApart
    <3>2. CASE e # c
      BY <1>3, <3>1, <3>2 DEF TypeOK
    <3>3. CASE e = c
      <4>1. /\ count'[c] = (count[c] + 1) % CounterMod /\ pending'[c] = pending[c] + 1
            /\ last'[c] = last[c]
        BY <1>3 DEF TypeOK
      <4>2. count[c] - last[c] = pending[c] \/ count[c] - last[c] = pending[c] - CounterMod
        BY <3>1, <3>3
      <4>3. ((count[c] + 1) % CounterMod) - last[c] \in {pending[c] + 1, pending[c] + 1 - CounterMod}
        BY <1>1, <1>2, <1>5, <4>2
      <4>4. count'[c] - last'[c] \in {pending'[c], pending'[c] - CounterMod}
        BY <1>1, <1>4, <4>1, <4>3
      <4>5. QED
        BY <3>3, <4>4, Zenon
    <3>4. QED
      BY <3>2, <3>3
  <2>2. QED
    BY <2>1 DEF CountsApart
<1>7. count' \in [Counters -> 0..CounterMod - 1] /\ pending' \in [Counters -> Nat]
  <2>1. count \in [Counters -> 0..CounterMod - 1] /\ pending \in [Counters -> Nat]
    BY DEF TypeOK
  <2>2. pending[c] + 1 \in Nat
    BY <1>1
  <2>3. QED
    BY <1>3, <1>4, <2>1, <2>2
<1>8. QED
  BY <1>3, <1>5, <1>6, <1>7 DEF TypeOK, CountFrame, world, loop, history

\* Every step preserves the invariant.
LEMMA InvStep == Inv /\ [Next]_vars => Inv'
<1> SUFFICES ASSUME Inv, [Next]_vars PROVE Inv'
  OBVIOUS
<1> USE DEF Inv
<1>1. ASSUME UNCHANGED <<loop, strip, history>>
      PROVE  WindowExact' /\ SameTotals' /\ Shown' /\ BluesExact'
  BY <1>1 DEF loop, history, WindowExact, SameTotals, Shown, LastBlue,
              BluesExact
<1>2. ASSUME NEW c \in Counters, CountFrame(c) PROVE Inv'
  <2>1. UNCHANGED <<loop, strip, history>>
    BY <1>2 DEF CountFrame
  <2>2. QED
    BY <1>1, <1>2, <2>1, CountType
<1>3. CASE WifiChanges
  <2>1. UNCHANGED <<loop, strip, history>>
    BY <1>3 DEF WifiChanges
  <2>2. TypeOK' /\ CountsApart'
    BY <1>3 DEF WifiChanges, TypeOK, CountsApart, loop, history
  <2>3. QED
    BY <1>1, <2>1, <2>2
<1>4. CASE ClientsChange
  <2>1. UNCHANGED <<loop, strip, history>>
    BY <1>4 DEF ClientsChange
  <2>2. TypeOK' /\ CountsApart'
    BY <1>4 DEF ClientsChange, TypeOK, CountsApart, loop, history
  <2>3. QED
    BY <1>1, <2>1, <2>2
<1>5. ASSUME NEW sent \in BOOLEAN, Tick(sent) PROVE Inv'
  <2>1. TypeOK' /\ CountsApart'
    BY <1>5, TickType
  <2>2. WindowExact'
    BY <1>5, WindowStep
  <2>3. SameTotals'
    BY <1>5, TotalsStep
  <2>4. Shown'
    BY <1>5, <2>3, ShownStep
  <2>5. BluesExact'
    BY <1>5, BluesStep
  <2>6. QED
    BY <2>1, <2>2, <2>3, <2>4, <2>5
<1>6. CASE UNCHANGED vars
  <2>1. UNCHANGED <<loop, strip, history>>
    BY <1>6 DEF vars
  <2>2. TypeOK' /\ CountsApart'
    BY <1>6 DEF vars, world, TypeOK, CountsApart, loop, history
  <2>3. QED
    BY <1>1, <2>1, <2>2
<1>7. QED
  BY <1>2, <1>3, <1>4, <1>5, <1>6 DEF Next

-----------------------------------------------------------------------------
\* The invariant of the LED loop in main.rs holds in every reachable state, for every
\* window, counter width and traffic.
THEOREM Invariance == Spec => []Inv
  BY InitInv, InvStep, PTL DEF Spec

\* The ring of buckets is the window, also after the counters have wrapped.
THEOREM WindowCorrectness == Spec => []WindowExact
<1>1. Inv => WindowExact
  BY DEF Inv
<1>2. QED
  BY <1>1, Invariance, PTL

\* Green and red show the frames that the bus really carried in the last window, and
\* blue the level that the last tick chose.
THEOREM ActivityCorrectness == Spec => []ActivityShown
<1>1. Inv => ActivityShown
  <2>1. SUFFICES ASSUME Inv, strip # Garbled
                 PROVE  /\ Colour(strip).green = level_from_count(Total(recent["rx"]))
                        /\ Colour(strip).red = level_from_count(Total(recent["tx"]))
                        /\ Colour(strip).blue = LastBlue
    BY DEF ActivityShown
  <2> DEFINE g == level_from_count(Total(recent["rx"]))
             r == level_from_count(Total(recent["tx"]))
  <2>2. recent["rx"] \in [Slots -> Nat] /\ recent["tx"] \in [Slots -> Nat]
    BY <2>1 DEF Inv, TypeOK, Counters
  <2>3. Total(recent["rx"]) \in Nat /\ Total(recent["tx"]) \in Nat
    BY <2>2, TotalType
  <2>4. g \in 0..MAX_LEVEL /\ r \in 0..MAX_LEVEL
    BY <2>3, LevelBounds
  <2>5. PICK b \in {0, STATUS_BLUE} : b = LastBlue /\ strip = Pulses(r, g, b)
    <3>1. LastBlue \in {0, STATUS_BLUE}
      BY <2>1 DEF Inv, TypeOK, LastBlue
    <3>2. QED
      BY <2>1, <3>1 DEF Inv, Shown
  <2> HIDE DEF g, r
  <2>6. g \in 0..255 /\ r \in 0..255 /\ b \in 0..255
    BY <2>4, <2>5 DEF MAX_LEVEL, STATUS_BLUE
  <2>7. Colour(strip).green = g /\ Colour(strip).red = r /\ Colour(strip).blue = LastBlue
    <3>1. Colour(Pulses(r, g, b)) = [green |-> g, red |-> r, blue |-> b]
      BY <2>6, PulsesShow, Zenon
    <3>2. Colour(strip) = [green |-> g, red |-> r, blue |-> b]
      BY <2>5, <3>1, Zenon
    <3>3. QED
      BY <2>5, <3>2
  <2>8. QED
    BY <2>7 DEF g, r
<1>2. QED
  BY <1>1, Invariance, PTL

\* Whatever state main.rs shows in blue for a whole window can be told from the others.
THEOREM BlueCorrectness == Spec => []BlueTells
<1>1. Inv => BlueTells
  <2>1. SUFFICES ASSUME Inv, steady = LED_BUCKETS PROVE BlueTells
    BY DEF BlueTells
  <2> DEFINE n == LED_BUCKETS
             first == IF idx = 0 THEN 1 ELSE n + 1 - idx
             lit == {i \in DOMAIN blues : blues[i] = STATUS_BLUE}
  <2>2. n \in Nat \ {0} /\ idx \in 0..n - 1 /\ steady = n
    BY <2>1, Bounds DEF Inv, TypeOK, Slots
  <2>3. DOMAIN blues = 1..n /\ first \in 1..n
    <3>1. blues \in Seq({0, STATUS_BLUE}) /\ Len(blues) = n
      BY <2>1 DEF Inv, TypeOK
    <3>2. QED
      BY <2>2, <3>1, LenProperties
  <2>4. ASSUME NEW j \in 1..n PROVE (SlotBefore(idx, n + 1 - j) = 0) <=> (j = first)
    BY <2>2 DEF SlotBefore
  <2>5. ASSUME NEW j \in 1..n PROVE blues[j] = BlueOf(status, SlotBefore(idx, n + 1 - j))
    BY <2>1, <2>2 DEF Inv, BluesExact
  <2>6. status \in {"client", "ready", "connecting"}
    BY <2>1, <2>2 DEF Inv, TypeOK
  <2> HIDE DEF first
  <2>7. CASE status = "client"
    <3>1. ASSUME NEW j \in 1..n PROVE blues[j] = STATUS_BLUE <=> j # first
      BY <2>4, <2>5, <2>7 DEF BlueOf, STATUS_BLUE
    <3>2. lit = DOMAIN blues \ {first}
      BY <2>3, <3>1
    <3>3. \E i \in DOMAIN blues : lit = DOMAIN blues \ {i}
      BY <2>3, <3>2
    <3>4. QED
      BY <2>7, <3>3 DEF BlueTells
  <2>8. CASE status = "ready"
    <3>1. ASSUME NEW j \in 1..n PROVE blues[j] = STATUS_BLUE <=> j = first
      BY <2>4, <2>5, <2>8 DEF BlueOf, STATUS_BLUE
    <3>2. lit = {first}
      BY <2>3, <3>1
    <3>3. \E i \in DOMAIN blues : lit = {i}
      BY <2>3, <3>2
    <3>4. QED
      BY <2>8, <3>3 DEF BlueTells
  <2>9. CASE status = "connecting"
    <3>1. ASSUME NEW j \in 1..n PROVE blues[j] # STATUS_BLUE
      BY <2>5, <2>9 DEF BlueOf, STATUS_BLUE
    <3>2. lit = {}
      BY <2>3, <3>1
    <3>3. QED
      BY <2>9, <3>2 DEF BlueTells
  <2>10. QED
    BY <2>6, <2>7, <2>8, <2>9
<1>2. QED
  BY <1>1, Invariance, PTL

=============================================================================
