--------------------------- MODULE TransitProofs ---------------------------
(* Theorems about Transit, for every length of the day and of the sidereal   *)
(* day and every horizon that SkyAssumption allows.                         *)
EXTENDS Transit, TLAPS

\* What % gives, for the two moduli of the code.
LEMMA Division ==
    ASSUME NEW a \in Int, NEW b \in Nat, 0 < b
    PROVE  /\ a % b \in 0 .. b - 1
           /\ \E q \in Int : a = b * q + (a % b)
<1>1. a % b \in 0 .. b - 1 /\ a \div b \in Int /\ a = b * (a \div b) + (a % b)
  OBVIOUS
<1> QED
  BY <1>1

\* The remainder is the only number of its range that far above a multiple.
LEMMA Remainder ==
    ASSUME NEW b \in Nat, NEW q \in Int, NEW r \in 0 .. b - 1,
           NEW a \in Int, a = b * q + r
    PROVE  a % b = r
  BY Z3

LEMMA Products ==
    ASSUME NEW b \in Int, NEW j \in Int, NEW k \in Int
    PROVE  /\ b * j \in Int
           /\ b * (j - k) = b * j - b * k
           /\ b * (j + 1) = b * j + b
  OBVIOUS

LEMMA AtLeastOne ==
    ASSUME NEW b \in Nat, NEW k \in Int, 0 < k
    PROVE  b <= b * k
  OBVIOUS

\* Multiples of b that differ, differ by b at least.
LEMMA Spaced ==
    ASSUME NEW b \in Nat, NEW j \in Int, NEW k \in Int, j < k
    PROVE  b * j + b <= b * k
<1>1. b <= b * (k - j)
  BY AtLeastOne
<1>2. b * (k - j) = b * k - b * j
  OBVIOUS
<1> QED
  BY <1>1, <1>2

LEMMA Sky ==
    /\ Day \in Nat /\ Sidereal \in Nat
    /\ 0 < Day /\ 0 < Sidereal /\ Sidereal <= Day /\ Day < 2 * Sidereal
  BY SkyAssumption DEF SkyAssumption

(***************************************************************************)
(* Midnights                                                                *)
(***************************************************************************)

\* The midnight of t is the only multiple of Day that begins the day of t.
LEMMA MidnightOf ==
    ASSUME NEW t \in Nat
    PROVE  /\ Midnight(t) \in Nat
           /\ Midnight(t) <= t /\ t < Midnight(t) + Day
           /\ \E q \in Int : Midnight(t) = Day * q
<1>1. t % Day \in 0 .. Day - 1
  BY Sky, Division
<1>2. PICK q \in Int : t = Day * q + (t % Day)
  BY Sky, Division
<1>3. Day * q \in Int /\ Day * 0 = 0
  BY Sky, Products
<1>4. Midnight(t) = Day * q
  BY <1>1, <1>2, <1>3 DEF Midnight
<1>5. 0 <= Day * q
  <2>1. CASE q < 0
    <3>1. Day * q + Day <= Day * 0
      BY <2>1, Sky, Spaced
    <3> QED
      BY <1>1, <1>2, <1>3, <3>1, Sky
  <2>2. CASE 0 < q
    BY <2>2, <1>3, Sky, AtLeastOne
  <2> QED
    BY <2>1, <2>2, <1>3
<1> QED
  BY <1>1, <1>2, <1>3, <1>4, <1>5, Sky

LEMMA MidnightIs ==
    ASSUME NEW t \in Nat, NEW q \in Int, Day * q <= t, t < Day * q + Day
    PROVE  Midnight(t) = Day * q
<1>1. PICK m \in Int : m = Day * q
  BY Sky, Products
<1>2. PICK r \in 0 .. Day - 1 : r = t - m
  BY <1>1, Sky
<1>3. t \in Int /\ t = Day * q + r
  BY <1>1, <1>2, Sky
<1>4. t % Day = r
  BY <1>3, Sky, Remainder
<1> QED
  BY <1>1, <1>2, <1>4, Sky DEF Midnight

LEMMA MidnightsAdvance ==
    ASSUME NEW t \in Nat, NEW u \in Nat, t <= u
    PROVE  /\ Midnight(t + Day) = Midnight(t) + Day
           /\ Midnight(t) = Midnight(u) \/ Midnight(t) + Day <= Midnight(u)
<1>1. /\ Midnight(t) \in Nat /\ Midnight(t) <= t /\ t < Midnight(t) + Day
      /\ Midnight(u) \in Nat /\ Midnight(u) <= u /\ u < Midnight(u) + Day
  BY MidnightOf
<1>2. PICK p \in Int : Midnight(t) = Day * p
  BY MidnightOf
<1>3. PICK q \in Int : Midnight(u) = Day * q
  BY MidnightOf
<1>4. Midnight(t + Day) = Midnight(t) + Day
  <2>1. Day * (p + 1) = Midnight(t) + Day
    BY <1>2, Sky, Products
  <2>2. t + Day \in Nat /\ p + 1 \in Int
    BY Sky
  <2>3. Day * (p + 1) <= t + Day /\ t + Day < Day * (p + 1) + Day
    BY <1>1, <2>1, Sky
  <2> QED
    BY <2>1, <2>2, <2>3, MidnightIs
<1>5. CASE p = q
  BY <1>2, <1>3, <1>4, <1>5
<1>6. CASE p < q
  BY <1>2, <1>3, <1>4, <1>6, Sky, Spaced
<1>7. ~(q < p)
  <2>1. SUFFICES ASSUME q < p PROVE FALSE
    OBVIOUS
  <2>2. Midnight(u) + Day <= Midnight(t)
    BY <1>2, <1>3, <2>1, Sky, Spaced
  <2> QED
    BY <1>1, <2>2, Sky
<1> QED
  BY <1>5, <1>6, <1>7

(***************************************************************************)
(* Transits                                                                 *)
(***************************************************************************)
LEMMA TransitsAreMultiples ==
    ASSUME hour \in Int, NEW t \in Int
    PROVE  IsTransit(t) <=> \E k \in Int : t = hour + Sidereal * k
<1>1. ASSUME IsTransit(t) PROVE \E k \in Int : t = hour + Sidereal * k
  <2>1. /\ (t - hour) \div Sidereal \in Int
        /\ t - hour = Sidereal * ((t - hour) \div Sidereal) + ((t - hour) % Sidereal)
    BY Sky, Division
  <2>2. t = hour + Sidereal * ((t - hour) \div Sidereal)
    BY <1>1, <2>1, Sky DEF IsTransit
  <2> QED
    BY <2>1, <2>2
<1>2. ASSUME NEW k \in Int, t = hour + Sidereal * k PROVE IsTransit(t)
  <2>1. t - hour = Sidereal * k + 0 /\ 0 \in 0 .. Sidereal - 1
    BY <1>2, Sky
  <2> QED
    BY <2>1, Sky, Remainder DEF IsTransit
<1> QED
  BY <1>1, <1>2

\* TransitOn gives a transit less than a sidereal day after midnight...
LEMMA TransitOnIs ==
    ASSUME NEW m \in Nat, hour \in Int
    PROVE  /\ TransitOn(m) \in Nat
           /\ m <= TransitOn(m) /\ TransitOn(m) < m + Sidereal
           /\ \E k \in Int : TransitOn(m) = hour + Sidereal * k
<1>1. Gmst0(m) \in 0 .. Sidereal - 1
  BY Sky, Division DEF Gmst0
<1>2. PICK p \in Int : m = Sidereal * p + Gmst0(m)
  BY Sky, Division DEF Gmst0
<1>3. PICK d \in Int : d = hour - Gmst0(m)
  BY <1>1
<1>4. d % Sidereal \in 0 .. Sidereal - 1 /\ TransitOn(m) = m + (d % Sidereal)
  BY <1>3, Sky, Division DEF TransitOn
<1>5. PICK q \in Int : d = Sidereal * q + (d % Sidereal)
  BY Sky, Division
<1>6. /\ Sidereal * p \in Int /\ Sidereal * q \in Int
      /\ Sidereal * (p - q) = Sidereal * p - Sidereal * q
  BY Sky, Products
<1>7. TransitOn(m) = hour + Sidereal * (p - q)
  BY <1>1, <1>2, <1>3, <1>4, <1>5, <1>6
<1>8. /\ TransitOn(m) \in Nat
      /\ m <= TransitOn(m) /\ TransitOn(m) < m + Sidereal
  BY <1>4, Sky
<1>9. p - q \in Int
  OBVIOUS
<1> QED
  BY <1>7, <1>8, <1>9

LEMMA TransitOnIsTransit ==
    ASSUME NEW m \in Nat, hour \in Int
    PROVE  IsTransit(TransitOn(m))
<1>1. TransitOn(m) \in Int /\ \E k \in Int : TransitOn(m) = hour + Sidereal * k
  BY TransitOnIs
<1> QED
  BY <1>1, TransitsAreMultiples

\* ...and hence the first one.
LEMMA TransitOnIsFirst ==
    ASSUME NEW m \in Nat, NEW t \in Int, hour \in Int, IsTransit(t), m <= t
    PROVE  TransitOn(m) <= t
<1>1. PICK j \in Int : t = hour + Sidereal * j
  BY TransitsAreMultiples
<1>2. PICK k \in Int : TransitOn(m) = hour + Sidereal * k
  BY TransitOnIs
<1>3. Sidereal * j \in Int /\ Sidereal * k \in Int
  BY Sky, Products
<1>4. TransitOn(m) \in Nat /\ TransitOn(m) < m + Sidereal
  BY TransitOnIs
<1>5. CASE j < k
  <2>1. Sidereal * j + Sidereal <= Sidereal * k
    BY <1>5, Sky, Spaced
  <2> QED
    BY <1>1, <1>2, <1>3, <1>4, <2>1, Sky
<1>6. CASE j = k
  BY <1>1, <1>2, <1>3, <1>6
<1>7. CASE k < j
  <2>1. Sidereal * k + Sidereal <= Sidereal * j
    BY <1>7, Sky, Spaced
  <2> QED
    BY <1>1, <1>2, <1>3, <2>1, Sky
<1> QED
  BY <1>5, <1>6, <1>7


(***************************************************************************)
(* What compute_transit returns                                             *)
(***************************************************************************)
LEMMA Answer ==
    ASSUME NEW t \in Nat, hour \in Int
    PROVE  /\ ComputeTransit(t) \in Nat
           /\ t < ComputeTransit(t) /\ ComputeTransit(t) < t + 2 * Day
           /\ ComputeTransit(t) \in {TransitOn(Midnight(t)), TransitOn(Midnight(t) + Day)}
<1> DEFINE m == Midnight(t)
<1>1. m \in Nat /\ m <= t /\ t < m + Day /\ Midnight(t + Day) = m + Day
  BY MidnightOf, MidnightsAdvance
<1> HIDE DEF m
<1>2. TransitOn(m) \in Nat /\ TransitOn(m) < m + Sidereal
  BY <1>1, TransitOnIs
<1>3. m + Day \in Nat
  BY <1>1, Sky
<1>4. /\ TransitOn(m + Day) \in Nat
      /\ m + Day <= TransitOn(m + Day) /\ TransitOn(m + Day) < m + Day + Sidereal
  BY <1>3, TransitOnIs
<1>5. ComputeTransit(t) = IF TransitOn(m) > t THEN TransitOn(m) ELSE TransitOn(m + Day)
  BY <1>1 DEF ComputeTransit, m
<1> QED
  BY <1>1, <1>2, <1>4, <1>5, Sky DEF m

\* Later midnights have later first transits.
LEMMA FirstTransitsAdvance ==
    ASSUME NEW m \in Nat, NEW n \in Nat, m <= n, hour \in Int
    PROVE  TransitOn(m) <= TransitOn(n)
<1>1. TransitOn(n) \in Nat /\ m <= TransitOn(n) /\ IsTransit(TransitOn(n))
  BY TransitOnIs, TransitOnIsTransit
<1> QED
  BY <1>1, TransitOnIsFirst

\* So do the answers to later requests.
LEMMA AnswersAdvance ==
    ASSUME NEW t \in Nat, NEW u \in Nat, t <= u, hour \in Int
    PROVE  ComputeTransit(t) <= ComputeTransit(u)
<1> DEFINE m == Midnight(t)
           n == Midnight(u)
<1>1. /\ m \in Nat /\ n \in Nat
      /\ Midnight(t + Day) = m + Day /\ Midnight(u + Day) = n + Day
      /\ m = n \/ m + Day <= n
  BY MidnightOf, MidnightsAdvance
<1>2. /\ ComputeTransit(t) = IF TransitOn(m) > t THEN TransitOn(m) ELSE TransitOn(m + Day)
      /\ ComputeTransit(u) = IF TransitOn(n) > u THEN TransitOn(n) ELSE TransitOn(n + Day)
  BY <1>1 DEF ComputeTransit
<1> HIDE DEF m, n
<1>3. m + Day \in Nat /\ n + Day \in Nat /\ m <= n /\ m <= m + Day /\ m + Day <= n + Day
  BY <1>1, Sky
<1>4. /\ TransitOn(m) \in Nat /\ TransitOn(n) \in Nat
      /\ TransitOn(m + Day) \in Nat /\ TransitOn(n + Day) \in Nat
  BY <1>1, <1>3, TransitOnIs
<1>5. /\ TransitOn(m) <= TransitOn(n)
      /\ TransitOn(m) <= TransitOn(m + Day)
      /\ TransitOn(m + Day) <= TransitOn(n + Day)
  BY <1>1, <1>3, FirstTransitsAdvance
<1>6. CASE m = n
  BY <1>2, <1>4, <1>5, <1>6
<1>7. CASE m + Day <= n
  <2>1. TransitOn(m + Day) <= TransitOn(n)
    BY <1>1, <1>3, <1>7, FirstTransitsAdvance
  <2>2. TransitOn(n) <= TransitOn(n + Day)
    BY <1>1, <1>3, Sky, FirstTransitsAdvance
  <2> QED
    BY <1>2, <1>4, <1>5, <2>1, <2>2
<1> QED
  BY <1>1, <1>6, <1>7

\* A transit that is passed over is the second of the day of the request.
LEMMA PassedOver ==
    ASSUME NEW a \in Nat, NEW t \in Int, hour \in Int,
           a < t, t < ComputeTransit(a), IsTransit(t)
    PROVE  /\ Midnight(t) = Midnight(a)
           /\ TransitOn(Midnight(t)) # t
           /\ ComputeTransit(a) - t = Sidereal
<1> DEFINE m == Midnight(a)
<1>1. m \in Nat /\ m <= a /\ a < m + Day /\ Midnight(a + Day) = m + Day
  BY MidnightOf, MidnightsAdvance
<1>2. ComputeTransit(a) = IF TransitOn(m) > a THEN TransitOn(m) ELSE TransitOn(m + Day)
  BY <1>1 DEF ComputeTransit
<1>3. PICK q \in Int : m = Day * q
  BY MidnightOf
<1> HIDE DEF m
<1>4. t \in Nat /\ m <= t /\ m + Day \in Nat
  BY <1>1, Sky
<1>5. TransitOn(m) <= t
  BY <1>1, <1>4, TransitOnIsFirst
<1>6. TransitOn(m) \in Nat /\ TransitOn(m + Day) \in Nat
  BY <1>1, <1>4, TransitOnIs
<1>7. TransitOn(m) <= a /\ ComputeTransit(a) = TransitOn(m + Day)
  BY <1>2, <1>5, <1>6
<1>8. t < m + Day
  <2>1. SUFFICES ASSUME m + Day <= t PROVE FALSE
    BY <1>4, Sky
  <2>2. TransitOn(m + Day) <= t
    BY <1>4, <2>1, TransitOnIsFirst
  <2> QED
    BY <1>6, <1>7, <2>2
<1>9. Midnight(t) = m
  BY <1>3, <1>4, <1>8, MidnightIs
<1>10. PICK i \in Int : TransitOn(m) = hour + Sidereal * i
  BY <1>1, TransitOnIs
<1>11. PICK j \in Int : t = hour + Sidereal * j
  BY TransitsAreMultiples
<1>12. PICK k \in Int : TransitOn(m + Day) = hour + Sidereal * k
  BY <1>4, TransitOnIs
<1>13. /\ Sidereal * i \in Int /\ Sidereal * j \in Int /\ Sidereal * k \in Int
       /\ Sidereal * (j + 1) = Sidereal * j + Sidereal
  BY Sky, Products
<1>14. i < j /\ j < k
  <2>1. Sidereal * i < Sidereal * j /\ Sidereal * j < Sidereal * k
    BY <1>6, <1>7, <1>10, <1>11, <1>12, <1>13
  <2>2. i # j /\ j # k
    BY <2>1, <1>13
  <2>3. ASSUME j < i PROVE FALSE
    BY <2>1, <2>3, <1>13, Sky, Spaced
  <2>4. ASSUME k < j PROVE FALSE
    BY <2>1, <2>4, <1>13, Sky, Spaced
  <2> QED
    BY <2>2, <2>3, <2>4
<1>15. TransitOn(m) + Sidereal <= t
  BY <1>6, <1>10, <1>11, <1>13, <1>14, Sky, Spaced
<1>16. TransitOn(m + Day) - t < 2 * Sidereal
  <2>1. m <= TransitOn(m) /\ TransitOn(m + Day) < m + Day + Sidereal
    BY <1>1, <1>4, TransitOnIs
  <2> QED
    BY <1>1, <1>4, <1>6, <1>15, <2>1, Sky
<1>17. k = j + 1
  <2>1. SUFFICES ASSUME j + 1 < k PROVE FALSE
    BY <1>14
  <2>2. Sidereal * (j + 1) + Sidereal <= Sidereal * k
    BY <2>1, Sky, Spaced
  <2> QED
    BY <1>11, <1>12, <1>13, <1>16, <2>2, Sky
<1>18. TransitOn(m + Day) - t = Sidereal
  BY <1>11, <1>12, <1>13, <1>17, Sky
<1> QED
  BY <1>4, <1>6, <1>7, <1>9, <1>15, <1>18, Sky DEF m

(***************************************************************************)
(* The theorems.  TypeOK says nothing of where the answer comes from, so    *)
(* the invariant adds it.                                                   *)
(***************************************************************************)
AnswerInv == TypeOK /\ answer = ComputeTransit(asked)

LEMMA AnswerInvHolds == Spec => []AnswerInv
<1>1. Init => AnswerInv
  <2> SUFFICES ASSUME Init PROVE AnswerInv
    OBVIOUS
  <2>1. now \in Nat /\ hour \in Int /\ now \in 0 .. Horizon /\ hour \in 0 .. Sidereal - 1
    BY Sky, HorizonAssumption DEF Init, HorizonAssumption
  <2>2. ComputeTransit(now) \in Nat
    BY <2>1, Answer
  <2> QED
    BY <2>1, <2>2 DEF Init, AnswerInv, TypeOK
<1>2. AnswerInv /\ [Next]_vars => AnswerInv'
  <2> SUFFICES ASSUME AnswerInv, [Next]_vars PROVE AnswerInv'
    OBVIOUS
  <2>1. now \in Nat /\ hour \in Int /\ now \in 0 .. Horizon /\ asked \in 0 .. now
    BY Sky, HorizonAssumption DEF AnswerInv, TypeOK, HorizonAssumption
  <2>2. CASE Ask
    <3>1. ComputeTransit(now) \in Nat
      BY <2>1, Answer
    <3>2. ComputeTransit(asked)' = ComputeTransit(now)
      BY <2>2 DEF Ask, ComputeTransit, TransitOn
    <3> QED
      BY <2>1, <2>2, <3>1, <3>2 DEF Ask, AnswerInv, TypeOK
  <2>3. CASE Tick
    <3>1. ComputeTransit(asked)' = ComputeTransit(asked)
      BY <2>3 DEF Tick, ComputeTransit, TransitOn
    <3>2. now' \in 0 .. Horizon /\ asked' \in 0 .. now'
      BY <2>1, <2>3, HorizonAssumption DEF Tick, HorizonAssumption
    <3> QED
      BY <2>3, <3>1, <3>2 DEF Tick, AnswerInv, TypeOK
  <2>4. CASE UNCHANGED vars
    BY <2>4 DEF vars, AnswerInv, TypeOK, ComputeTransit, TransitOn
  <2> QED
    BY <2>2, <2>3, <2>4 DEF Next
<1> QED
  BY <1>1, <1>2, PTL DEF Spec

LEMMA AnswerFacts ==
    ASSUME AnswerInv
    PROVE  now \in Nat /\ hour \in Int /\ asked \in Nat /\ asked <= now
  BY Sky, HorizonAssumption DEF AnswerInv, TypeOK, HorizonAssumption

\* The clock, the request and the answer stay in their ranges.
THEOREM TransitTypes == Spec => []TypeOK
<1>1. AnswerInv => TypeOK
  BY DEF AnswerInv
<1> QED
  BY <1>1, AnswerInvHolds, PTL

\* compute_transit never answers with an instant that has passed, although the
\* candidate of the second day is returned unchecked.
THEOREM AlwaysAhead == Spec => []TransitAhead
<1>1. AnswerInv => TransitAhead
  BY AnswerFacts, Answer DEF AnswerInv, TransitAhead
<1> QED
  BY <1>1, AnswerInvHolds, PTL

\* What compute_transit answers is a transit, and it passes over one at most:
\* the second of the day of the request.
THEOREM SkipsAtMostOne == Spec => []AtMostOneSkipped
<1>1. ASSUME AnswerInv PROVE AtMostOneSkipped
  <2>1. hour \in Int /\ asked \in Nat /\ answer = ComputeTransit(asked) /\ answer \in Nat
    BY <1>1, AnswerFacts DEF AnswerInv, TypeOK
  <2>2. IsTransit(answer)
    <3>0. Midnight(asked) \in Nat
      BY <2>1, MidnightOf
    <3>1. Midnight(asked) \in Nat /\ Midnight(asked) + Day \in Nat
      BY <3>0, Sky
    <3>2. /\ IsTransit(TransitOn(Midnight(asked)))
          /\ IsTransit(TransitOn(Midnight(asked) + Day))
      BY <2>1, <3>1, TransitOnIsTransit
    <3> QED
      BY <2>1, <3>2, Answer
  <2>3. ASSUME NEW t \in asked + 1 .. answer - 1, IsTransit(t)
        PROVE  /\ Midnight(t) = Midnight(asked)
               /\ TransitOn(Midnight(t)) # t
               /\ answer - t = Sidereal
    <3>1. t \in Int /\ asked < t /\ t < ComputeTransit(asked)
      BY <2>1
    <3> QED
      BY <2>1, <2>3, <3>1, PassedOver
  <2> QED
    BY <2>2, <2>3 DEF AtMostOneSkipped
<1> QED
  BY <1>1, AnswerInvHolds, PTL

\* Whoever asks again later is never sent back to an earlier transit.
THEOREM AnswersNeverGoBack == Spec => NeverBack
<1>1. AnswerInv /\ [Next]_vars => [answer' >= answer]_vars
  <2> SUFFICES ASSUME AnswerInv, Next PROVE answer' >= answer
    OBVIOUS
  <2>1. now \in Nat /\ hour \in Int /\ asked \in Nat /\ asked <= now
    BY AnswerFacts
  <2>2. answer = ComputeTransit(asked) /\ answer \in Nat
    BY DEF AnswerInv, TypeOK
  <2>3. CASE Ask
    <3>1. ComputeTransit(asked) <= ComputeTransit(now)
      BY <2>1, AnswersAdvance
    <3>2. ComputeTransit(now) \in Nat
      BY <2>1, Answer
    <3> QED
      BY <2>2, <2>3, <3>1, <3>2 DEF Ask
  <2>4. CASE Tick
    BY <2>2, <2>4 DEF Tick
  <2> QED
    BY <2>3, <2>4 DEF Next
<1> QED
  BY <1>1, AnswerInvHolds, PTL DEF Spec, NeverBack
=============================================================================
