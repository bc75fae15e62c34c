--------------------------- MODULE SysTimerProofs ---------------------------
(***************************************************************************)
(* Proofs about SysTimer: the pending list does not stall unless an        *)
(* interrupt is lost, and no timer is kept longer than it asked, for any   *)
(* timers, periods, queue and bounds.                                      *)
(* The list stores differences, so the proofs need what sums of them come  *)
(* to.  These are found by induction, in the form that every nonempty set  *)
(* of natural numbers has a least element.                                 *)
(***************************************************************************)
EXTENDS SysTimer, WellFoundedInduction, SequenceTheorems, TLAPS

-----------------------------------------------------------------------------
(* Numbers *)

\* Every nonempty set of natural numbers has a least element.
LEMMA Least ==
    ASSUME NEW T, T \subseteq Nat, T # {}
    PROVE  \E m \in T : \A n \in T : m <= n
<1> DEFINE R == {p \in Nat \X Nat : p[1] < p[2]}
<1>1. IsWellFoundedOn(R, Nat)
  <2>1. R = OpToRel(<, Nat)
    BY DEF OpToRel
  <2> QED BY <2>1, NatLessThanWellFounded
<1>2. PICK m \in T : \A n \in T : ~ (<<n, m>> \in R)
  <2> HIDE DEF R
  <2> QED BY <1>1, WFMin
<1>3. ASSUME NEW n \in T PROVE m <= n
  <2>1. <<n, m>> \in Nat \X Nat /\ <<n, m>>[1] = n /\ <<n, m>>[2] = m
    OBVIOUS
  <2>2. ~ (n < m)
    BY <1>2, <2>1
  <2>3. m \in Nat /\ n \in Nat
    OBVIOUS
  <2> QED BY <2>2, <2>3
<1> QED BY <1>3

\* The larger and the smaller of two numbers.
LEMMA MaxOfTwo ==
    ASSUME NEW a \in Int, NEW b \in Int
    PROVE  Max({a, b}) = IF a >= b THEN a ELSE b
<1>1. \E x \in {a, b} : \A y \in {a, b} : x >= y
    OBVIOUS
<1>2. Max({a, b}) \in {a, b} /\ \A y \in {a, b} : Max({a, b}) >= y
    BY <1>1 DEF Max
<1> QED BY <1>2

LEMMA MinOfTwo ==
    ASSUME NEW a \in Int, NEW b \in Int
    PROVE  Min({a, b}) = IF a <= b THEN a ELSE b
<1>1. \E x \in {a, b} : \A y \in {a, b} : x <= y
    OBVIOUS
<1>2. Min({a, b}) \in {a, b} /\ \A y \in {a, b} : Min({a, b}) <= y
    BY <1>1 DEF Min
<1> QED BY <1>2

\* A nonempty set of numbers up to n has a largest one.
LEMMA LargestUpTo ==
    ASSUME NEW n \in Nat, NEW T, T \subseteq 0 .. n, T # {}
    PROVE  Max(T) \in T /\ \A i \in T : Max(T) >= i
<1> DEFINE D == {j \in 0 .. n : n - j \in T}
<1>1. D \subseteq Nat /\ D # {}
  <2>1. PICK i \in T : TRUE
    OBVIOUS
  <2>2. n - i \in 0 .. n /\ n - (n - i) = i
    BY <2>1
  <2>3. n - i \in D
    BY <2>1, <2>2
  <2> QED BY <2>3
<1>2. PICK m \in D : \A j \in D : m <= j
  <2> HIDE DEF D
  <2> QED BY <1>1, Least
<1>3. n - m \in T
    BY <1>2
<1>4. ASSUME NEW i \in T PROVE n - m >= i
  <2>1. i \in 0 .. n /\ n - i \in 0 .. n /\ n - (n - i) = i
    OBVIOUS
  <2>2. n - i \in D
    BY <2>1
  <2>3. m <= n - i /\ m \in 0 .. n
    BY <1>2, <2>2
  <2> QED BY <2>1, <2>3
<1> QED BY <1>3, <1>4 DEF Max

-----------------------------------------------------------------------------
(* The sums of a list of differences *)

\* TimeTo is what its recursive definition says.
LEMMA TimesExist ==
    ASSUME NEW l, NEW f, Len(l) \in Nat
    PROVE  TimeTo(l, f) = [k \in 0 .. Len(l) |->
                             IF k = 0 THEN 0 ELSE TimeTo(l, f)[k - 1] + f[l[k]]]
<1> DEFINE Good(n) == \E g : g = [k \in 0 .. n |-> IF k = 0 THEN 0 ELSE g[k - 1] + f[l[k]]]
           T == {n \in 0 .. Len(l) : ~ Good(n)}
<1>1. ASSUME NEW m \in T, \A n \in T : m <= n
      PROVE  FALSE
  <2>1. m \in Nat /\ m <= Len(l) /\ ~ Good(m)
    OBVIOUS
  <2>2. CASE m = 0
    <3>1. [k \in 0 .. 0 |-> 0] = [k \in 0 .. 0 |->
              IF k = 0 THEN 0 ELSE [i \in 0 .. 0 |-> 0][k - 1] + f[l[k]]]
      OBVIOUS
    <3> QED BY <2>1, <2>2, <3>1
  <2>3. CASE m # 0
    <3>1. m - 1 \in 0 .. Len(l) /\ ~ (m <= m - 1)
      BY <2>1, <2>3
    <3>2. Good(m - 1)
      <4> HIDE DEF Good
      <4> QED BY <1>1, <3>1
    <3>3. PICK h : h = [k \in 0 .. m - 1 |-> IF k = 0 THEN 0 ELSE h[k - 1] + f[l[k]]]
      BY <3>2
    <3> DEFINE g == [k \in 0 .. m |-> IF k = m THEN h[m - 1] + f[l[m]] ELSE h[k]]
    <3>4. ASSUME NEW k \in 0 .. m
          PROVE  g[k] = IF k = 0 THEN 0 ELSE g[k - 1] + f[l[k]]
      <4>1. CASE k = m
        <5>1. k - 1 \in 0 .. m /\ k - 1 # m /\ k # 0
          BY <2>1, <2>3, <4>1
        <5> QED BY <4>1, <5>1
      <4>2. CASE k # m
        <5>1. k \in 0 .. m - 1 /\ (k # 0 => k - 1 \in 0 .. m /\ k - 1 # m)
          BY <2>1, <4>2
        <5>2. g[k] = h[k] /\ (k # 0 => g[k - 1] = h[k - 1])
          BY <4>2, <5>1
        <5>3. h[k] = IF k = 0 THEN 0 ELSE h[k - 1] + f[l[k]]
          BY <3>3, <5>1
        <5> QED BY <5>2, <5>3
      <4> QED BY <4>1, <4>2
    <3>5. g = [k \in 0 .. m |-> g[k]]
      OBVIOUS
    <3>6. g = [k \in 0 .. m |-> IF k = 0 THEN 0 ELSE g[k - 1] + f[l[k]]]
      <4> HIDE DEF g
      <4> QED BY <3>4, <3>5
    <3>7. Good(m)
      <4> HIDE DEF g
      <4> QED BY <3>6
    <3> QED BY <2>1, <3>7
  <2> QED BY <2>2, <2>3
<1>2. T \subseteq Nat
    OBVIOUS
<1>3. T = {}
  <2> HIDE DEF T
  <2> QED BY <1>1, <1>2, Least
<1>4. Good(Len(l))
  <2>1. Len(l) \in 0 .. Len(l)
    OBVIOUS
  <2> HIDE DEF Good
  <2> QED BY <1>3, <2>1
<1> QED BY <1>4 DEF TimeTo

\* The first sum is 0 and each sum adds one difference.
LEMMA TimesStep ==
    ASSUME NEW l, NEW f, Len(l) \in Nat
    PROVE  /\ TimeTo(l, f)[0] = 0
           /\ \A k \in 1 .. Len(l) : TimeTo(l, f)[k] = TimeTo(l, f)[k - 1] + f[l[k]]
<1> DEFINE s == TimeTo(l, f)
<1>1. s = [k \in 0 .. Len(l) |-> IF k = 0 THEN 0 ELSE s[k - 1] + f[l[k]]]
    BY TimesExist
<1> HIDE DEF s
<1>2. /\ s[0] = 0
      /\ \A k \in 1 .. Len(l) : s[k] = s[k - 1] + f[l[k]]
    BY <1>1
<1> QED BY <1>2 DEF s

\* Whatever starts at 0 and adds the differences is the sums.
LEMMA TimesUnique ==
    ASSUME NEW l, NEW f, Len(l) \in Nat, NEW g, g[0] = 0,
           \A k \in 1 .. Len(l) : g[k] = g[k - 1] + f[l[k]]
    PROVE  \A k \in 0 .. Len(l) : TimeTo(l, f)[k] = g[k]
<1> DEFINE s == TimeTo(l, f)
           T == {k \in 0 .. Len(l) : s[k] # g[k]}
<1>1. s[0] = 0 /\ \A k \in 1 .. Len(l) : s[k] = s[k - 1] + f[l[k]]
    BY TimesStep
<1> HIDE DEF s
<1>2. ASSUME NEW m \in T, \A n \in T : m <= n PROVE FALSE
  <2>1. m \in Nat /\ m <= Len(l) /\ s[m] # g[m]
    OBVIOUS
  <2>2. m # 0
    BY <1>1, <2>1
  <2>3. m \in 1 .. Len(l) /\ m - 1 \in 0 .. Len(l) /\ ~ (m <= m - 1)
    BY <2>1, <2>2
  <2>4. s[m - 1] = g[m - 1]
    BY <1>2, <2>3
  <2> QED BY <1>1, <2>1, <2>3, <2>4
<1>3. T \subseteq Nat
    OBVIOUS
<1>4. T = {}
  <2> HIDE DEF T
  <2> QED BY <1>2, <1>3, Least
<1> QED BY <1>4 DEF s

\* The sums of natural numbers are natural numbers and grow along the list.
LEMMA TimesGrow ==
    ASSUME NEW l, NEW f, Len(l) \in Nat, \A k \in 1 .. Len(l) : f[l[k]] \in Nat
    PROVE  /\ \A k \in 0 .. Len(l) : TimeTo(l, f)[k] \in Nat
           /\ \A k \in 1 .. Len(l) : f[l[k]] <= TimeTo(l, f)[k]
           /\ \A k \in 1 .. Len(l) : f[l[1]] <= TimeTo(l, f)[k]
<1> DEFINE s == TimeTo(l, f)
           T == {k \in 0 .. Len(l) : ~ (s[k] \in Nat)}
           U == {k \in 1 .. Len(l) : ~ (f[l[1]] <= s[k])}
<1>1. s[0] = 0 /\ \A k \in 1 .. Len(l) : s[k] = s[k - 1] + f[l[k]]
    BY TimesStep
<1> HIDE DEF s
<1>2. ASSUME NEW m \in T, \A n \in T : m <= n PROVE FALSE
  <2>1. m \in Nat /\ m <= Len(l) /\ ~ (s[m] \in Nat)
    OBVIOUS
  <2>2. m # 0
    BY <1>1, <2>1
  <2>3. m \in 1 .. Len(l) /\ m - 1 \in 0 .. Len(l) /\ ~ (m <= m - 1)
    BY <2>1, <2>2
  <2>4. s[m - 1] \in Nat
    BY <1>2, <2>3
  <2> QED BY <1>1, <2>1, <2>3, <2>4
<1>3. T \subseteq Nat /\ U \subseteq Nat
    OBVIOUS
<1>4. T = {}
  <2> HIDE DEF T, U
  <2> QED BY <1>2, <1>3, Least
<1>5. \A k \in 0 .. Len(l) : s[k] \in Nat
    BY <1>4
<1>6. \A k \in 1 .. Len(l) : k - 1 \in 0 .. Len(l) /\ f[l[k]] <= s[k]
    BY <1>1, <1>5
<1>7. ASSUME NEW m \in U, \A n \in U : m <= n PROVE FALSE
  <2>1. m \in 1 .. Len(l) /\ ~ (f[l[1]] <= s[m])
    OBVIOUS
  <2>2. m # 1
    BY <1>6, <2>1
  <2>3. m - 1 \in 1 .. Len(l) /\ ~ (m <= m - 1) /\ 1 \in 1 .. Len(l)
    BY <2>1, <2>2
  <2>4. f[l[1]] <= s[m - 1]
    BY <1>7, <2>3
  <2>5. s[m] = s[m - 1] + f[l[m]] /\ s[m - 1] \in Nat /\ f[l[m]] \in Nat /\ f[l[1]] \in Nat
    BY <1>1, <1>5, <2>1, <2>3
  <2> QED BY <2>1, <2>4, <2>5
<1>8. U = {}
  <2> HIDE DEF T, U
  <2> QED BY <1>3, <1>7, Least
<1>9. \A k \in 1 .. Len(l) : f[l[1]] <= s[k]
    BY <1>8
<1> QED BY <1>5, <1>6, <1>9 DEF s

-----------------------------------------------------------------------------
(* The edits of the list *)

\* A list without repetitions has its k-th timer at place k.
LEMMA Placed ==
    ASSUME list \in Seq(Timers), IsInjective(list)
    PROVE  /\ Len(list) \in Nat /\ DOMAIN list = 1 .. Len(list)
           /\ \A k \in 1 .. Len(list) :
                 list[k] \in Timers /\ InList(list[k]) /\ Place(list[k]) = k
           /\ \A t : InList(t) => Place(t) \in 1 .. Len(list) /\ list[Place(t)] = t
           /\ list # <<>> => 1 \in 1 .. Len(list)
<1>1. /\ Len(list) \in Nat /\ DOMAIN list = 1 .. Len(list)
      /\ \A k \in 1 .. Len(list) : list[k] \in Timers
      /\ list # <<>> => 1 \in 1 .. Len(list)
    OBVIOUS
<1>2. \A t : InList(t) <=> \E i \in DOMAIN list : list[i] = t
    BY <1>1 DEF InList, Contains
<1>3. \A t : InList(t) => Place(t) \in DOMAIN list /\ list[Place(t)] = t
    BY <1>2 DEF Place
<1>4. ASSUME NEW k \in 1 .. Len(list) PROVE Place(list[k]) = k
    BY <1>1, <1>2, <1>3 DEF IsInjective
<1> QED BY <1>1, <1>2, <1>3, <1>4

\* Taking an elapsed time off the list takes it off every sum, down to 0.
LEMMA ConsumedTimes ==
    ASSUME list \in Seq(Timers), IsInjective(list), left \in [Timers -> Nat], NEW e \in Nat
    PROVE  /\ Consumed(e) \in [Timers -> Nat]
           /\ \A t \in Timers : ~ InList(t) => Consumed(e)[t] = left[t]
           /\ \A k \in 0 .. Len(list) :
                 TimeTo(list, Consumed(e))[k] = Max({0, TimeTo(list, left)[k] - e})
<1> DEFINE s == TimeTo(list, left)
           r == [k \in 0 .. Len(list) |-> Max({0, s[k] - e})]
           c == Consumed(e)
<1>1. /\ Len(list) \in Nat
      /\ \A k \in 1 .. Len(list) :
            list[k] \in Timers /\ InList(list[k]) /\ Place(list[k]) = k
      /\ \A t : InList(t) => Place(t) \in 1 .. Len(list) /\ list[Place(t)] = t
    BY Placed
<1>2. /\ \A k \in 0 .. Len(list) : s[k] \in Nat
      /\ s[0] = 0
      /\ \A k \in 1 .. Len(list) : s[k] = s[k - 1] + left[list[k]] /\ left[list[k]] \in Nat
  <2>1. \A k \in 1 .. Len(list) : left[list[k]] \in Nat
    BY <1>1
  <2>2. /\ \A k \in 0 .. Len(list) : TimeTo(list, left)[k] \in Nat
        /\ TimeTo(list, left)[0] = 0
        /\ \A k \in 1 .. Len(list) :
              TimeTo(list, left)[k] = TimeTo(list, left)[k - 1] + left[list[k]]
    BY <1>1, <2>1, TimesGrow, TimesStep
  <2> QED BY <2>1, <2>2
<1>3. c = [t \in Timers |-> IF InList(t)
                            THEN Max({0, s[Place(t)] - e}) - Max({0, s[Place(t) - 1] - e})
                            ELSE left[t]]
    BY DEF Consumed
<1> HIDE DEF s, c
<1>4. \A k \in 0 .. Len(list) : r[k] = IF s[k] > e THEN s[k] - e ELSE 0
  <2> TAKE k \in 0 .. Len(list)
  <2>1. s[k] - e \in Int
    BY <1>2
  <2>2. Max({0, s[k] - e}) = IF 0 >= s[k] - e THEN 0 ELSE s[k] - e
    BY <2>1, MaxOfTwo
  <2> QED BY <1>2, <2>2
<1>5. \A t \in Timers : c[t] = IF InList(t) THEN r[Place(t)] - r[Place(t) - 1] ELSE left[t]
  <2> TAKE t \in Timers
  <2>1. InList(t) => Place(t) \in 0 .. Len(list) /\ Place(t) - 1 \in 0 .. Len(list)
    BY <1>1
  <2> QED BY <1>3, <2>1
<1> HIDE DEF r
<1>6. \A k \in 1 .. Len(list) : k - 1 \in 0 .. Len(list) /\ r[k] - r[k - 1] \in Nat
  <2> TAKE k \in 1 .. Len(list)
  <2>1. k \in 0 .. Len(list) /\ k - 1 \in 0 .. Len(list)
    BY <1>1
  <2>2. s[k] >= s[k - 1] /\ s[k] \in Nat /\ s[k - 1] \in Nat
    <3>1. PICK y \in Nat : y = s[k - 1]
      BY <1>2, <2>1
    <3>2. PICK z \in Nat : z = left[list[k]]
      BY <1>2
    <3>3. s[k] = y + z
      BY <1>2, <3>1, <3>2
    <3> QED BY <3>1, <3>3
  <2>3. /\ r[k] = IF s[k] > e THEN s[k] - e ELSE 0
        /\ r[k - 1] = IF s[k - 1] > e THEN s[k - 1] - e ELSE 0
    BY <1>4, <2>1
  <2>4. PICK x \in Nat, y \in Nat : x = s[k] /\ y = s[k - 1] /\ x >= y
    BY <2>2
  <2>5. (IF x > e THEN x - e ELSE 0) - (IF y > e THEN y - e ELSE 0) \in Nat
    BY <2>4
  <2> QED BY <2>1, <2>3, <2>4, <2>5
<1>7. c \in [Timers -> Nat]
  <2>1. ASSUME NEW t \in Timers PROVE c[t] \in Nat
    <3>1. CASE InList(t)
      <4>1. Place(t) \in 1 .. Len(list)
        BY <1>1, <3>1
      <4> QED BY <1>5, <1>6, <3>1, <4>1
    <3>2. CASE ~ InList(t)
      BY <1>5, <3>2
    <3> QED BY <3>1, <3>2
  <2> QED BY <1>3, <2>1
<1>8. \A k \in 1 .. Len(list) : r[k] = r[k - 1] + c[list[k]]
  <2> TAKE k \in 1 .. Len(list)
  <2>1. c[list[k]] = r[k] - r[k - 1]
    BY <1>1, <1>5
  <2>2. k \in 0 .. Len(list) /\ k - 1 \in 0 .. Len(list)
    BY <1>1
  <2>3. /\ r[k] = IF s[k] > e THEN s[k] - e ELSE 0
        /\ r[k - 1] = IF s[k - 1] > e THEN s[k - 1] - e ELSE 0
        /\ s[k] \in Nat /\ s[k - 1] \in Nat
    BY <1>2, <1>4, <2>2
  <2> QED BY <2>1, <2>3
<1>9. r[0] = 0
    BY <1>1, <1>2, <1>4
<1>10. \A k \in 0 .. Len(list) : TimeTo(list, c)[k] = r[k]
    BY <1>1, <1>8, <1>9, TimesUnique
<1> QED BY <1>1, <1>5, <1>7, <1>10 DEF c, r, s

\* What taking the i-th timer out of the list does to it.
LEMMA RemovedList ==
    ASSUME list \in Seq(Timers), IsInjective(list), NEW i \in 1 .. Len(list)
    PROVE  LET l == RemoveAt(list, i) IN
           /\ l \in Seq(Timers) /\ IsInjective(l) /\ Len(l) = Len(list) - 1
           /\ \A k \in 1 .. Len(l) : l[k] = IF k < i THEN list[k] ELSE list[k + 1]
           /\ \A t : Contains(l, t) <=> InList(t) /\ t # list[i]
<1> DEFINE l == RemoveAt(list, i)
           n == Len(list)
           a == SubSeq(list, 1, i - 1)
           b == SubSeq(list, i + 1, n)
<1>1. n \in Nat /\ i \in 1 .. n /\ \A k \in 1 .. n : list[k] \in Timers
    OBVIOUS
<1>2. /\ a \in Seq(Timers) /\ Len(a) = i - 1
      /\ \A k \in 1 .. i - 1 : a[k] = list[k]
      /\ b \in Seq(Timers) /\ Len(b) = n - i
      /\ \A k \in 1 .. n - i : b[k] = list[k + i]
  <2>1. \A k \in 1 .. i - 1 : list[k] \in Timers
    BY <1>1
  <2>2. \A k \in i + 1 .. n : list[k] \in Timers
    BY <1>1
  <2> QED BY <1>1, <2>1, <2>2, SubSeqProperties
<1>3. l = a \o b
    BY DEF RemoveAt
<1>4. /\ l \in Seq(Timers) /\ Len(l) = n - 1
      /\ \A k \in 1 .. Len(l) : l[k] = IF k < i THEN list[k] ELSE list[k + 1]
  <2> HIDE DEF l, n, a, b
  <2>1. /\ l \in Seq(Timers) /\ Len(l) = (i - 1) + (n - i)
        /\ \A k \in 1 .. (i - 1) + (n - i) :
              l[k] = IF k <= i - 1 THEN a[k] ELSE b[k - (i - 1)]
    <3>1. /\ a \o b \in Seq(Timers) /\ Len(a \o b) = Len(a) + Len(b)
          /\ \A k \in 1 .. Len(a) + Len(b) :
                (a \o b)[k] = IF k <= Len(a) THEN a[k] ELSE b[k - Len(a)]
      BY <1>2, ConcatProperties
    <3> QED BY <1>2, <1>3, <3>1
  <2>2. (i - 1) + (n - i) = n - 1
    BY <1>1
  <2>3. ASSUME NEW k \in 1 .. n - 1 PROVE l[k] = IF k < i THEN list[k] ELSE list[k + 1]
    <3>1. CASE k < i
      <4>1. k \in 1 .. i - 1 /\ k <= i - 1
        BY <1>1, <3>1
      <4> QED BY <1>2, <2>1, <2>2, <3>1, <4>1
    <3>2. CASE ~ (k < i)
      <4>1. k - (i - 1) \in 1 .. n - i /\ ~ (k <= i - 1) /\ (k - (i - 1)) + i = k + 1
        BY <1>1, <3>2
      <4> QED BY <1>2, <2>1, <2>2, <3>2, <4>1
    <3> QED BY <3>1, <3>2
  <2> QED BY <2>1, <2>2, <2>3
<1> HIDE DEF l
<1>5. \A k \in 1 .. Len(l) : k \in 1 .. n /\ k + 1 \in 1 .. n
    BY <1>1, <1>4
<1>6. DOMAIN l = 1 .. Len(l) /\ DOMAIN list = 1 .. n
    BY <1>4
<1>7. IsInjective(l)
  <2> DEFINE h(k) == IF k < i THEN k ELSE k + 1
  <2>1. SUFFICES ASSUME NEW j \in 1 .. Len(l), NEW k \in 1 .. Len(l), l[j] = l[k]
                 PROVE  j = k
    BY <1>6 DEF IsInjective
  <2>2. h(j) \in 1 .. n /\ h(k) \in 1 .. n /\ list[h(j)] = list[h(k)]
    BY <1>4, <1>5, <2>1
  <2>3. h(j) = h(k)
    <3> HIDE DEF h
    <3> QED BY <1>6, <2>2 DEF IsInjective
  <2> QED BY <1>1, <2>3
<1>8. ASSUME NEW t PROVE Contains(l, t) <=> InList(t) /\ t # list[i]
  <2>1. ASSUME Contains(l, t) PROVE InList(t) /\ t # list[i]
    <3>1. PICK k \in 1 .. Len(l) : l[k] = t
      BY <1>6, <2>1 DEF Contains
    <3>2. PICK m \in 1 .. n : m # i /\ list[m] = t
      <4>1. CASE k < i
        BY <1>4, <1>5, <3>1, <4>1
      <4>2. CASE ~ (k < i)
        <5>1. k + 1 \in 1 .. n /\ k + 1 # i
          BY <1>1, <1>4, <1>5, <4>2
        <5> QED BY <1>4, <3>1, <4>2, <5>1
      <4> QED BY <4>1, <4>2
    <3>3. InList(t)
      BY <1>6, <3>2 DEF InList, Contains
    <3>4. t # list[i]
      BY <1>1, <1>6, <3>2 DEF IsInjective
    <3> QED BY <3>3, <3>4
  <2>2. ASSUME InList(t), t # list[i] PROVE Contains(l, t)
    <3>1. PICK j \in 1 .. n : list[j] = t
      BY <2>2 DEF InList, Contains
    <3>2. j < i \/ j > i
      BY <1>1, <2>2, <3>1
    <3>3. CASE j < i
      <4>1. j \in 1 .. Len(l) /\ l[j] = t
        BY <1>1, <1>4, <3>1, <3>3
      <4> QED BY <4>1 DEF Contains
    <3>4. CASE j > i
      <4>1. j - 1 \in 1 .. Len(l) /\ ~ (j - 1 < i) /\ (j - 1) + 1 = j
        BY <1>1, <1>4, <3>1, <3>4
      <4>2. l[j - 1] = t
        BY <1>4, <3>1, <4>1
      <4> QED BY <4>1, <4>2 DEF Contains
    <3> QED BY <3>2, <3>3, <3>4
  <2> QED BY <2>1, <2>2
<1> QED BY <1>4, <1>7, <1>8 DEF l

\* Without the i-th timer every other timer has as long to go as before.
LEMMA RemovedTimes ==
    ASSUME list \in Seq(Timers), IsInjective(list), left \in [Timers -> Nat],
           NEW i \in 1 .. Len(list)
    PROVE  LET l == RemoveAt(list, i)
               f == Removed(i) IN
           /\ f \in [Timers -> Nat]
           /\ \A t \in Timers : ~ InList(t) => f[t] = left[t]
           /\ \A k \in 0 .. Len(l) : TimeTo(l, f)[k] =
                 TimeTo(list, left)[IF k < i THEN k ELSE k + 1]
<1> DEFINE l == RemoveAt(list, i)
           f == Removed(i)
           s == TimeTo(list, left)
           g == [k \in 0 .. Len(l) |-> s[IF k < i THEN k ELSE k + 1]]
<1>1. /\ Len(list) \in Nat
      /\ \A k \in 1 .. Len(list) : list[k] \in Timers /\ left[list[k]] \in Nat
      /\ \A j, k \in 1 .. Len(list) : list[j] = list[k] => j = k
  <2>1. /\ DOMAIN list = 1 .. Len(list) /\ Len(list) \in Nat
        /\ \A k \in 1 .. Len(list) : list[k] \in Timers
    OBVIOUS
  <2>2. \A j, k \in 1 .. Len(list) : list[j] = list[k] => j = k
    BY <2>1 DEF IsInjective
  <2>3. \A k \in 1 .. Len(list) : left[list[k]] \in Nat
    BY <2>1
  <2> QED BY <2>1, <2>2, <2>3
<1>2. /\ Len(l) = Len(list) - 1
      /\ \A k \in 1 .. Len(l) : l[k] = IF k < i THEN list[k] ELSE list[k + 1]
    BY RemovedList
<1>3. /\ s[0] = 0
      /\ \A k \in 1 .. Len(list) : s[k] = s[k - 1] + left[list[k]]
      /\ \A k \in 0 .. Len(list) : s[k] \in Nat
  <2>1. \A k \in 1 .. Len(list) : left[list[k]] \in Nat
    BY <1>1
  <2> QED BY <1>1, <2>1, TimesStep, TimesGrow
<1> HIDE DEF l, s
<1>4. /\ f \in [Timers -> Nat]
      /\ \A t \in Timers : ~ InList(t) => f[t] = left[t]
      /\ \A k \in 1 .. Len(list) : k # i + 1 => f[list[k]] = left[list[k]]
      /\ i < Len(list) => f[list[i + 1]] = left[list[i + 1]] + left[list[i]]
  <2>1. CASE i < Len(list)
    <3>1. i + 1 \in 1 .. Len(list)
      BY <1>1, <2>1
    <3>2. f = [left EXCEPT ![list[i + 1]] = left[list[i + 1]] + left[list[i]]]
      BY <2>1 DEF Removed
    <3>3. InList(list[i + 1])
      BY <3>1 DEF InList, Contains
    <3> QED BY <1>1, <3>1, <3>2, <3>3
  <2>2. CASE ~ (i < Len(list))
    BY <1>1, <2>2 DEF Removed
  <2> QED BY <2>1, <2>2
<1> HIDE DEF f
<1>5. ASSUME NEW k \in 1 .. Len(l) PROVE g[k] = g[k - 1] + f[l[k]]
  <2>1. /\ k \in 1 .. Len(list) - 1 /\ k \in 0 .. Len(l) /\ k - 1 \in 0 .. Len(l)
        /\ k \in 1 .. Len(list) /\ k + 1 \in 1 .. Len(list) /\ k - 1 \in 0 .. Len(list)
    BY <1>1, <1>2
  <2>2. /\ g[k] = s[IF k < i THEN k ELSE k + 1]
        /\ g[k - 1] = s[IF k - 1 < i THEN k - 1 ELSE (k - 1) + 1]
    BY <2>1
  <2>3. /\ s[k] = s[k - 1] + left[list[k]] /\ s[k + 1] = s[(k + 1) - 1] + left[list[k + 1]]
        /\ s[k - 1] \in Nat /\ left[list[k]] \in Nat /\ left[list[k + 1]] \in Nat
    BY <1>1, <1>3, <2>1
  <2>4. (k + 1) - 1 = k /\ (k - 1) + 1 = k
    BY <2>1
  <2> HIDE DEF g
  <2>5. CASE k < i
    <3>1. l[k] = list[k] /\ k # i + 1 /\ k - 1 < i
      BY <1>2, <2>1, <2>5
    <3> QED BY <1>4, <2>1, <2>2, <2>3, <2>5, <3>1
  <2>6. CASE k = i
    <3>1. l[k] = list[i + 1] /\ i < Len(list) /\ k - 1 < i
      <4>1. ~ (k < i) /\ k - 1 < i /\ i < Len(list)
        BY <1>1, <2>1, <2>6
      <4>2. l[k] = list[k + 1]
        BY <1>2, <4>1
      <4> QED BY <2>6, <4>1, <4>2
    <3>2. f[l[k]] = left[list[k + 1]] + left[list[k]]
      BY <1>4, <2>6, <3>1
    <3> QED BY <2>2, <2>3, <2>4, <2>6, <3>1, <3>2
  <2>7. CASE k > i
    <3>1. l[k] = list[k + 1] /\ k + 1 # i + 1 /\ ~ (k < i) /\ ~ (k - 1 < i)
      <4>1. ~ (k < i) /\ ~ (k - 1 < i) /\ k + 1 # i + 1
        BY <1>1, <2>1, <2>7
      <4> QED BY <1>2, <4>1
    <3>2. f[l[k]] = left[list[k + 1]]
      <4>1. PICK j \in 1 .. Len(list) : j = k + 1
        BY <2>1
      <4>2. j # i + 1 /\ l[k] = list[j]
        BY <3>1, <4>1
      <4>3. f[list[j]] = left[list[j]]
        BY <1>4, <4>2
      <4> QED BY <4>1, <4>2, <4>3
    <3> QED BY <2>2, <2>3, <2>4, <3>1, <3>2
  <2> QED BY <2>1, <2>5, <2>6, <2>7
<1>6. g[0] = 0
  <2>1. 0 \in 0 .. Len(l) /\ 0 < i
    BY <1>1, <1>2
  <2> QED BY <1>3, <2>1
<1>7. Len(l) \in Nat
    BY <1>1, <1>2
<1> HIDE DEF g
<1>8. \A k \in 0 .. Len(l) : TimeTo(l, f)[k] = g[k]
    BY <1>5, <1>6, <1>7, TimesUnique
<1> QED BY <1>4, <1>8 DEF f, g, l, s

\* What inserting a timer after the k-th does to the list.
LEMMA InsertedList ==
    ASSUME list \in Seq(Timers), IsInjective(list), who \in Timers, ~ InList(who),
           NEW k \in 0 .. Len(list)
    PROVE  LET l == InsertAt(list, k + 1, who) IN
           /\ l \in Seq(Timers) /\ IsInjective(l) /\ Len(l) = Len(list) + 1
           /\ \A j \in 1 .. Len(l) : l[j] = IF j <= k THEN list[j]
                                            ELSE IF j = k + 1 THEN who ELSE list[j - 1]
           /\ \A t : Contains(l, t) <=> InList(t) \/ t = who
<1> DEFINE l == InsertAt(list, k + 1, who)
           n == Len(list)
           a == SubSeq(list, 1, (k + 1) - 1)
           b == SubSeq(list, k + 1, n)
           w == <<who>>
<1>1. n \in Nat /\ k \in 0 .. n /\ \A j \in 1 .. n : list[j] \in Timers
    OBVIOUS
<1>2. /\ a \in Seq(Timers) /\ Len(a) = k /\ \A j \in 1 .. k : a[j] = list[j]
      /\ b \in Seq(Timers) /\ Len(b) = n - k /\ \A j \in 1 .. n - k : b[j] = list[j + k]
  <2>1. \A j \in 1 .. (k + 1) - 1 : list[j] \in Timers
    BY <1>1
  <2>2. \A j \in k + 1 .. n : list[j] \in Timers
    BY <1>1
  <2>3. /\ a \in Seq(Timers) /\ Len(a) = (IF 1 <= (k + 1) - 1 THEN ((k + 1) - 1) - 1 + 1 ELSE 0)
        /\ \A j \in 1 .. ((k + 1) - 1) - 1 + 1 : a[j] = list[1 + j - 1]
    BY <1>1, <2>1, SubSeqProperties
  <2>4. /\ b \in Seq(Timers) /\ Len(b) = (IF k + 1 <= n THEN n - (k + 1) + 1 ELSE 0)
        /\ \A j \in 1 .. n - (k + 1) + 1 : b[j] = list[(k + 1) + j - 1]
    BY <1>1, <2>2, SubSeqProperties
  <2> HIDE DEF a, b, n
  <2>5. (IF 1 <= (k + 1) - 1 THEN ((k + 1) - 1) - 1 + 1 ELSE 0) = k
    BY <1>1
  <2>6. (IF k + 1 <= n THEN n - (k + 1) + 1 ELSE 0) = n - k
    BY <1>1
  <2>7. ASSUME NEW j \in 1 .. k PROVE a[j] = list[j]
    <3>1. j \in 1 .. ((k + 1) - 1) - 1 + 1 /\ 1 + j - 1 = j
      BY <1>1
    <3> QED BY <2>3, <3>1
  <2>8. ASSUME NEW j \in 1 .. n - k PROVE b[j] = list[j + k]
    <3>1. j \in 1 .. n - (k + 1) + 1 /\ (k + 1) + j - 1 = j + k
      BY <1>1
    <3> QED BY <2>4, <3>1
  <2> QED BY <2>3, <2>4, <2>5, <2>6, <2>7, <2>8
<1>3. /\ w \in Seq(Timers) /\ Len(w) = 1 /\ w[1] = who
    OBVIOUS
<1>4. l = (a \o w) \o b
    BY DEF InsertAt
<1> HIDE DEF l, n, a, b, w
<1>5. /\ l \in Seq(Timers) /\ Len(l) = n + 1
      /\ \A j \in 1 .. Len(l) : l[j] = IF j <= k THEN list[j]
                                       ELSE IF j = k + 1 THEN who ELSE list[j - 1]
  <2> DEFINE c == a \o w
  <2>1. /\ c \in Seq(Timers) /\ Len(c) = k + 1
        /\ \A j \in 1 .. k + 1 : c[j] = IF j <= k THEN a[j] ELSE w[j - k]
    <3>1. /\ c \in Seq(Timers) /\ Len(c) = Len(a) + Len(w)
          /\ \A j \in 1 .. Len(a) + Len(w) : c[j] = IF j <= Len(a) THEN a[j] ELSE w[j - Len(a)]
      <4>1. a \in Seq(Timers) /\ w \in Seq(Timers)
        BY <1>2, <1>3
      <4> QED BY <4>1, ConcatProperties
    <3> HIDE DEF c
    <3> QED BY <1>2, <1>3, <3>1
  <2>2. l = c \o b
    BY <1>4
  <2> HIDE DEF c
  <2>3. /\ l \in Seq(Timers) /\ Len(l) = (k + 1) + (n - k)
        /\ \A j \in 1 .. (k + 1) + (n - k) : l[j] = IF j <= k + 1 THEN c[j] ELSE b[j - (k + 1)]
    <3>1. /\ l \in Seq(Timers) /\ Len(l) = Len(c) + Len(b)
          /\ \A j \in 1 .. Len(c) + Len(b) : l[j] = IF j <= Len(c) THEN c[j] ELSE b[j - Len(c)]
      <4>1. c \in Seq(Timers) /\ b \in Seq(Timers)
        BY <1>2, <2>1
      <4> QED BY <2>2, <4>1, ConcatProperties
    <3> QED BY <1>2, <2>1, <3>1
  <2>4. (k + 1) + (n - k) = n + 1
    BY <1>1
  <2>5. ASSUME NEW j \in 1 .. n + 1
        PROVE  l[j] = IF j <= k THEN list[j] ELSE IF j = k + 1 THEN who ELSE list[j - 1]
    <3>1. CASE j <= k
      <4>1. j \in 1 .. k /\ j \in 1 .. k + 1 /\ j <= k + 1
        BY <1>1, <3>1
      <4> QED BY <1>2, <2>1, <2>3, <2>4, <3>1, <4>1
    <3>2. CASE j = k + 1
      <4>1. j \in 1 .. k + 1 /\ ~ (j <= k) /\ j <= k + 1 /\ j - k = 1
        BY <1>1, <3>2
      <4> QED BY <1>3, <2>1, <2>3, <2>4, <3>2, <4>1
    <3>3. CASE j > k + 1
      <4>1. /\ ~ (j <= k) /\ ~ (j <= k + 1) /\ j # k + 1
            /\ j - (k + 1) \in 1 .. n - k /\ (j - (k + 1)) + k = j - 1
        BY <1>1, <3>3
      <4> QED BY <1>2, <2>3, <2>4, <4>1
    <3>4. j <= k \/ j = k + 1 \/ j > k + 1
      BY <1>1
    <3> QED BY <3>1, <3>2, <3>3, <3>4
  <2> QED BY <2>3, <2>4, <2>5
<1>6. DOMAIN l = 1 .. Len(l) /\ DOMAIN list = 1 .. n
    BY <1>5 DEF n
<1>7. \A j \in 1 .. n : list[j] # who
    BY DEF InList, Contains, n
<1>8. IsInjective(l)
  <2>1. SUFFICES ASSUME NEW i \in 1 .. n + 1, NEW j \in 1 .. n + 1, l[i] = l[j]
                 PROVE  i = j
    BY <1>5, <1>6 DEF IsInjective
  <2>2. \A x, y \in 1 .. n : list[x] = list[y] => x = y
    BY <1>6 DEF IsInjective
  <2>3. /\ i \in 1 .. Len(l) /\ j \in 1 .. Len(l)
        /\ i <= k => i \in 1 .. n
        /\ j <= k => j \in 1 .. n
        /\ i > k + 1 => i - 1 \in 1 .. n
        /\ j > k + 1 => j - 1 \in 1 .. n
    BY <1>1, <1>5
  <2>4. /\ l[i] = IF i <= k THEN list[i] ELSE IF i = k + 1 THEN who ELSE list[i - 1]
        /\ l[j] = IF j <= k THEN list[j] ELSE IF j = k + 1 THEN who ELSE list[j - 1]
    BY <1>5, <2>3
  <2>5. i \in Nat /\ j \in Nat /\ k \in Nat
    BY <1>1
  <2>6. CASE i <= k
    <3>1. l[i] = list[i] /\ i \in 1 .. n /\ ~ (i > k + 1) /\ i # k + 1
      BY <2>3, <2>4, <2>5, <2>6
    <3>2. j # k + 1
      <4>1. j = k + 1 => l[j] = who
        BY <2>4, <2>5
      <4> QED BY <1>7, <2>1, <3>1, <4>1
    <3>3. CASE j <= k
      BY <2>1, <2>2, <2>3, <2>4, <3>1, <3>3
    <3>4. CASE j > k + 1
      <4>1. l[j] = list[j - 1] /\ j - 1 \in 1 .. n
        BY <2>3, <2>4, <2>5, <3>4
      <4>2. i = j - 1
        BY <2>1, <2>2, <3>1, <4>1
      <4> QED BY <2>5, <2>6, <3>4, <4>2
    <3> QED BY <2>5, <3>2, <3>3, <3>4
  <2>7. CASE i = k + 1
    <3>1. l[i] = who
      BY <2>4, <2>5, <2>7
    <3>2. ~ (j <= k)
      BY <1>7, <2>1, <2>3, <2>4, <3>1
    <3>3. ~ (j > k + 1)
      <4>1. j > k + 1 => l[j] = list[j - 1] /\ j - 1 \in 1 .. n
        BY <2>3, <2>4, <2>5
      <4> QED BY <1>7, <2>1, <3>1, <4>1
    <3> QED BY <2>5, <2>7, <3>2, <3>3
  <2>8. CASE i > k + 1
    <3>1. l[i] = list[i - 1] /\ i - 1 \in 1 .. n
      BY <2>3, <2>4, <2>5, <2>8
    <3>2. j # k + 1
      <4>1. j = k + 1 => l[j] = who
        BY <2>4, <2>5
      <4> QED BY <1>7, <2>1, <3>1, <4>1
    <3>3. CASE j <= k
      <4>1. l[j] = list[j] /\ j \in 1 .. n
        BY <2>3, <2>4, <3>3
      <4>2. i - 1 = j
        BY <2>1, <2>2, <3>1, <4>1
      <4> QED BY <2>5, <2>8, <3>3, <4>2
    <3>4. CASE j > k + 1
      <4>1. l[j] = list[j - 1] /\ j - 1 \in 1 .. n
        BY <2>3, <2>4, <2>5, <3>4
      <4>2. i - 1 = j - 1
        BY <2>1, <2>2, <3>1, <4>1
      <4> QED BY <2>5, <4>2
    <3> QED BY <2>5, <3>2, <3>3, <3>4
  <2> QED BY <2>5, <2>6, <2>7, <2>8
<1>9. ASSUME NEW t PROVE Contains(l, t) <=> InList(t) \/ t = who
  <2>1. ASSUME Contains(l, t) PROVE InList(t) \/ t = who
    <3>1. PICK j \in 1 .. Len(l) : l[j] = t
      BY <2>1 DEF Contains
    <3>2. (j <= k => j \in 1 .. n) /\ (j > k + 1 => j - 1 \in 1 .. n)
      BY <1>1, <1>5
    <3>3. j <= k \/ j = k + 1 \/ j > k + 1
      BY <1>1, <1>5
    <3>4. t = who \/ \E x \in 1 .. n : list[x] = t
      BY <1>1, <1>5, <3>1, <3>2, <3>3
    <3> QED BY <3>4 DEF InList, Contains, n
  <2>2. ASSUME InList(t) PROVE Contains(l, t)
    <3>1. PICK j \in 1 .. n : list[j] = t
      BY <2>2 DEF InList, Contains, n
    <3>2. CASE j <= k
      <4>1. j \in 1 .. Len(l) /\ l[j] = t
        BY <1>1, <1>5, <3>1, <3>2
      <4> QED BY <4>1 DEF Contains
    <3>3. CASE j > k
      <4>1. j + 1 \in 1 .. Len(l) /\ ~ (j + 1 <= k) /\ j + 1 # k + 1 /\ (j + 1) - 1 = j
        BY <1>1, <1>5, <3>1, <3>3
      <4>2. l[j + 1] = t
        BY <1>5, <3>1, <4>1
      <4> QED BY <4>1, <4>2 DEF Contains
    <3> QED BY <1>1, <3>1, <3>2, <3>3
  <2>3. Contains(l, who)
    <3>1. k + 1 \in 1 .. Len(l) /\ ~ (k + 1 <= k)
      BY <1>1, <1>5
    <3>2. l[k + 1] = who
      BY <1>5, <3>1
    <3> QED BY <3>1, <3>2 DEF Contains
  <2> QED BY <2>1, <2>2, <2>3
<1> QED BY <1>5, <1>8, <1>9 DEF l, n

\* The inserted timer has its own time to go, and every other as long as before.
LEMMA InsertedTimes ==
    ASSUME list \in Seq(Timers), IsInjective(list), left \in [Timers -> Nat],
           who \in Timers, ~ InList(who), NEW k \in 0 .. Len(list), NEW d \in Nat,
           TimeTo(list, left)[k] <= d,
           k < Len(list) => d < TimeTo(list, left)[k + 1]
    PROVE  LET l == InsertAt(list, k + 1, who)
               f == Inserted(k, d - TimeTo(list, left)[k]) IN
           /\ f \in [Timers -> Nat]
           /\ \A t \in Timers : ~ Contains(l, t) => f[t] = left[t]
           /\ \A j \in 0 .. Len(l) : TimeTo(l, f)[j] =
                 IF j <= k THEN TimeTo(list, left)[j]
                 ELSE IF j = k + 1 THEN d ELSE TimeTo(list, left)[j - 1]
<1> DEFINE l == InsertAt(list, k + 1, who)
           s == TimeTo(list, left)
           p == d - s[k]
           f == Inserted(k, p)
           n == Len(list)
           g == [j \in 0 .. Len(l) |-> IF j <= k THEN s[j]
                                       ELSE IF j = k + 1 THEN d ELSE s[j - 1]]
<1>1. /\ n \in Nat /\ k \in 0 .. n /\ DOMAIN list = 1 .. n
      /\ \A j \in 1 .. n : list[j] \in Timers /\ left[list[j]] \in Nat
  <2>1. /\ n \in Nat /\ k \in 0 .. n /\ DOMAIN list = 1 .. n
        /\ \A j \in 1 .. n : list[j] \in Timers
    OBVIOUS
  <2>2. \A j \in 1 .. n : left[list[j]] \in Nat
    BY <2>1
  <2> QED BY <2>1, <2>2
<1>2. \A i, j \in 1 .. n : list[i] = list[j] => i = j
    BY <1>1 DEF IsInjective
<1>3. \A j \in 1 .. n : list[j] # who
    BY DEF InList, Contains
<1>4. /\ Len(l) = n + 1
      /\ \A j \in 1 .. Len(l) : l[j] = IF j <= k THEN list[j]
                                       ELSE IF j = k + 1 THEN who ELSE list[j - 1]
      /\ \A t : Contains(l, t) <=> InList(t) \/ t = who
    BY InsertedList
<1>5. /\ s[0] = 0
      /\ \A j \in 1 .. n : s[j] = s[j - 1] + left[list[j]]
      /\ \A j \in 0 .. n : s[j] \in Nat
  <2>1. \A j \in 1 .. n : left[list[j]] \in Nat
    BY <1>1
  <2> QED BY <1>1, <2>1, TimesStep, TimesGrow
<1>6. s[k] <= d /\ (k < n => d < s[k + 1])
    OBVIOUS
<1>7. f = [t \in Timers |-> IF t = who THEN p
                            ELSE IF k < n /\ t = list[k + 1] THEN left[t] - p ELSE left[t]]
    BY DEF Inserted
<1> HIDE DEF l, s, f, n
<1>8. p \in Nat
  <2>1. s[k] \in Nat
    BY <1>1, <1>5
  <2> QED BY <1>6, <2>1
<1>9. k < n => /\ k + 1 \in 1 .. n /\ s[k + 1] = s[k] + left[list[k + 1]]
              /\ left[list[k + 1]] - p \in Nat
              /\ s[k] \in Nat /\ left[list[k + 1]] \in Nat
  <2> HAVE k < n
  <2>1. k + 1 \in 1 .. n /\ (k + 1) - 1 = k
    BY <1>1
  <2>2. s[k + 1] = s[k] + left[list[k + 1]] /\ s[k] \in Nat /\ left[list[k + 1]] \in Nat
    BY <1>1, <1>5, <2>1
  <2> QED BY <1>6, <2>1, <2>2
<1>10. /\ f \in [Timers -> Nat]
       /\ \A t \in Timers : ~ Contains(l, t) => f[t] = left[t]
       /\ f[who] = p
       /\ \A j \in 1 .. n : j # k + 1 => f[list[j]] = left[list[j]]
       /\ k < n => f[list[k + 1]] = left[list[k + 1]] - p
  <2> HIDE DEF p
  <2>1. \A t \in Timers : f[t] \in Nat
    BY <1>7, <1>8, <1>9
  <2>2. f \in [Timers -> Nat]
    BY <1>7, <2>1
  <2>3. k < n => InList(list[k + 1])
    BY <1>1, <1>9 DEF InList, Contains, n
  <2>4. \A t \in Timers : ~ Contains(l, t) => f[t] = left[t]
    BY <1>4, <1>7, <2>3
  <2>5. f[who] = p
    BY <1>7
  <2>6. \A j \in 1 .. n : j # k + 1 => f[list[j]] = left[list[j]]
    BY <1>1, <1>2, <1>3, <1>7, <1>9
  <2>7. k < n => f[list[k + 1]] = left[list[k + 1]] - p
    BY <1>1, <1>3, <1>7, <1>9
  <2> QED BY <2>2, <2>4, <2>5, <2>6, <2>7
<1>11. ASSUME NEW j \in 1 .. Len(l) PROVE g[j] = g[j - 1] + f[l[j]]
  <2>1. /\ j \in 1 .. n + 1 /\ j \in 0 .. Len(l) /\ j - 1 \in 0 .. Len(l)
        /\ j \in Nat /\ j - 1 \in 0 .. n /\ k \in Nat
    BY <1>1, <1>4
  <2>2. /\ g[j] = IF j <= k THEN s[j] ELSE IF j = k + 1 THEN d ELSE s[j - 1]
        /\ g[j - 1] = IF j - 1 <= k THEN s[j - 1]
                      ELSE IF j - 1 = k + 1 THEN d ELSE s[(j - 1) - 1]
    BY <2>1
  <2> HIDE DEF g
  <2>3. CASE j <= k
    <3>1. j \in 1 .. n /\ j # k + 1 /\ j - 1 <= k
      BY <1>1, <2>1, <2>3
    <3>2. l[j] = list[j]
      BY <1>4, <2>3
    <3> QED BY <1>5, <1>10, <2>2, <2>3, <3>1, <3>2
  <2>4. CASE j = k + 1
    <3>1. ~ (j <= k) /\ j - 1 <= k /\ j - 1 = k
      BY <2>1, <2>4
    <3>2. l[j] = who
      BY <1>4, <2>4, <3>1
    <3>3. s[k] \in Nat
      BY <1>1, <1>5
    <3>4. g[j] = d /\ g[j - 1] = s[k] /\ f[l[j]] = d - s[k]
      BY <1>10, <2>2, <2>4, <3>1, <3>2
    <3> QED BY <3>3, <3>4
  <2>5. CASE j = k + 2
    <3>1. /\ ~ (j <= k) /\ j # k + 1 /\ ~ (j - 1 <= k) /\ j - 1 = k + 1 /\ k < n
      BY <1>1, <2>1, <2>5
    <3>2. l[j] = list[k + 1]
      BY <1>4, <3>1
    <3>3. g[j] = s[k + 1] /\ g[j - 1] = d /\ f[l[j]] = left[list[k + 1]] - (d - s[k])
      BY <1>10, <2>2, <3>1, <3>2
    <3>4. PICK x \in Nat, y \in Nat : x = s[k] /\ y = left[list[k + 1]] /\ s[k + 1] = x + y
      BY <1>9, <3>1
    <3>5. x + y = d + (y - (d - x))
      OBVIOUS
    <3> QED BY <3>3, <3>4, <3>5
  <2>6. CASE j > k + 2
    <3>1. /\ ~ (j <= k) /\ j # k + 1 /\ ~ (j - 1 <= k) /\ j - 1 # k + 1
          /\ j - 1 \in 1 .. n
      BY <1>1, <2>1, <2>6
    <3>2. l[j] = list[j - 1]
      BY <1>4, <3>1
    <3>3. g[j] = s[j - 1] /\ g[j - 1] = s[(j - 1) - 1] /\ f[l[j]] = left[list[j - 1]]
      BY <1>10, <2>2, <3>1, <3>2
    <3>4. s[j - 1] = s[(j - 1) - 1] + left[list[j - 1]]
      BY <1>5, <3>1
    <3> QED BY <3>3, <3>4
  <2>7. j <= k \/ j = k + 1 \/ j = k + 2 \/ j > k + 2
    BY <2>1
  <2> QED BY <2>3, <2>4, <2>5, <2>6, <2>7
<1>12. g[0] = 0
  <2>1. 0 \in 0 .. Len(l) /\ 0 <= k
    BY <1>1, <1>4
  <2> QED BY <1>5, <2>1
<1>13. Len(l) \in Nat
    BY <1>1, <1>4
<1>14. \A j \in 0 .. Len(l) :
          g[j] = IF j <= k THEN s[j] ELSE IF j = k + 1 THEN d ELSE s[j - 1]
    OBVIOUS
<1> HIDE DEF g
<1>15. \A j \in 0 .. Len(l) : TimeTo(l, f)[j] = g[j]
    BY <1>11, <1>12, <1>13, TimesUnique
<1> QED BY <1>10, <1>14, <1>15 DEF f, l, s, n

\* Without its first timer the list counts from the time that one had to go.
LEMMA TailTimes ==
    ASSUME list \in Seq(Timers), IsInjective(list), left \in [Timers -> Nat], list # <<>>
    PROVE  /\ Tail(list) \in Seq(Timers) /\ IsInjective(Tail(list))
           /\ Len(Tail(list)) = Len(list) - 1
           /\ \A k \in 1 .. Len(Tail(list)) : Tail(list)[k] = list[k + 1]
           /\ \A t : Contains(Tail(list), t) <=> InList(t) /\ t # Head(list)
           /\ Head(list) = list[1] /\ InList(Head(list))
           /\ \A k \in 0 .. Len(Tail(list)) :
                 TimeTo(Tail(list), left)[k] = TimeTo(list, left)[k + 1] - left[list[1]]
<1> DEFINE l == Tail(list)
           s == TimeTo(list, left)
           n == Len(list)
           g == [k \in 0 .. Len(l) |-> s[k + 1] - left[list[1]]]
<1>1. /\ n \in Nat \ {0} /\ l \in Seq(Timers) /\ Len(l) = n - 1 /\ Head(list) = list[1]
      /\ \A k \in 1 .. Len(l) : l[k] = list[k + 1]
      /\ \A k \in 1 .. n : list[k] \in Timers
      /\ DOMAIN list = 1 .. n /\ DOMAIN l = 1 .. Len(l)
    OBVIOUS
<1>2. \A j, k \in 1 .. n : list[j] = list[k] => j = k
    BY <1>1 DEF IsInjective
<1> HIDE DEF l, n
<1>3. IsInjective(l)
  <2>1. SUFFICES ASSUME NEW j \in 1 .. Len(l), NEW k \in 1 .. Len(l), l[j] = l[k]
                 PROVE  j = k
    BY <1>1 DEF IsInjective
  <2>2. j + 1 \in 1 .. n /\ k + 1 \in 1 .. n
    BY <1>1
  <2>3. list[j + 1] = list[k + 1]
    BY <1>1, <2>1
  <2>4. j + 1 = k + 1
    BY <1>2, <2>2, <2>3
  <2> QED BY <1>1, <2>4
<1>4. ASSUME NEW t PROVE Contains(l, t) <=> InList(t) /\ t # Head(list)
  <2>1. ASSUME Contains(l, t) PROVE InList(t) /\ t # Head(list)
    <3>1. PICK k \in 1 .. Len(l) : l[k] = t
      BY <2>1 DEF Contains
    <3>2. k + 1 \in 1 .. n /\ 1 \in 1 .. n /\ k + 1 # 1 /\ list[k + 1] = t
      BY <1>1, <3>1
    <3> QED BY <1>1, <1>2, <3>2 DEF InList, Contains, n
  <2>2. ASSUME InList(t), t # Head(list) PROVE Contains(l, t)
    <3>1. PICK j \in 1 .. n : list[j] = t
      BY <2>2 DEF InList, Contains, n
    <3>2. j - 1 \in 1 .. Len(l) /\ (j - 1) + 1 = j
      BY <1>1, <2>2, <3>1
    <3>3. l[j - 1] = t
      BY <1>1, <3>1, <3>2
    <3> QED BY <3>2, <3>3 DEF Contains
  <2> QED BY <2>1, <2>2
<1>5. /\ s[0] = 0
      /\ \A j \in 1 .. n : s[j] = s[j - 1] + left[list[j]]
      /\ \A j \in 0 .. n : s[j] \in Nat
  <2>1. \A j \in 1 .. n : left[list[j]] \in Nat
    BY <1>1
  <2> QED BY <1>1, <2>1, TimesStep, TimesGrow DEF n
<1> HIDE DEF s
<1>6. ASSUME NEW k \in 1 .. Len(l) PROVE g[k] = g[k - 1] + left[l[k]]
  <2>1. /\ k \in 0 .. Len(l) /\ k - 1 \in 0 .. Len(l) /\ k + 1 \in 1 .. n
        /\ (k + 1) - 1 = k /\ (k - 1) + 1 = k /\ k \in 0 .. n /\ 1 \in 1 .. n
    BY <1>1
  <2>2. g[k] = s[k + 1] - left[list[1]] /\ g[k - 1] = s[(k - 1) + 1] - left[list[1]]
    BY <2>1
  <2> HIDE DEF g
  <2>3. s[k + 1] = s[k] + left[list[k + 1]] /\ s[k] \in Nat
    BY <1>5, <2>1
  <2>4. l[k] = list[k + 1] /\ left[list[k + 1]] \in Nat /\ left[list[1]] \in Nat
    BY <1>1, <2>1
  <2> QED BY <2>1, <2>2, <2>3, <2>4
<1>7. g[0] = 0
  <2>1. 0 \in 0 .. Len(l) /\ 1 \in 1 .. n /\ left[list[1]] \in Nat /\ 1 - 1 = 0
    BY <1>1
  <2>2. g[0] = s[1] - left[list[1]] /\ s[1] = s[0] + left[list[1]]
    BY <1>5, <2>1
  <2> HIDE DEF g
  <2> QED BY <1>5, <2>1, <2>2
<1>8. Len(l) \in Nat
    BY <1>1
<1>9. \A k \in 0 .. Len(l) : g[k] = s[k + 1] - left[list[1]]
    OBVIOUS
<1> HIDE DEF g
<1>10. \A k \in 0 .. Len(l) : TimeTo(l, left)[k] = g[k]
  <2>1. \A k \in 1 .. Len(l) : g[k] = g[k - 1] + left[l[k]]
    BY <1>6
  <2> QED BY <1>7, <1>8, <2>1, TimesUnique, SMTT(60)
<1>11. InList(list[1])
    BY <1>1 DEF InList, Contains, n
<1> QED BY <1>1, <1>3, <1>4, <1>9, <1>10, <1>11 DEF l, s, n

-----------------------------------------------------------------------------
(* The inductive invariant *)

\* Who the framework task works for, and what it has read of the hardware timer.
Roles ==
    /\ active => pc \in {"removeEdit", "insertEdit"}
    /\ hw.on /\ pc \in {"removeEdit", "insertEdit"} => active
    /\ pc \in {"remove", "removeActive", "removeEdit"} => who \in Timers /\ InList(who)
    /\ pc \in {"insert", "insertActive", "insertEdit"} => who \in Timers /\ ~ InList(who)
    /\ pc \in {"insertActive", "insertEdit"} => list # <<>>
    /\ pc \in {"idle", "cb"} => who = NONE

\* The hardware timer runs for the first timer of the list.
Loaded ==
    /\ hw.on \/ hw = Off
    /\ hw.on => list # <<>>
    /\ hw.on /\ ~ Sampled => hw.load = Max({interval, MinPeriod}) /\ interval = left[list[1]]

\* No timer has more than MaxTime to go.
Bounded == \A i \in 1 .. Len(list) : TimeTo(list, left)[i] <= MaxTime

\* A slip that has reached its bound stands for any larger one, also when the
\* padding of the first timer has still to be counted.
Slow(n) == IF n < MaxTime THEN n ELSE MaxTime + MinPeriod

\* What a timer truly has to go, with the ticks no sample takes off.
Truth(t) == due[t] + Slow(slip[t])

\* The time that has passed since the sums of the list were true, as far as a
\* sample or the end of the timer in front will still take it off.
Uncounted ==
    IF Sampled THEN IF Unseen THEN 0 ELSE since
    ELSE IF hw.on THEN Elapsed - Pad(interval)
    ELSE since + Min({interval, left[list[1]]})

Timely == \A i \in 1 .. Len(list) : TimeTo(list, left)[i] <= Truth(list[i]) + Uncounted

TimerInv == TypeOK /\ Roles /\ Loaded /\ Bounded /\ Timely /\ Armed

\* How the hardware timer raises a short period.
LEMMA PadIs ==
    ASSUME NEW p \in Int
    PROVE  /\ Pad(p) = IF MinPeriod > p THEN MinPeriod - p ELSE 0
           /\ Max({p, MinPeriod}) = p + Pad(p)
<1>1. MinPeriod \in Nat
    BY TimerAssumption
<1>2. Pad(p) = IF MinPeriod > p THEN MinPeriod - p ELSE 0
  <2>1. MinPeriod - p \in Int /\ 0 \in Int
    BY <1>1
  <2>2. Max({0, MinPeriod - p}) = IF 0 >= MinPeriod - p THEN 0 ELSE MinPeriod - p
    BY <2>1, MaxOfTwo
  <2> QED BY <1>1, <2>2 DEF Pad
<1>3. Max({p, MinPeriod}) = IF p >= MinPeriod THEN p ELSE MinPeriod
    BY <1>1, MaxOfTwo
<1> QED BY <1>1, <1>2, <1>3

LEMMA RunningIs ==
    ASSUME NEW p \in 0 .. MaxTime
    PROVE  /\ Running(p) \in [on : BOOLEAN, load : Counts, cnt : Counts]
           /\ Running(p).on /\ Running(p).load = p + Pad(p)
           /\ Running(p).cnt = Running(p).load
           /\ Off \in [on : BOOLEAN, load : Counts, cnt : Counts]
           /\ ~ Off.on /\ Off.load = 0 /\ Off.cnt = 0
<1>1. MinPeriod \in Nat /\ MaxTime \in Nat
    BY TimerAssumption
<1>2. Max({MaxTime, MinPeriod}) = IF MaxTime >= MinPeriod THEN MaxTime ELSE MinPeriod
    BY <1>1, MaxOfTwo
<1>3. Max({p, MinPeriod}) = IF p >= MinPeriod THEN p ELSE MinPeriod
    BY <1>1, MaxOfTwo
<1>4. Max({p, MinPeriod}) = p + Pad(p)
    BY PadIs
<1>5. Max({p, MinPeriod}) \in Counts /\ 0 \in Counts
    BY <1>1, <1>2, <1>3 DEF Counts
<1> QED BY <1>4, <1>5 DEF Running, Off

\* A slip, and what is added to it.
LEMMA SlowIs ==
    ASSUME NEW n \in 0 .. MaxTime, NEW q \in Nat
    PROVE  /\ Slow(n) \in Nat
           /\ Capped(n + q) \in 0 .. MaxTime
           /\ q <= MinPeriod => \/ Slow(Capped(n + q)) = Slow(n) + q
                                \/ Slow(Capped(n + q)) >= MaxTime + q
<1>1. MaxTime \in Nat /\ MinPeriod \in Nat
    BY TimerAssumption
<1>2. Capped(n + q) = IF n + q <= MaxTime THEN n + q ELSE MaxTime
  <2>1. n + q \in Int /\ MaxTime \in Int
    BY <1>1
  <2> QED BY <2>1, MinOfTwo DEF Capped
<1> QED BY <1>1, <1>2 DEF Slow

\* What the steps below need of the state.
LEMMA Facts ==
    ASSUME TimerInv
    PROVE  /\ MaxTime \in Nat /\ MinPeriod \in Nat
           /\ Len(list) \in Nat /\ DOMAIN list = 1 .. Len(list)
           /\ list # <<>> => 1 \in 1 .. Len(list)
           /\ list = <<>> => Len(list) = 0
           /\ list \in Seq(Timers) /\ IsInjective(list)
           /\ \A k \in 1 .. Len(list) : list[k] \in Timers /\ InList(list[k])
           /\ left \in [Timers -> Nat]
           /\ \A k \in 1 .. Len(list) : /\ TimeTo(list, left)[k] \in 0 .. MaxTime
                                        /\ left[list[1]] <= TimeTo(list, left)[k]
           /\ interval \in 0 .. MaxTime /\ since \in 0 .. MaxTime
           /\ \A t \in Timers : /\ due[t] \in 0 .. MaxTime /\ slip[t] \in 0 .. MaxTime
                                /\ Truth(t) = due[t] + Slow(slip[t])
                                /\ Truth(t) \in Nat
           /\ \A t \in Timers : period[t] \in 0 .. MaxTime
           /\ hw.on \in BOOLEAN /\ hw.load \in Nat /\ hw.cnt \in Nat /\ hw.cnt <= hw.load
<1>1. /\ MaxTime \in Nat /\ MinPeriod \in Nat
      /\ Periods \subseteq Nat /\ \A d \in Periods : d <= MaxTime
    BY TimerAssumption
<1>2. TypeOK
    BY DEF TimerInv
<1>3. list \in Seq(Timers) /\ IsInjective(list)
    BY <1>2 DEF TypeOK
<1>4. /\ Len(list) \in Nat /\ DOMAIN list = 1 .. Len(list)
      /\ \A k \in 1 .. Len(list) : list[k] \in Timers /\ InList(list[k])
      /\ list # <<>> => 1 \in 1 .. Len(list)
    BY <1>3, Placed
<1>5. left \in [Timers -> Nat]
  <2>1. left \in [Timers -> 0 .. MaxTime]
    BY <1>2 DEF TypeOK
  <2> QED BY <1>1, <2>1
<1>6. \A k \in 1 .. Len(list) : /\ TimeTo(list, left)[k] \in 0 .. MaxTime
                                /\ left[list[1]] <= TimeTo(list, left)[k]
  <2>1. \A k \in 1 .. Len(list) : left[list[k]] \in Nat
    BY <1>4, <1>5
  <2>2. /\ \A k \in 0 .. Len(list) : TimeTo(list, left)[k] \in Nat
        /\ \A k \in 1 .. Len(list) : left[list[1]] <= TimeTo(list, left)[k]
    BY <1>4, <2>1, TimesGrow
  <2>3. \A k \in 1 .. Len(list) : k \in 0 .. Len(list) /\ TimeTo(list, left)[k] <= MaxTime
    BY <1>4 DEF TimerInv, Bounded
  <2> QED BY <1>1, <2>2, <2>3
<1>7. ASSUME NEW t \in Timers
      PROVE  /\ due[t] \in 0 .. MaxTime /\ slip[t] \in 0 .. MaxTime
             /\ Truth(t) = due[t] + Slow(slip[t])
             /\ Truth(t) \in Nat
  <2>1. due[t] \in 0 .. MaxTime /\ slip[t] \in 0 .. MaxTime
    BY <1>2 DEF TypeOK
  <2>2. Slow(slip[t]) \in Nat
    BY <2>1, SlowIs, 0 \in Nat
  <2> QED BY <1>1, <2>1, <2>2 DEF Truth
<1>8. \A t \in Timers : period[t] \in 0 .. MaxTime
  <2>1. period \in [Timers -> Periods \cup {0}]
    BY <1>2 DEF TypeOK
  <2>2. \A d \in Periods \cup {0} : d \in 0 .. MaxTime
    BY <1>1
  <2> QED BY <2>1, <2>2
<1>9. hw.on \in BOOLEAN /\ hw.load \in Nat /\ hw.cnt \in Nat /\ hw.cnt <= hw.load
  <2>1. Max({MaxTime, MinPeriod}) = IF MaxTime >= MinPeriod THEN MaxTime ELSE MinPeriod
    BY <1>1, MaxOfTwo
  <2>2. Counts \subseteq Nat
    BY <1>1, <2>1 DEF Counts
  <2> QED BY <1>2, <2>2 DEF TypeOK
<1>10. interval \in 0 .. MaxTime /\ since \in 0 .. MaxTime
    BY <1>2 DEF TypeOK
<1>11. list = <<>> => Len(list) = 0
    OBVIOUS
<1> QED BY <1>1, <1>3, <1>4, <1>5, <1>6, <1>7, <1>8, <1>9, <1>10, <1>11

\* The time a timer of the list has left is no more than its sum.
LEMMA LeftBounded ==
    ASSUME NEW l, Len(l) \in Nat, NEW f \in [Timers -> Nat],
           \A k \in 1 .. Len(l) : l[k] \in Timers /\ TimeTo(l, f)[k] <= MaxTime,
           \A t \in Timers : ~ Contains(l, t) => f[t] <= MaxTime
    PROVE  f \in [Timers -> 0 .. MaxTime]
<1>1. MaxTime \in Nat
    BY TimerAssumption
<1>2. \A k \in 1 .. Len(l) : f[l[k]] \in Nat
    OBVIOUS
<1>3. /\ \A k \in 1 .. Len(l) : f[l[k]] <= TimeTo(l, f)[k]
      /\ \A k \in 0 .. Len(l) : TimeTo(l, f)[k] \in Nat
    BY <1>2, TimesGrow
<1>4. ASSUME NEW t \in Timers PROVE f[t] <= MaxTime
  <2>1. CASE Contains(l, t)
    <3>1. PICK k \in 1 .. Len(l) : l[k] = t
      BY <2>1 DEF Contains
    <3>2. k \in 0 .. Len(l) /\ TimeTo(l, f)[k] \in Nat
      BY <1>3
    <3> QED BY <1>1, <1>2, <1>3, <3>1, <3>2
  <2>2. CASE ~ Contains(l, t)
    BY <2>2
  <2> QED BY <2>1, <2>2
<1>5. \A t \in Timers : f[t] \in 0 .. MaxTime
    BY <1>1, <1>4
<1> QED BY <1>5

-----------------------------------------------------------------------------
(* The steps that leave the list alone *)

\* The sums are those of the state before.
LEMMA SameTimes ==
    ASSUME TimerInv, list' = list, left' = left,
           \A t \in Timers : /\ Truth(t)' \in Int
                             /\ InList(t) => \/ MaxTime <= Truth(t)' + Uncounted'
                                             \/ Truth(t) + Uncounted <= Truth(t)' + Uncounted',
           Uncounted \in Int, Uncounted' \in Int
    PROVE  Bounded' /\ Timely'
<1>1. Bounded'
    BY DEF TimerInv, Bounded
<1>2. ASSUME NEW i \in 1 .. Len(list)
      PROVE  TimeTo(list, left)[i] <= Truth(list[i])' + Uncounted'
  <2>1. PICK t \in Timers : t = list[i]
    BY Facts
  <2>2. Truth(list[i])' = Truth(t)' /\ Truth(list[i]) = Truth(t) /\ InList(t)
    BY <2>1, Facts DEF Truth
  <2>3. /\ TimeTo(list, left)[i] \in 0 .. MaxTime /\ Truth(t) \in Int /\ MaxTime \in Nat
        /\ Truth(t)' \in Int
    BY Facts
  <2>4. TimeTo(list, left)[i] <= Truth(t) + Uncounted
    BY <2>2 DEF TimerInv, Timely
  <2>5. MaxTime <= Truth(t)' + Uncounted' \/ Truth(t) + Uncounted <= Truth(t)' + Uncounted'
    BY <2>2
  <2> QED BY <2>2, <2>3, <2>4, <2>5
<1>3. Timely'
    BY <1>2 DEF Timely
<1> QED BY <1>1, <1>3

\* What is uncounted is a number.
LEMMA UncountedIs ==
    ASSUME TimerInv, list # <<>>
    PROVE  /\ Uncounted \in Int /\ left[list[1]] \in 0 .. MaxTime
           /\ Sampled /\ Unseen => Uncounted = 0
           /\ Sampled /\ ~ Unseen => Uncounted = since
           /\ ~ Sampled /\ hw.on => Uncounted = Elapsed - Pad(interval)
           /\ ~ Sampled /\ ~ hw.on =>
                 Uncounted = since + (IF interval <= left[list[1]] THEN interval ELSE left[list[1]])
<1>1. /\ MaxTime \in Nat /\ MinPeriod \in Nat /\ since \in 0 .. MaxTime /\ interval \in 0 .. MaxTime
      /\ 1 \in 1 .. Len(list) /\ list[1] \in Timers /\ left[list[1]] \in 0 .. MaxTime
      /\ hw.load \in Nat /\ hw.cnt \in Nat
  <2>1. /\ MaxTime \in Nat /\ MinPeriod \in Nat /\ since \in 0 .. MaxTime /\ interval \in 0 .. MaxTime
        /\ 1 \in 1 .. Len(list) /\ list[1] \in Timers /\ hw.load \in Nat /\ hw.cnt \in Nat
    BY Facts
  <2>2. left \in [Timers -> 0 .. MaxTime]
    BY DEF TimerInv, TypeOK
  <2> QED BY <2>1, <2>2
<1>2. interval \in Int /\ left[list[1]] \in Int
    BY <1>1
<1>3. Min({interval, left[list[1]]}) = IF interval <= left[list[1]] THEN interval ELSE left[list[1]]
    BY <1>2, MinOfTwo
<1>4. Pad(interval) = IF MinPeriod > interval THEN MinPeriod - interval ELSE 0
    BY <1>2, PadIs
<1>5. Elapsed \in Int /\ Pad(interval) \in Int
    BY <1>1, <1>4 DEF Elapsed
<1>6. Sampled => Uncounted = IF Unseen THEN 0 ELSE since
    BY DEF Uncounted
<1>7. ~ Sampled /\ hw.on => Uncounted = Elapsed - Pad(interval)
    BY DEF Uncounted
<1>8. ~ Sampled /\ ~ hw.on =>
         Uncounted = since + (IF interval <= left[list[1]] THEN interval ELSE left[list[1]])
    BY <1>3 DEF Uncounted
<1>9. Uncounted \in Int
    BY <1>1, <1>5, <1>6, <1>7, <1>8
<1> QED BY <1>1, <1>6, <1>7, <1>8, <1>9

\* A count of the hardware timer.
LEMMA TickKeeps ==
    ASSUME TimerInv, Tick
    PROVE  TimerInv'
<1>1. /\ list' = list /\ left' = left /\ period' = period /\ interval' = interval
      /\ msgs' = msgs /\ events' = events /\ lost' = lost /\ pc' = pc /\ who' = who
      /\ active' = active /\ next' = next /\ inCb' = inCb /\ calls' = calls
    BY DEF Tick, task, queues
<1>2. /\ MaxTime \in Nat /\ MinPeriod \in Nat /\ since \in 0 .. MaxTime /\ hw.on \in BOOLEAN
      /\ hw.load \in Nat /\ hw.cnt \in Nat /\ hw.cnt <= hw.load
      /\ \A t \in Timers : /\ due[t] \in 0 .. MaxTime /\ slip[t] \in 0 .. MaxTime
                           /\ Truth(t) = due[t] + Slow(slip[t])
    BY Facts
<1>3. since' = IF since + 1 <= MaxTime THEN since + 1 ELSE MaxTime
  <2>1. since + 1 \in Int /\ MaxTime \in Int
    BY <1>2
  <2> QED BY <2>1, MinOfTwo DEF Tick, Capped
<1>4. ASSUME NEW t \in Timers
      PROVE  /\ due'[t] = IF InList(t) THEN IF due[t] - 1 >= 0 THEN due[t] - 1 ELSE 0
                          ELSE due[t]
             /\ slip'[t] = IF InList(t) /\ Unseen /\ slip[t] < MaxTime THEN slip[t] + 1 ELSE slip[t]
  <2>1. due[t] - 1 \in Int /\ 0 \in Int
    BY <1>2
  <2>2. Max({due[t] - 1, 0}) = IF due[t] - 1 >= 0 THEN due[t] - 1 ELSE 0
    BY <2>1, MaxOfTwo
  <2> QED BY <2>2 DEF Tick
<1>5. /\ hw.on => /\ hw'.on /\ hw'.load = hw.load /\ hw'.cnt = hw.cnt - 1 /\ hw.cnt > 0
                  /\ hw' \in [on : BOOLEAN, load : Counts, cnt : Counts]
      /\ ~ hw.on => hw' = hw
  <2>1. ASSUME hw.on
        PROVE  /\ hw'.on /\ hw'.load = hw.load /\ hw'.cnt = hw.cnt - 1 /\ hw.cnt > 0
               /\ hw' \in [on : BOOLEAN, load : Counts, cnt : Counts]
    <3>1. hw' = [hw EXCEPT !.cnt = hw.cnt - 1] /\ hw.cnt > 0
      BY <1>2, <2>1 DEF Tick
    <3>2. hw \in [on : BOOLEAN, load : Counts, cnt : Counts]
      BY DEF TimerInv, TypeOK
    <3>3. hw.cnt - 1 \in Counts
      <4>1. Max({MaxTime, MinPeriod}) \in Nat
        BY <1>2, MaxOfTwo
      <4>2. hw.cnt \in Counts
        BY <3>2
      <4> QED BY <1>2, <3>1, <4>1, <4>2 DEF Counts
    <3> QED BY <2>1, <3>1, <3>2, <3>3
  <2> QED BY <2>1 DEF Tick
<1>6. TypeOK'
  <2>1. due' \in [Timers -> 0 .. MaxTime]
    <3>1. \A t \in Timers : due'[t] \in 0 .. MaxTime
      BY <1>2, <1>4
    <3>2. due' = [t \in Timers |-> due'[t]]
      BY DEF Tick
    <3> QED BY <3>1, <3>2
  <2>2. slip' \in [Timers -> 0 .. MaxTime]
    <3>1. \A t \in Timers : slip'[t] \in 0 .. MaxTime
      BY <1>2, <1>4
    <3>2. slip' = [t \in Timers |-> slip'[t]]
      BY DEF Tick
    <3> QED BY <3>1, <3>2
  <2>3. since' \in 0 .. MaxTime
    BY <1>2, <1>3
  <2>4. hw' \in [on : BOOLEAN, load : Counts, cnt : Counts] /\ hw'.cnt <= hw'.load
    BY <1>2, <1>5 DEF TimerInv, TypeOK
  <2> QED BY <1>1, <2>1, <2>2, <2>3, <2>4 DEF TimerInv, TypeOK
<1>7. Roles' /\ Loaded' /\ Armed'
  <2>1. (Sampled <=> Sampled') /\ \A t : InList(t) <=> InList(t)'
    BY <1>1 DEF Sampled, InList
  <2>2. (hw'.on <=> hw.on) /\ hw'.load = hw.load
    BY <1>2, <1>5
  <2>3. Roles' /\ Armed'
    BY <1>1, <2>1, <2>2 DEF TimerInv, Roles, Armed, Woken
  <2>4. Loaded'
    BY <1>1, <1>5, <2>1, <2>2 DEF TimerInv, Loaded
  <2> QED BY <2>3, <2>4
<1>8. /\ (Sampled <=> Sampled') /\ (Unseen <=> Unseen') /\ (hw.on <=> hw'.on)
      /\ hw.on => Elapsed' = Elapsed + 1
      /\ Pad(interval)' = Pad(interval)
  <2>1. hw.on <=> hw'.on
    BY <1>5
  <2>2. hw.on => Elapsed' = Elapsed + 1
    BY <1>2, <1>5 DEF Elapsed
  <2>3. Pad(interval)' = Pad(interval)
    BY <1>1 DEF Pad
  <2> QED BY <1>1, <2>1, <2>2, <2>3 DEF Sampled, Unseen
<1>9. ASSUME list # <<>>
      PROVE  /\ Uncounted \in Int /\ Uncounted' \in Int
             /\ \/ Unseen /\ Sampled /\ Uncounted = 0 /\ Uncounted' = 0
                \/ ~ Unseen /\ Uncounted' = Uncounted + 1
                \/ ~ Unseen /\ Uncounted' >= MaxTime
  <2>1. /\ Uncounted \in Int /\ left[list[1]] \in 0 .. MaxTime
        /\ Sampled /\ Unseen => Uncounted = 0
        /\ Sampled /\ ~ Unseen => Uncounted = since
        /\ ~ Sampled /\ hw.on => Uncounted = Elapsed - Pad(interval)
        /\ ~ Sampled /\ ~ hw.on =>
              Uncounted = since + (IF interval <= left[list[1]] THEN interval ELSE left[list[1]])
    BY <1>9, UncountedIs
  <2>2. CASE Sampled
    <3>1. Uncounted' = IF Unseen THEN 0 ELSE since'
      BY <1>8, <2>2 DEF Uncounted
    <3> QED BY <1>2, <1>3, <2>1, <2>2, <3>1
  <2>3. CASE ~ Sampled /\ hw.on
    <3>1. Uncounted' = (Elapsed + 1) - Pad(interval) /\ ~ Unseen
      BY <1>8, <2>3 DEF Uncounted, Unseen
    <3>2. Elapsed \in Int
      BY <1>2 DEF Elapsed
    <3>3. Pad(interval) \in Int
      <4>1. interval \in Int
        BY Facts
      <4>2. Pad(interval) = IF MinPeriod > interval THEN MinPeriod - interval ELSE 0
        BY <4>1, PadIs
      <4> QED BY <1>2, <4>1, <4>2
    <3> QED BY <2>1, <2>3, <3>1, <3>2, <3>3
  <2>4. CASE ~ Sampled /\ ~ hw.on
    <3>1. Uncounted = since + Min({interval, left[list[1]]})
      BY <2>4 DEF Uncounted
    <3>2. Uncounted' = since' + Min({interval, left[list[1]]}) /\ ~ Unseen
      BY <1>1, <1>8, <2>4 DEF Uncounted, Unseen
    <3>3. Min({interval, left[list[1]]}) \in Nat
      <4>1. interval \in Nat /\ left[list[1]] \in Nat
        BY <2>1, Facts
      <4> QED BY <4>1, MinOfTwo
    <3> QED BY <1>2, <1>3, <3>1, <3>2, <3>3
  <2> QED BY <2>2, <2>3, <2>4
<1>10. \A t \in Timers : Truth(t)' = due'[t] + Slow(slip'[t])
    BY DEF Truth, Slow
<1>11. ASSUME NEW t \in Timers
       PROVE  /\ Truth(t)' \in Int
              /\ InList(t) => \/ MaxTime <= Truth(t)' + Uncounted'
                              \/ Truth(t) + Uncounted <= Truth(t)' + Uncounted'
  <2>1. /\ Truth(t) = due[t] + Slow(slip[t])
        /\ Truth(t)' = due'[t] + Slow(slip'[t])
        /\ due[t] \in 0 .. MaxTime /\ slip[t] \in 0 .. MaxTime
    BY <1>2, <1>10
  <2>2. Truth(t) \in Int /\ Truth(t)' \in Int
    BY <1>2, <1>4, <2>1 DEF Slow
  <2>3. ASSUME InList(t)
        PROVE  /\ Truth(t)' >= Truth(t) - 1 /\ Truth(t)' >= 0
               /\ Unseen => Truth(t)' >= Truth(t) \/ Truth(t)' >= MaxTime
    <3>1. /\ due'[t] = IF due[t] - 1 >= 0 THEN due[t] - 1 ELSE 0
          /\ slip'[t] = IF Unseen /\ slip[t] < MaxTime THEN slip[t] + 1 ELSE slip[t]
      BY <1>4, <2>3
    <3>2. due'[t] >= due[t] - 1 /\ due'[t] >= 0 /\ due'[t] \in Int
      BY <2>1, <3>1
    <3>3. /\ Slow(slip'[t]) >= Slow(slip[t]) /\ Slow(slip[t]) >= 0
          /\ Slow(slip[t]) \in Int /\ Slow(slip'[t]) \in Int
          /\ Unseen => Slow(slip'[t]) >= Slow(slip[t]) + 1 \/ Slow(slip'[t]) >= MaxTime
      <4>1. CASE Unseen /\ slip[t] < MaxTime
        BY <1>2, <2>1, <3>1, <4>1 DEF Slow
      <4>2. CASE Unseen /\ ~ (slip[t] < MaxTime)
        BY <1>2, <2>1, <3>1, <4>2 DEF Slow
      <4>3. CASE ~ Unseen
        BY <1>2, <2>1, <3>1, <4>3 DEF Slow
      <4> QED BY <4>1, <4>2, <4>3
    <3> QED BY <1>2, <2>1, <3>2, <3>3
  <2>4. InList(t) => list # <<>>
    BY DEF InList, Contains
  <2> QED BY <1>2, <1>9, <2>2, <2>3, <2>4
<1>12. Bounded' /\ Timely'
  <2>1. CASE list = <<>>
    <3>1. Len(list) = 0 /\ Len(list') = 0
      BY <1>1, <2>1
    <3> QED BY <3>1 DEF Bounded, Timely
  <2>2. CASE list # <<>>
    BY <1>1, <1>9, <1>11, <2>2, SameTimes
  <2> QED BY <2>1, <2>2
<1> QED BY <1>6, <1>7, <1>12 DEF TimerInv

\* The two queues of the task.
QueuesOK ==
    /\ msgs \in Seq({"high", "low"}) /\ Len(msgs) <= QueueLen
    /\ events \in Nat /\ events <= Len(msgs)

\* A message that is posted leaves those before it to the task.
LEMMA PostKeeps ==
    ASSUME QueuesOK, NEW m \in {"high", "low"}, Post(m)
    PROVE  QueuesOK' /\ (Woken => Woken')
<1>1. QueueLen \in Nat /\ Len(msgs) \in Nat
    BY TimerAssumption DEF QueuesOK
<1>2. CASE Len(msgs) < QueueLen
  <2>1. /\ msgs' = Append(msgs, m)
        /\ events' = events + 1 \/ events' = events
    BY <1>2 DEF Post
  <2>2. /\ msgs' \in Seq({"high", "low"}) /\ Len(msgs') = Len(msgs) + 1
        /\ \A i \in 1 .. Len(msgs) : msgs'[i] = msgs[i]
    BY <2>1 DEF QueuesOK
  <2>3. \A i \in 1 .. events : i \in 1 .. Len(msgs) /\ i \in 1 .. events'
    BY <1>1, <2>1 DEF QueuesOK
  <2> QED BY <1>1, <1>2, <2>1, <2>2, <2>3 DEF QueuesOK, Woken
<1>3. CASE ~ (Len(msgs) < QueueLen)
    BY <1>3 DEF Post, queues, QueuesOK, Woken
<1> QED BY <1>2, <1>3

\* The task takes the message of one event, and keeps those of the others.
LEMMA RecvKeeps ==
    ASSUME QueuesOK, NEW m, Recv(m)
    PROVE  QueuesOK' /\ (m = "low" /\ Woken => Woken')
<1>1. /\ QueueLen \in Nat /\ Len(msgs) \in Nat /\ msgs \in Seq({"high", "low"})
      /\ events \in Nat /\ events > 0 /\ events <= Len(msgs) /\ Len(msgs) <= QueueLen
      /\ msgs' = Tail(msgs) /\ events' = events - 1 /\ Head(msgs) = m
    BY TimerAssumption DEF QueuesOK, Recv
<1>2. msgs # <<>>
    BY <1>1
<1>3. /\ msgs' \in Seq({"high", "low"}) /\ Len(msgs') = Len(msgs) - 1 /\ msgs[1] = m
      /\ \A i \in 1 .. Len(msgs) - 1 : msgs'[i] = msgs[i + 1]
    BY <1>1, <1>2
<1>4. ASSUME m = "low", Woken PROVE Woken'
  <2>1. PICK i \in 1 .. events : msgs[i] = "high"
    BY <1>4 DEF Woken
  <2>2. i # 1
    BY <1>3, <1>4, <2>1
  <2>3. i - 1 \in 1 .. events' /\ i - 1 \in 1 .. Len(msgs) - 1 /\ (i - 1) + 1 = i
    BY <1>1, <2>1, <2>2
  <2>4. msgs'[i - 1] = "high"
    BY <1>3, <2>1, <2>3
  <2> QED BY <2>3, <2>4 DEF Woken
<1>5. QueuesOK'
    BY <1>1, <1>3 DEF QueuesOK
<1> QED BY <1>4, <1>5

\* The interrupt: the time it was loaded with becomes the time of the first timer.
LEMMA FireKeeps ==
    ASSUME TimerInv, Fire
    PROVE  TimerInv'
<1>1. /\ list' = list /\ left' = left /\ period' = period /\ interval' = interval
      /\ since' = 0 /\ hw' = Off /\ pc' = pc /\ who' = who /\ active' = active
      /\ next' = next /\ inCb' = inCb /\ calls' = calls /\ due' = due /\ slip' = slip
      /\ hw.on /\ hw.cnt = 0
    BY DEF Fire, task
<1>2. /\ MaxTime \in Nat /\ interval \in 0 .. MaxTime /\ hw.load \in Nat
      /\ \A t \in Timers : Truth(t) \in Nat
    BY Facts
<1>3. QueuesOK' /\ lost' \in BOOLEAN /\ (Woken' \/ lost')
    BY PostKeeps DEF TimerInv, TypeOK, QueuesOK, Fire
<1>4. Off \in [on : BOOLEAN, load : Counts, cnt : Counts] /\ ~ Off.on /\ Off.load = 0 /\ Off.cnt = 0
    BY <1>2, RunningIs
<1>5. TypeOK'
    BY <1>1, <1>2, <1>3, <1>4 DEF TimerInv, TypeOK, QueuesOK
<1>6. Roles' /\ Loaded' /\ Armed'
  <2>1. \A t : InList(t) <=> InList(t)'
    BY <1>1 DEF InList
  <2> QED BY <1>1, <1>3, <1>4, <2>1 DEF TimerInv, Roles, Loaded, Armed
<1>7. list # <<>> /\ (~ Sampled => hw.load = Max({interval, MinPeriod}) /\ interval = left[list[1]])
    BY <1>1 DEF TimerInv, Loaded
<1>8. /\ Uncounted \in Int /\ left[list[1]] \in 0 .. MaxTime
      /\ Sampled /\ Unseen => Uncounted = 0
      /\ ~ Sampled => Uncounted = Elapsed - Pad(interval)
    BY <1>1, <1>7, UncountedIs
<1>9. Uncounted' \in Int /\ Uncounted' = Uncounted
  <2>1. (Sampled <=> Sampled') /\ (Sampled => Unseen) /\ ~ hw'.on
    BY <1>1, <1>4 DEF Sampled, Unseen
  <2>2. CASE Sampled
    <3>1. Uncounted' = 0
      BY <1>1, <2>1, <2>2 DEF Uncounted
    <3> QED BY <1>8, <2>1, <2>2, <3>1
  <2>3. CASE ~ Sampled
    <3>1. Uncounted' = since' + Min({interval', left'[list'[1]]})
      BY <2>1, <2>3 DEF Uncounted
    <3>2. Min({interval, left[list[1]]}) = interval
      <4>1. interval \in Int /\ left[list[1]] \in Int /\ interval <= left[list[1]]
        BY <1>2, <1>7, <2>3
      <4> QED BY <4>1, MinOfTwo
    <3>3. Uncounted' = interval
      BY <1>1, <1>2, <3>1, <3>2
    <3>4. Elapsed = hw.load
      BY <1>1, <1>2 DEF Elapsed
    <3>5. hw.load = interval + Pad(interval) /\ Pad(interval) \in Int
      <4>1. interval \in Int /\ MinPeriod \in Nat
        BY <1>2, Facts
      <4>2. /\ Max({interval, MinPeriod}) = interval + Pad(interval)
            /\ Pad(interval) = IF MinPeriod > interval THEN MinPeriod - interval ELSE 0
        BY <4>1, PadIs
      <4> QED BY <1>7, <2>3, <4>1, <4>2
    <3> QED BY <1>2, <1>8, <2>3, <3>3, <3>4, <3>5
  <2> QED BY <2>2, <2>3
<1>10. \A t \in Timers : Truth(t)' = Truth(t)
    BY <1>1 DEF Truth
<1>11. Bounded' /\ Timely'
    BY <1>1, <1>2, <1>8, <1>9, <1>10, SameTimes
<1> QED BY <1>5, <1>6, <1>11 DEF TimerInv

\* What stays as it is for a step that changes neither list nor clocks.
LEMMA QuietKeeps ==
    ASSUME TimerInv, list' = list, left' = left, interval' = interval, since' = since,
           hw' = hw, due' = due, slip' = slip, TypeOK', Roles',
           Sampled' <=> Sampled, Unseen' <=> Unseen, Woken => Woken', lost' = lost,
           inCb' = inCb,
           active => active' \/ hw.on
    PROVE  TimerInv'
<1>1. Bounded' /\ Timely'
  <2>1. CASE list = <<>>
    <3>1. Len(list) = 0
      BY <2>1
    <3> QED BY <3>1 DEF Bounded, Timely
  <2>2. CASE list # <<>>
    <3>1. Uncounted' = Uncounted
      BY DEF Uncounted, Elapsed, Pad
    <3>2. \A t \in Timers : Truth(t)' = Truth(t)
      BY DEF Truth
    <3>3. Uncounted \in Int /\ MaxTime \in Nat /\ \A t \in Timers : Truth(t) \in Nat
      BY <2>2, UncountedIs, Facts
    <3> QED BY <3>1, <3>2, <3>3, SameTimes
  <2> QED BY <2>1, <2>2
<1>2. Loaded' /\ Armed'
    BY DEF TimerInv, Loaded, Armed
<1> QED BY <1>1, <1>2 DEF TimerInv

\* A low precision timer is posted, or its message taken.
LEMMA LowKeeps ==
    ASSUME TimerInv, LowFire \/ LowExpire
    PROVE  TimerInv'
<1>1. /\ list' = list /\ left' = left /\ period' = period /\ interval' = interval
      /\ since' = since /\ hw' = hw /\ pc' = pc /\ who' = who /\ active' = active
      /\ next' = next /\ inCb' = inCb /\ calls' = calls /\ due' = due /\ slip' = slip
      /\ lost' = lost
    BY DEF LowFire, LowExpire, task
<1>2. QueuesOK' /\ (Woken => Woken')
  <2>1. QueuesOK
    BY DEF TimerInv, TypeOK, QueuesOK
  <2>2. CASE LowFire
    BY <2>1, <2>2, PostKeeps DEF LowFire
  <2>3. CASE LowExpire
    BY <2>1, <2>3, RecvKeeps DEF LowExpire
  <2> QED BY <2>2, <2>3
<1>3. TypeOK'
    BY <1>1, <1>2 DEF TimerInv, TypeOK, QueuesOK
<1>4. Roles'
  <2>1. InList(who)' <=> InList(who)
    BY <1>1 DEF InList
  <2> QED BY <1>1, <2>1 DEF TimerInv, Roles
<1>5. (Sampled' <=> Sampled) /\ (Unseen' <=> Unseen)
    BY <1>1 DEF Sampled, Unseen
<1> QED BY <1>1, <1>2, <1>3, <1>4, <1>5, QuietKeeps

\* A call of start or stop only notes its timer.
LEMMA CallKeeps ==
    ASSUME TimerInv, Call
    PROVE  TimerInv'
<1>1. PICK t \in Timers : Stop(t) \/ \E d \in Periods : Start(t, d)
    BY DEF Call
<1>2. /\ list' = list /\ left' = left /\ interval' = interval /\ since' = since /\ hw' = hw
      /\ due' = due /\ slip' = slip /\ msgs' = msgs /\ events' = events /\ lost' = lost
      /\ inCb' = inCb /\ active' = active /\ who' = t /\ calls < MaxCalls /\ calls' = calls + 1 /\ pc \in {"idle", "cb"}
      /\ \/ pc' = "remove" /\ InList(t)
         \/ pc' = "insert" /\ ~ InList(t)
      /\ next' \in {"insert", "return"}
    BY <1>1 DEF Stop, Start, MayCall, queues
<1>3. period' \in [Timers -> Periods \cup {0}]
  <2>1. period \in [Timers -> Periods \cup {0}]
    BY DEF TimerInv, TypeOK
  <2> QED BY <1>1, <2>1 DEF Stop, Start
<1>4. TypeOK'
  <2>1. calls' \in 0 .. MaxCalls
    BY <1>2, TimerAssumption DEF TimerInv, TypeOK
  <2> QED BY <1>2, <1>3, <2>1 DEF TimerInv, TypeOK
<1>5. ~ active
    BY <1>2 DEF TimerInv, Roles
<1>6. Roles'
  <2>1. InList(t)' <=> InList(t)
    BY <1>2 DEF InList
  <2> QED BY <1>2, <1>5, <2>1 DEF Roles, InList
<1>7. (Sampled' <=> Sampled) /\ (Unseen' <=> Unseen) /\ (Woken => Woken')
    BY <1>2 DEF Sampled, Unseen, Woken
<1> QED BY <1>2, <1>4, <1>5, <1>6, <1>7, QuietKeeps

\* Asking whether the hardware timer runs.
LEMMA ReadActiveKeeps ==
    ASSUME TimerInv, ReadActive
    PROVE  TimerInv'
<1>1. /\ list' = list /\ left' = left /\ interval' = interval /\ since' = since /\ hw' = hw
      /\ due' = due /\ slip' = slip /\ msgs' = msgs /\ events' = events /\ lost' = lost
      /\ inCb' = inCb /\ active' = hw.on /\ period' = period /\ who' = who /\ calls' = calls /\ next' = next
      /\ \/ pc = "removeActive" /\ pc' = "removeEdit"
         \/ pc = "insertActive" /\ pc' = "insertEdit"
    BY DEF ReadActive, queues
<1>2. ~ active
    BY <1>1 DEF TimerInv, Roles
<1>3. TypeOK'
    BY <1>1 DEF TimerInv, TypeOK
<1>4. Roles'
  <2>1. InList(who)' <=> InList(who)
    BY <1>1 DEF InList
  <2> QED BY <1>1, <2>1 DEF TimerInv, Roles
<1>5. (Sampled' <=> Sampled) /\ (Unseen' <=> Unseen) /\ (Woken => Woken')
    BY <1>1, <1>2 DEF Sampled, Unseen, Woken
<1> QED BY <1>1, <1>2, <1>3, <1>4, <1>5, QuietKeeps

-----------------------------------------------------------------------------
(* The steps that sample the elapsed time *)

\* Taking off no more than has passed leaves no timer late.
LEMMA ConsumedIs ==
    ASSUME TimerInv, list # <<>>, NEW e \in Nat
    PROVE  /\ Consumed(e) \in [Timers -> 0 .. MaxTime]
           /\ \A k \in 1 .. Len(list) :
                 /\ TimeTo(list, Consumed(e))[k] \in 0 .. MaxTime
                 /\ Uncounted <= e => TimeTo(list, Consumed(e))[k] <= Truth(list[k])
<1> DEFINE c == Consumed(e)
           s == TimeTo(list, left)
<1>1. /\ list \in Seq(Timers) /\ IsInjective(list) /\ left \in [Timers -> Nat]
      /\ Len(list) \in Nat /\ MaxTime \in Nat
      /\ \A k \in 1 .. Len(list) : list[k] \in Timers /\ s[k] \in 0 .. MaxTime
      /\ \A t \in Timers : Truth(t) \in Nat
    BY Facts
<1>2. /\ c \in [Timers -> Nat]
      /\ \A t \in Timers : ~ InList(t) => c[t] = left[t]
      /\ \A k \in 0 .. Len(list) : TimeTo(list, c)[k] = Max({0, s[k] - e})
    BY <1>1, ConsumedTimes
<1>3. \A k \in 1 .. Len(list) : s[k] <= Truth(list[k]) + Uncounted
    BY DEF TimerInv, Timely
<1>4. Uncounted \in Int
    BY UncountedIs
<1>5. \A t \in Timers : left[t] <= MaxTime
  <2>1. left \in [Timers -> 0 .. MaxTime]
    BY DEF TimerInv, TypeOK
  <2> QED BY <1>1, <2>1
<1> HIDE DEF c, s
<1>6. ASSUME NEW k \in 1 .. Len(list)
      PROVE  TimeTo(list, c)[k] \in 0 .. MaxTime /\ (Uncounted <= e => TimeTo(list, c)[k] <= Truth(list[k]))
  <2>1. k \in 0 .. Len(list) /\ s[k] \in 0 .. MaxTime /\ Truth(list[k]) \in Nat
    BY <1>1
  <2>2. s[k] - e \in Int /\ 0 \in Int
    BY <2>1
  <2>3. Max({0, s[k] - e}) = IF 0 >= s[k] - e THEN 0 ELSE s[k] - e
    BY <2>2, MaxOfTwo
  <2>4. TimeTo(list, c)[k] = IF 0 >= s[k] - e THEN 0 ELSE s[k] - e
    BY <1>2, <2>1, <2>3
  <2>5. s[k] <= Truth(list[k]) + Uncounted
    BY <1>3
  <2> DEFINE tt == Truth(list[k])
  <2> HIDE DEF tt
  <2>6. PICK x \in 0 .. MaxTime : x = s[k]
    BY <2>1
  <2>7. tt \in Nat /\ x <= tt + Uncounted
    BY <2>1, <2>5, <2>6 DEF tt
  <2>8. (IF 0 >= x - e THEN 0 ELSE x - e) \in 0 .. MaxTime
    BY <1>1
  <2>9. ASSUME Uncounted <= e PROVE (IF 0 >= x - e THEN 0 ELSE x - e) <= tt
    <3>1. PICK u \in Int : u = Uncounted
      BY <1>4
    <3>2. x <= tt + u /\ u <= e /\ x \in Int /\ tt \in Nat
      BY <1>1, <2>7, <2>9, <3>1
    <3> QED BY <3>2
  <2>10. TimeTo(list, c)[k] = IF 0 >= x - e THEN 0 ELSE x - e
    BY <2>4, <2>6
  <2> QED BY <2>8, <2>9, <2>10 DEF tt
<1>7. c \in [Timers -> 0 .. MaxTime]
  <2>1. \A k \in 1 .. Len(list) : list[k] \in Timers /\ TimeTo(list, c)[k] <= MaxTime
    BY <1>1, <1>6
  <2>2. \A t \in Timers : ~ Contains(list, t) => c[t] <= MaxTime
    BY <1>2, <1>5 DEF InList
  <2> QED BY <1>1, <1>2, <2>1, <2>2, LeftBounded
<1> QED BY <1>6, <1>7 DEF c

\* The samples of remove and insert.
LEMMA SampleKeeps ==
    ASSUME TimerInv, RemoveSample \/ InsertSample
    PROVE  TimerInv'
<1> DEFINE e == IF Elapsed = 0 THEN interval + since ELSE Elapsed
<1>1. /\ list' = list /\ period' = period /\ hw' = hw /\ msgs' = msgs /\ events' = events
      /\ lost' = lost /\ who' = who /\ active' = active /\ next' = next /\ inCb' = inCb /\ calls' = calls /\ due' = due
      /\ slip' = slip /\ SampleElapsed
      /\ \/ pc = "remove" /\ pc' = "removeActive"
         \/ pc = "insert" /\ pc' = "insertActive" /\ list # <<>>
    BY DEF RemoveSample, InsertSample, queues
<1>2. ~ active /\ list # <<>> /\ ~ Sampled /\ Sampled' /\ (hw.on <=> Unseen')
  <2>1. ~ active
    BY <1>1 DEF TimerInv, Roles
  <2>2. list # <<>>
    <3>1. CASE pc = "remove"
      <4>1. InList(who) /\ Len(list) \in Nat
        BY <3>1, Facts DEF TimerInv, Roles
      <4>2. list = <<>> => Len(list) = 0
        BY Facts
      <4> QED BY <4>1, <4>2 DEF InList, Contains
    <3>2. CASE pc # "remove"
      BY <1>1, <3>2
    <3> QED BY <3>1, <3>2
  <2> QED BY <1>1, <2>1, <2>2 DEF Sampled, Unseen
<1>3. /\ MaxTime \in Nat /\ MinPeriod \in Nat /\ interval \in 0 .. MaxTime /\ since \in 0 .. MaxTime
      /\ hw.load \in Nat /\ hw.cnt \in Nat /\ hw.cnt <= hw.load /\ Elapsed \in Nat /\ e \in Nat
  <2>1. /\ MaxTime \in Nat /\ MinPeriod \in Nat /\ interval \in 0 .. MaxTime /\ since \in 0 .. MaxTime
        /\ hw.load \in Nat /\ hw.cnt \in Nat /\ hw.cnt <= hw.load
    BY Facts
  <2> QED BY <2>1 DEF Elapsed
<1>4. /\ left' = Consumed(e)
      /\ since' = IF Elapsed = 0 THEN since ELSE 0
      /\ interval' = IF Elapsed = 0 THEN interval ELSE 0
    BY <1>1 DEF SampleElapsed
<1>5. Uncounted \in Int /\ Uncounted <= e
  <2>1. /\ Uncounted \in Int /\ left[list[1]] \in 0 .. MaxTime
        /\ hw.on => Uncounted = Elapsed - Pad(interval)
        /\ ~ hw.on => Uncounted = since + (IF interval <= left[list[1]] THEN interval ELSE left[list[1]])
    BY <1>2, UncountedIs
  <2>2. Pad(interval) \in Nat
    <3>1. interval \in Int
      BY <1>3
    <3>2. Pad(interval) = IF MinPeriod > interval THEN MinPeriod - interval ELSE 0
      BY <3>1, PadIs
    <3> QED BY <1>3, <3>1, <3>2
  <2>3. ~ hw.on => Elapsed = 0
    <3>1. ~ hw.on => hw = Off
      BY DEF TimerInv, Loaded
    <3> QED BY <3>1 DEF Off, Elapsed
  <2> QED BY <1>3, <2>1, <2>2, <2>3
<1> HIDE DEF e
<1>6. /\ left' \in [Timers -> 0 .. MaxTime]
      /\ \A k \in 1 .. Len(list) : /\ TimeTo(list, left')[k] \in 0 .. MaxTime
                                   /\ TimeTo(list, left')[k] <= Truth(list[k])
  <2>1. /\ Consumed(e) \in [Timers -> 0 .. MaxTime]
        /\ \A k \in 1 .. Len(list) : /\ TimeTo(list, Consumed(e))[k] \in 0 .. MaxTime
                                     /\ TimeTo(list, Consumed(e))[k] <= Truth(list[k])
    BY <1>2, <1>3, <1>5, ConsumedIs
  <2> QED BY <1>4, <2>1
<1>7. TypeOK'
  <2>1. since' \in 0 .. MaxTime /\ interval' \in 0 .. MaxTime
    BY <1>3, <1>4
  <2> QED BY <1>1, <1>6, <2>1 DEF TimerInv, TypeOK
<1>8. Roles' /\ Loaded' /\ Armed'
  <2>1. InList(who)' <=> InList(who)
    BY <1>1 DEF InList
  <2>2. Woken => Woken'
    BY <1>1 DEF Woken
  <2> QED BY <1>1, <1>2, <2>1, <2>2 DEF TimerInv, Roles, Loaded, Armed
<1>9. Bounded'
    BY <1>1, <1>3, <1>6 DEF Bounded
<1>10. Timely'
  <2>1. Uncounted' \in Nat
    <3>1. Uncounted' = IF Unseen' THEN 0 ELSE since'
      BY <1>2 DEF Uncounted
    <3> QED BY <1>3, <1>4, <3>1
  <2>2. \A k \in 1 .. Len(list) : Truth(list[k])' = Truth(list[k])
    BY <1>1 DEF Truth
  <2>3. \A k \in 1 .. Len(list) : TimeTo(list, left')[k] <= Truth(list[k])' + Uncounted'
    <3> TAKE k \in 1 .. Len(list)
    <3>1. Truth(list[k]) \in Nat
      BY Facts
    <3>2. TimeTo(list, left')[k] \in 0 .. MaxTime /\ TimeTo(list, left')[k] <= Truth(list[k])
      BY <1>6
    <3> QED BY <1>3, <2>1, <2>2, <3>1, <3>2
  <2> QED BY <1>1, <2>3 DEF Timely
<1> QED BY <1>7, <1>8, <1>9, <1>10 DEF TimerInv

-----------------------------------------------------------------------------
(* The steps that restart the hardware timer *)

\* The hardware timer started for the first timer of l.
LEMMA StartFirstIs ==
    ASSUME TimerInv, NEW l \in Seq(Timers), l # <<>>, NEW f \in [Timers -> 0 .. MaxTime],
           StartFirst(l, f)
    PROVE  /\ hw' \in [on : BOOLEAN, load : Counts, cnt : Counts] /\ hw'.cnt <= hw'.load
           /\ hw'.on /\ interval' \in 0 .. MaxTime /\ lost' = FALSE
           /\ hw'.load = Max({interval', MinPeriod}) /\ interval' = f[l[1]]
           /\ slip' \in [Timers -> 0 .. MaxTime]
           /\ Elapsed' = 0 /\ Pad(interval)' \in Nat
           /\ \A t \in Timers : Contains(l, t) =>
                 \/ Slow(slip'[t]) = Slow(Fresh[t]) + Pad(interval)'
                 \/ Slow(slip'[t]) >= MaxTime + Pad(interval)'
           /\ \A t \in Timers : slip'[t] \in 0 .. MaxTime /\ Slow(slip'[t]) \in Nat
<1>1. /\ MaxTime \in Nat /\ MinPeriod \in Nat /\ l[1] \in Timers
      /\ \A t \in Timers : Fresh[t] \in 0 .. MaxTime
  <2>1. l[1] \in Timers
    OBVIOUS
  <2>2. \A t \in Timers : Fresh[t] \in 0 .. MaxTime
    BY Facts DEF Fresh
  <2> QED BY <2>1, <2>2, Facts
<1>2. f[l[1]] \in 0 .. MaxTime
    BY <1>1
<1>3. hw' = Running(f[l[1]]) /\ interval' = f[l[1]] /\ lost' = FALSE
    BY DEF StartFirst
<1>4. /\ hw' \in [on : BOOLEAN, load : Counts, cnt : Counts]
      /\ hw'.on /\ hw'.load = f[l[1]] + Pad(f[l[1]]) /\ hw'.cnt = hw'.load
    BY <1>2, <1>3, RunningIs
<1>5. /\ Max({f[l[1]], MinPeriod}) = f[l[1]] + Pad(f[l[1]])
      /\ Pad(f[l[1]]) \in Nat /\ Pad(f[l[1]]) <= MinPeriod
  <2>1. f[l[1]] \in Int
    BY <1>2
  <2>2. /\ Max({f[l[1]], MinPeriod}) = f[l[1]] + Pad(f[l[1]])
        /\ Pad(f[l[1]]) = IF MinPeriod > f[l[1]] THEN MinPeriod - f[l[1]] ELSE 0
    BY <2>1, PadIs
  <2> QED BY <1>1, <1>2, <2>2
<1>6. Pad(interval)' = Pad(f[l[1]])
    BY <1>3 DEF Pad
<1>7. ASSUME NEW t \in Timers
      PROVE  /\ slip'[t] = IF Contains(l, t) THEN Capped(Fresh[t] + Pad(f[l[1]])) ELSE 0
             /\ slip'[t] \in 0 .. MaxTime
             /\ Contains(l, t) => \/ Slow(slip'[t]) = Slow(Fresh[t]) + Pad(f[l[1]])
                                 \/ Slow(slip'[t]) >= MaxTime + Pad(f[l[1]])
  <2>1. slip'[t] = IF Contains(l, t) THEN Capped(Fresh[t] + Pad(f[l[1]])) ELSE 0
    BY DEF StartFirst
  <2>2. /\ Capped(Fresh[t] + Pad(f[l[1]])) \in 0 .. MaxTime
        /\ \/ Slow(Capped(Fresh[t] + Pad(f[l[1]]))) = Slow(Fresh[t]) + Pad(f[l[1]])
           \/ Slow(Capped(Fresh[t] + Pad(f[l[1]]))) >= MaxTime + Pad(f[l[1]])
    BY <1>1, <1>5, SlowIs
  <2> QED BY <1>1, <2>1, <2>2
<1>8. /\ slip' \in [Timers -> 0 .. MaxTime]
      /\ \A t \in Timers : Slow(slip'[t]) \in Nat
  <2>1. slip' = [t \in Timers |-> slip'[t]]
    BY DEF StartFirst
  <2>2. \A t \in Timers : Slow(slip'[t]) \in Nat
    BY <1>1, <1>7 DEF Slow
  <2> QED BY <1>7, <2>1, <2>2
<1>9. hw'.load \in Nat /\ hw'.cnt <= hw'.load /\ Elapsed' = 0
    BY <1>2, <1>4, <1>5 DEF Elapsed
<1> QED BY <1>2, <1>3, <1>4, <1>5, <1>6, <1>7, <1>8, <1>9

\* An edit and the restart after it: time is what the list says is left, d the
\* due time, slow what was not counted, u and un what is uncounted before and
\* after, q the padding, unless what was not counted has reached its bound.
LEMMA StillDue ==
    ASSUME NEW time \in Nat, NEW d \in Nat, NEW slow \in Nat, NEW sn \in Int,
           NEW u \in Int, NEW un \in Int, NEW q \in Int,
           sn = slow + q \/ time <= sn - q, un + q >= u, un + q >= 0,
           time <= d + slow \/ time <= d + slow + u
    PROVE  time <= d + sn + un
OBVIOUS

\* An edit of the list that delays no timer, and the restart that follows it.
LEMMA EditKeeps ==
    ASSUME TimerInv, pc \in {"removeEdit", "insertEdit"}, list # <<>>,
           NEW l \in Seq(Timers), NEW f \in [Timers -> 0 .. MaxTime],
           list' = l, left' = f, Rearm(l, f), since' = since, msgs' = msgs, events' = events,
           inCb' = inCb, active' = FALSE, pc' \in {"insert", "idle", "cb"},
           due' \in [Timers -> 0 .. MaxTime],
           \A k \in 1 .. Len(l) :
              /\ TimeTo(l, f)[k] \in 0 .. MaxTime
              /\ \/ l[k] = who /\ TimeTo(l, f)[k] <= due'[l[k]]
                 \/ /\ l[k] # who /\ due'[l[k]] = due[l[k]]
                    /\ TimeTo(l, f)[k] <= Truth(l[k]) + Uncounted
    PROVE  /\ hw' \in [on : BOOLEAN, load : Counts, cnt : Counts] /\ hw'.cnt <= hw'.load
           /\ interval' \in 0 .. MaxTime /\ slip' \in [Timers -> 0 .. MaxTime]
           /\ lost' \in BOOLEAN /\ Loaded' /\ Armed' /\ Bounded' /\ Timely'
<1>1. /\ MaxTime \in Nat /\ since \in 0 .. MaxTime /\ interval \in 0 .. MaxTime
      /\ \A t \in Timers : /\ due[t] \in 0 .. MaxTime /\ slip[t] \in 0 .. MaxTime
                           /\ Truth(t) = due[t] + Slow(slip[t])
                           /\ Slow(Fresh[t]) \in Nat
                           /\ t # who => Fresh[t] = slip[t]
  <2>1. \A t \in Timers : Fresh[t] \in 0 .. MaxTime /\ (t # who => Fresh[t] = slip[t])
    BY Facts DEF Fresh
  <2>2. \A t \in Timers : Slow(Fresh[t]) \in Nat
    BY <2>1, SlowIs, 0 \in Nat
  <2> QED BY <2>1, <2>2, Facts
<1>2. Sampled /\ (Unseen <=> active) /\ (hw.on => active) /\ ~ Sampled'
    BY DEF TimerInv, Roles, Sampled, Unseen
<1>3. Uncounted = (IF active THEN 0 ELSE since)
    BY <1>2 DEF Uncounted
<1>4. /\ Len(l) \in Nat /\ \A k \in 1 .. Len(l) : l[k] \in Timers /\ Contains(l, l[k])
      /\ l # <<>> => 1 \in 1 .. Len(l)
      /\ l = <<>> => Len(l) = 0
  <2>1. /\ Len(l) \in Nat /\ \A k \in 1 .. Len(l) : l[k] \in Timers
        /\ l # <<>> => 1 \in 1 .. Len(l)
        /\ l = <<>> => Len(l) = 0
    OBVIOUS
  <2> QED BY <2>1 DEF Contains
<1>5. Bounded'
    BY <1>1, <1>4 DEF Bounded
<1>6. CASE active /\ l # <<>>
  <2>1. StartFirst(l, f)
    BY <1>6 DEF Rearm
  <2>2. /\ hw' \in [on : BOOLEAN, load : Counts, cnt : Counts] /\ hw'.cnt <= hw'.load
        /\ hw'.on /\ interval' \in 0 .. MaxTime /\ lost' = FALSE
        /\ hw'.load = Max({interval', MinPeriod}) /\ interval' = f[l[1]]
        /\ slip' \in [Timers -> 0 .. MaxTime]
        /\ Elapsed' = 0 /\ Pad(interval)' \in Nat
        /\ \A t \in Timers : Contains(l, t) =>
              \/ Slow(slip'[t]) = Slow(Fresh[t]) + Pad(interval)'
              \/ Slow(slip'[t]) >= MaxTime + Pad(interval)'
        /\ \A t \in Timers : slip'[t] \in 0 .. MaxTime /\ Slow(slip'[t]) \in Nat
    BY <1>6, <2>1, StartFirstIs
  <2>3. Loaded' /\ Armed'
    BY <1>6, <2>2 DEF Loaded, Armed
  <2>4. Uncounted' = 0 - Pad(interval)'
    BY <1>2, <2>2 DEF Uncounted
  <2>5. ASSUME NEW k \in 1 .. Len(l) PROVE TimeTo(l, f)[k] <= Truth(l[k])' + Uncounted'
    <3> DEFINE t == l[k]
               slow == Slow(Fresh[t])
    <3>1. /\ t \in Timers /\ due'[t] \in 0 .. MaxTime /\ Slow(slip'[t]) \in Nat
          /\ \/ Slow(slip'[t]) = slow + Pad(interval)'
             \/ Slow(slip'[t]) >= MaxTime + Pad(interval)'
      BY <1>4, <2>2
    <3>2. Truth(l[k])' = due'[t] + Slow(slip'[t])
      BY DEF Truth, Slow
    <3>3. /\ TimeTo(l, f)[k] \in 0 .. MaxTime
          /\ \/ t = who /\ TimeTo(l, f)[k] <= due'[t]
             \/ /\ t # who /\ due'[t] = due[t]
                /\ TimeTo(l, f)[k] <= Truth(t) + 0
      BY <1>3, <1>6
    <3>4. /\ due[t] \in 0 .. MaxTime /\ Truth(t) = due[t] + Slow(slip[t]) /\ slow \in Nat
          /\ t # who => slow = Slow(slip[t])
      BY <1>1, <3>1
    <3> HIDE DEF t, slow
    <3>5. /\ TimeTo(l, f)[k] \in Nat /\ due[t] \in Nat /\ due'[t] \in Nat
          /\ Pad(interval)' \in Nat /\ Slow(slip'[t]) \in Nat
      <4>1. \A n \in 0 .. MaxTime : n \in Nat
        BY <1>1
      <4>2. TimeTo(l, f)[k] \in Nat /\ due[t] \in Nat /\ due'[t] \in Nat
        BY <3>1, <3>3, <3>4, <4>1
      <4> QED BY <2>2, <3>1, <4>2
    <3>6. Uncounted' \in Int /\ Uncounted' + Pad(interval)' = 0
      <4>1. PICK q \in Nat : q = Pad(interval)'
        BY <3>5
      <4>2. Uncounted' = 0 - q
        BY <2>4, <4>1
      <4> QED BY <4>1, <4>2
    <3>7. TimeTo(l, f)[k] <= due'[t] + slow
      <4>1. CASE t = who
        <5>1. PICK y \in Nat : y = TimeTo(l, f)[k]
          BY <3>5
        <5>2. PICK v \in Nat : v = due'[t]
          BY <3>5
        <5>3. PICK w \in Nat : w = slow
          BY <3>4
        <5>4. y <= v
          BY <3>3, <4>1, <5>1, <5>2
        <5>5. y <= v + w
          BY <5>4
        <5> QED BY <5>1, <5>2, <5>3, <5>5
      <4>2. CASE t # who
        <5>1. TimeTo(l, f)[k] <= (due'[t] + slow) + 0
          BY <3>3, <3>4, <4>2
        <5> QED BY <3>4, <3>5, <5>1
      <4> QED BY <4>1, <4>2
    <3>8. \/ Slow(slip'[t]) = slow + Pad(interval)'
          \/ TimeTo(l, f)[k] <= Slow(slip'[t]) - Pad(interval)'
      <4>1. PICK a \in Nat : a = Slow(slip'[t])
        BY <3>5
      <4>2. PICK q \in Nat : q = Pad(interval)'
        BY <3>5
      <4>3. a = slow + q \/ a >= MaxTime + q
        BY <3>1, <4>1, <4>2
      <4>4. TimeTo(l, f)[k] \in 0 .. MaxTime /\ MaxTime \in Nat
        BY <1>1, <3>3
      <4>5. a = slow + q \/ TimeTo(l, f)[k] <= a - q
        BY <4>3, <4>4
      <4> QED BY <4>1, <4>2, <4>5
    <3>9. /\ 0 \in Int /\ Uncounted' + Pad(interval)' >= 0 /\ Pad(interval)' \in Int
          /\ Slow(slip'[t]) \in Int
      BY <3>5, <3>6
    <3>10. TimeTo(l, f)[k] <= due'[t] + Slow(slip'[t]) + Uncounted'
      BY <3>4, <3>5, <3>6, <3>7, <3>8, <3>9, StillDue
    <3> QED BY <3>2, <3>10
  <2>6. Timely'
    BY <2>5 DEF Timely
  <2> QED BY <1>5, <2>2, <2>3, <2>6
<1>7. CASE ~ (active /\ l # <<>>)
  <2>1. hw' = Off /\ slip' = Fresh /\ interval' = interval /\ lost' = lost
    BY <1>7 DEF Rearm
  <2>2. /\ hw' \in [on : BOOLEAN, load : Counts, cnt : Counts] /\ hw'.cnt <= hw'.load
        /\ ~ hw'.on
    BY <1>1, <2>1, RunningIs
  <2>3. slip' \in [Timers -> 0 .. MaxTime]
    <3>1. \A t \in Timers : (IF t = who THEN 0 ELSE slip[t]) \in 0 .. MaxTime
      BY <1>1
    <3> QED BY <2>1, <3>1 DEF Fresh
  <2>4. Loaded' /\ Armed' /\ lost' \in BOOLEAN
    <3>1. l # <<>> => Woken \/ inCb \/ lost
      BY <1>2, <1>7 DEF TimerInv, Armed
    <3>2. Woken => Woken'
      BY DEF Woken
    <3>3. lost \in BOOLEAN
      BY DEF TimerInv, TypeOK
    <3> QED BY <2>1, <2>2, <3>1, <3>2, <3>3 DEF Loaded, Armed
  <2>5. ASSUME NEW k \in 1 .. Len(l) PROVE TimeTo(l, f)[k] <= Truth(l[k])' + Uncounted'
    <3> DEFINE t == l[k]
               slow == Slow(Fresh[t])
    <3>1. t \in Timers /\ due'[t] \in 0 .. MaxTime /\ l # <<>> /\ f[l[1]] \in 0 .. MaxTime
      BY <1>4
    <3>2. Truth(l[k])' = due'[t] + slow
      BY <2>1 DEF Truth, Slow
    <3>3. Uncounted' = since + Min({interval, f[l[1]]})
      BY <1>2, <2>1, <2>2 DEF Uncounted
    <3>4. Min({interval, f[l[1]]}) \in Nat
      <4>1. interval \in Nat /\ f[l[1]] \in Nat
        BY <1>1, <3>1
      <4>2. interval \in Int /\ f[l[1]] \in Int
        BY <4>1
      <4>3. Min({interval, f[l[1]]}) = IF interval <= f[l[1]] THEN interval ELSE f[l[1]]
        BY <4>2, MinOfTwo
      <4> QED BY <4>1, <4>3
    <3>5. /\ TimeTo(l, f)[k] \in 0 .. MaxTime
          /\ \/ t = who /\ TimeTo(l, f)[k] <= due'[t]
             \/ /\ t # who /\ due'[t] = due[t]
                /\ TimeTo(l, f)[k] <= Truth(t) + since
      <4>1. Uncounted = since
        BY <1>3, <1>7, <3>1
      <4> QED BY <4>1
    <3>6. /\ due[t] \in 0 .. MaxTime /\ Truth(t) = due[t] + Slow(slip[t]) /\ slow \in Nat
          /\ t # who => slow = Slow(slip[t])
      BY <1>1, <3>1
    <3> HIDE DEF t, slow
    <3>7. /\ TimeTo(l, f)[k] \in Nat /\ due[t] \in Nat /\ due'[t] \in Nat
          /\ since \in Nat /\ Uncounted' \in Int
      <4>1. since \in Nat /\ TimeTo(l, f)[k] \in Nat /\ due[t] \in Nat /\ due'[t] \in Nat
        <5>1. \A n \in 0 .. MaxTime : n \in Nat
          BY <1>1
        <5> QED BY <1>1, <3>1, <3>5, <3>6, <5>1
      <4>2. PICK m \in Nat : Uncounted' = since + m
        BY <3>3, <3>4
      <4> QED BY <4>1, <4>2
    <3>8. TimeTo(l, f)[k] <= due'[t] + slow \/ TimeTo(l, f)[k] <= due'[t] + slow + since
      <4>1. CASE t = who
        <5>1. PICK y \in Nat : y = TimeTo(l, f)[k]
          BY <3>7
        <5>2. PICK v \in Nat : v = due'[t]
          BY <3>7
        <5>3. PICK w \in Nat : w = slow
          BY <3>6
        <5>4. y <= v
          BY <3>5, <4>1, <5>1, <5>2
        <5>5. y <= v + w
          BY <5>4
        <5> QED BY <5>1, <5>2, <5>3, <5>5
      <4>2. CASE t # who
        <5>1. Truth(t) = due'[t] + slow
          BY <3>5, <3>6, <4>2
        <5>2. TimeTo(l, f)[k] <= Truth(t) + since
          BY <3>5, <4>2
        <5> QED BY <5>1, <5>2
      <4> QED BY <4>1, <4>2
    <3>9. /\ 0 \in Int /\ since \in Int /\ Uncounted' + 0 >= 0 /\ Uncounted' + 0 >= since
      <4>1. PICK m \in Nat : Uncounted' = since + m
        BY <3>3, <3>4
      <4>2. since \in Nat
        BY <1>1
      <4> QED BY <4>1, <4>2
    <3>10. slow = slow + 0 /\ slow \in Int
      BY <3>6
    <3>11. TimeTo(l, f)[k] <= due'[t] + slow + Uncounted'
      BY <3>6, <3>7, <3>8, <3>9, <3>10, StillDue
    <3> QED BY <3>2, <3>11
  <2>6. Timely'
    BY <2>5 DEF Timely
  <2> QED BY <1>1, <1>5, <2>1, <2>2, <2>3, <2>4, <2>6
<1> QED BY <1>6, <1>7

\* The edit of remove: the timer is out of the list, and the others have what
\* they had.
LEMMA RemoveEditKeeps ==
    ASSUME TimerInv, RemoveEdit
    PROVE  TimerInv'
<1> DEFINE i == Place(who)
           l == RemoveAt(list, i)
           f == Removed(i)
           s == TimeTo(list, left)
<1>1. /\ pc = "removeEdit" /\ list' = l /\ left' = f /\ Rearm(l, f) /\ active' = FALSE
      /\ due' = [due EXCEPT ![who] = 0] /\ period' = period /\ since' = since
      /\ msgs' = msgs /\ events' = events /\ inCb' = inCb /\ calls' = calls
      /\ \/ pc' = "insert" /\ who' = who /\ next' = next
         \/ pc' = Return /\ who' = NONE /\ next' = "return"
    BY DEF RemoveEdit, queues
<1>2. who \in Timers /\ InList(who)
    BY <1>1 DEF TimerInv, Roles
<1>3. /\ list \in Seq(Timers) /\ IsInjective(list) /\ left \in [Timers -> Nat]
      /\ Len(list) \in Nat /\ MaxTime \in Nat
      /\ \A k \in 1 .. Len(list) : list[k] \in Timers /\ s[k] \in 0 .. MaxTime
      /\ due \in [Timers -> 0 .. MaxTime] /\ left \in [Timers -> 0 .. MaxTime]
      /\ (list = <<>> => Len(list) = 0)
  <2>1. due \in [Timers -> 0 .. MaxTime] /\ left \in [Timers -> 0 .. MaxTime]
    BY DEF TimerInv, TypeOK
  <2> QED BY <2>1, Facts
<1>4. i \in 1 .. Len(list) /\ list[i] = who
    BY <1>2, <1>3, Placed
<1>5. list # <<>>
    BY <1>3, <1>4
<1>6. /\ l \in Seq(Timers) /\ IsInjective(l) /\ Len(l) = Len(list) - 1
      /\ \A k \in 1 .. Len(l) : l[k] = IF k < i THEN list[k] ELSE list[k + 1]
      /\ \A t : Contains(l, t) <=> InList(t) /\ t # who
    BY <1>3, <1>4, RemovedList
<1>7. /\ f \in [Timers -> Nat]
      /\ \A t \in Timers : ~ InList(t) => f[t] = left[t]
      /\ \A k \in 0 .. Len(l) : TimeTo(l, f)[k] = s[IF k < i THEN k ELSE k + 1]
    BY <1>3, <1>4, RemovedTimes
<1>8. f[who] = left[who]
  <2>1. CASE i < Len(list)
    <3>1. i + 1 \in 1 .. Len(list) /\ i + 1 # i
      BY <1>3, <1>4, <2>1
    <3>2. list[i + 1] # who
      BY <1>3, <1>4, <3>1, Placed
    <3> QED BY <1>2, <1>3, <2>1, <3>2 DEF Removed
  <2>2. CASE ~ (i < Len(list))
    BY <2>2 DEF Removed
  <2> QED BY <2>1, <2>2
<1> HIDE DEF i, l, f, s
<1>9. ASSUME NEW k \in 1 .. Len(l)
      PROVE  \E j \in 1 .. Len(list) : l[k] = list[j] /\ TimeTo(l, f)[k] = s[j]
  <2>1. CASE k < i
    <3>1. k \in 0 .. Len(l) /\ k \in 1 .. Len(list)
      BY <1>3, <1>6
    <3> QED BY <1>6, <1>7, <2>1, <3>1
  <2>2. CASE ~ (k < i)
    <3>1. k \in 0 .. Len(l) /\ k + 1 \in 1 .. Len(list)
      BY <1>3, <1>6
    <3> QED BY <1>6, <1>7, <2>2, <3>1
  <2> QED BY <2>1, <2>2
<1>10. /\ f \in [Timers -> 0 .. MaxTime] /\ Len(l) \in Nat
  <2>1. Len(l) \in Nat
    BY <1>6
  <2>2. \A k \in 1 .. Len(l) : l[k] \in Timers /\ TimeTo(l, f)[k] <= MaxTime
    <3> TAKE k \in 1 .. Len(l)
    <3>1. PICK j \in 1 .. Len(list) : l[k] = list[j] /\ TimeTo(l, f)[k] = s[j]
      BY <1>9
    <3>2. list[j] \in Timers /\ s[j] \in 0 .. MaxTime
      BY <1>3
    <3> QED BY <1>3, <3>1, <3>2
  <2>3. ASSUME NEW t \in Timers, ~ Contains(l, t) PROVE f[t] <= MaxTime
    <3>1. f[t] = left[t]
      BY <1>6, <1>7, <1>8, <2>3
    <3>2. left[t] \in 0 .. MaxTime
      BY <1>3
    <3> QED BY <1>3, <3>1, <3>2
  <2> QED BY <1>7, <2>1, <2>2, <2>3, LeftBounded
<1>11. due' \in [Timers -> 0 .. MaxTime] /\ \A t \in Timers : t # who => due'[t] = due[t]
  <2>1. 0 \in 0 .. MaxTime
    BY <1>3
  <2> QED BY <1>1, <1>3, <2>1
<1>12. \A k \in 1 .. Len(l) :
          /\ TimeTo(l, f)[k] \in 0 .. MaxTime
          /\ \/ l[k] = who /\ TimeTo(l, f)[k] <= due'[l[k]]
             \/ /\ l[k] # who /\ due'[l[k]] = due[l[k]]
                /\ TimeTo(l, f)[k] <= Truth(l[k]) + Uncounted
  <2> TAKE k \in 1 .. Len(l)
  <2>1. PICK j \in 1 .. Len(list) : l[k] = list[j] /\ TimeTo(l, f)[k] = s[j]
    BY <1>9
  <2>2. Contains(l, l[k])
    BY <1>10 DEF Contains
  <2>3. l[k] # who /\ l[k] \in Timers /\ TimeTo(l, f)[k] \in 0 .. MaxTime
    BY <1>3, <1>6, <2>1, <2>2
  <2>4. s[j] <= Truth(list[j]) + Uncounted
    BY DEF TimerInv, Timely, s
  <2> QED BY <1>11, <2>1, <2>3, <2>4
<1>13. pc' \in {"insert", "idle", "cb"}
    BY <1>1 DEF Return
<1>14. /\ hw' \in [on : BOOLEAN, load : Counts, cnt : Counts] /\ hw'.cnt <= hw'.load
       /\ interval' \in 0 .. MaxTime /\ slip' \in [Timers -> 0 .. MaxTime]
       /\ lost' \in BOOLEAN /\ Loaded' /\ Armed' /\ Bounded' /\ Timely'
    BY <1>1, <1>5, <1>6, <1>10, <1>11, <1>12, <1>13, EditKeeps
<1>15. TypeOK'
  <2>1. list' \in Seq(Timers) /\ IsInjective(list') /\ left' \in [Timers -> 0 .. MaxTime]
    BY <1>1, <1>6, <1>10
  <2>2. who' \in Timers \cup {NONE} /\ pc' \in {"insert", "idle", "cb"}
        /\ next' \in {"insert", "return"}
    BY <1>1, <1>2, <1>13 DEF TimerInv, TypeOK
  <2> QED BY <1>1, <1>11, <1>14, <2>1, <2>2 DEF TimerInv, TypeOK
<1>16. Roles'
  <2>1. CASE pc' = "insert" /\ who' = who
    <3>1. ~ InList(who)'
      BY <1>1, <1>6, <2>1 DEF InList
    <3> QED BY <1>1, <1>2, <2>1, <3>1 DEF Roles
  <2>2. CASE pc' = Return /\ who' = NONE
    BY <1>1, <2>2 DEF Roles, Return
  <2> QED BY <1>1, <2>1, <2>2
<1> QED BY <1>14, <1>15, <1>16 DEF TimerInv

\* The edit of insert: the timer goes where its time puts it, and the others have
\* what they had.
LEMMA InsertEditKeeps ==
    ASSUME TimerInv, InsertEdit
    PROVE  TimerInv'
<1> DEFINE s == TimeTo(list, left)
           d == period[who]
           T == {i \in 0 .. Len(list) : s[i] <= d}
           k == Max(T)
           l == InsertAt(list, k + 1, who)
           f == Inserted(k, d - s[k])
<1>1. /\ pc = "insertEdit" /\ list' = l /\ left' = f /\ Rearm(l, f) /\ active' = FALSE
      /\ due' = [due EXCEPT ![who] = d] /\ period' = period /\ since' = since
      /\ msgs' = msgs /\ events' = events /\ inCb' = inCb /\ calls' = calls
      /\ pc' = Return /\ who' = NONE /\ next' = "return"
    BY DEF InsertEdit, queues
<1>2. who \in Timers /\ ~ InList(who) /\ list # <<>>
    BY <1>1 DEF TimerInv, Roles
<1>3. /\ list \in Seq(Timers) /\ IsInjective(list) /\ left \in [Timers -> Nat]
      /\ Len(list) \in Nat /\ MaxTime \in Nat /\ d \in 0 .. MaxTime
      /\ \A j \in 1 .. Len(list) : list[j] \in Timers /\ InList(list[j]) /\ s[j] \in 0 .. MaxTime
      /\ due \in [Timers -> 0 .. MaxTime] /\ left \in [Timers -> 0 .. MaxTime]
  <2>1. due \in [Timers -> 0 .. MaxTime] /\ left \in [Timers -> 0 .. MaxTime]
    BY DEF TimerInv, TypeOK
  <2> QED BY <1>2, <2>1, Facts
<1>4. s[0] = 0
    BY <1>3, TimesStep
<1> HIDE DEF s, d
<1>5. k \in 0 .. Len(list) /\ s[k] <= d /\ (k < Len(list) => d < s[k + 1])
  <2>1. 0 \in T /\ T \subseteq 0 .. Len(list)
    BY <1>3, <1>4
  <2>2. k \in T /\ \A j \in T : k >= j
    BY <1>3, <2>1, LargestUpTo
  <2>3. k \in 0 .. Len(list) /\ s[k] <= d
    BY <2>2
  <2> HIDE DEF k
  <2>4. ASSUME k < Len(list) PROVE d < s[k + 1]
    <3>1. k + 1 \in 1 .. Len(list) /\ k + 1 \in 0 .. Len(list)
      BY <1>3, <2>3, <2>4
    <3>2. k + 1 \notin T
      BY <2>2, <2>3, <3>1
    <3>3. ~ (s[k + 1] <= d)
      BY <3>1, <3>2
    <3> QED BY <1>3, <3>1, <3>3
  <2> QED BY <2>3, <2>4
<1> HIDE DEF k, T
<1>6. /\ l \in Seq(Timers) /\ IsInjective(l) /\ Len(l) = Len(list) + 1
      /\ \A j \in 1 .. Len(l) : l[j] = IF j <= k THEN list[j]
                                       ELSE IF j = k + 1 THEN who ELSE list[j - 1]
      /\ \A t : Contains(l, t) <=> InList(t) \/ t = who
    BY <1>2, <1>3, <1>5, InsertedList
<1>7. /\ f \in [Timers -> Nat]
      /\ \A t \in Timers : ~ Contains(l, t) => f[t] = left[t]
      /\ \A j \in 0 .. Len(l) : TimeTo(l, f)[j] =
            IF j <= k THEN s[j] ELSE IF j = k + 1 THEN d ELSE s[j - 1]
  <2>1. d \in Nat
    BY <1>3
  <2>2. /\ k \in 0 .. Len(list) /\ TimeTo(list, left)[k] <= d
        /\ k < Len(list) => d < TimeTo(list, left)[k + 1]
    BY <1>5 DEF s
  <2>3. /\ list \in Seq(Timers) /\ IsInjective(list) /\ left \in [Timers -> Nat]
        /\ who \in Timers /\ ~ InList(who)
    BY <1>2, <1>3
  <2>4. /\ f \in [Timers -> Nat]
        /\ \A t \in Timers : ~ Contains(l, t) => f[t] = left[t]
        /\ \A j \in 0 .. Len(l) : TimeTo(l, f)[j] =
              IF j <= k THEN TimeTo(list, left)[j]
              ELSE IF j = k + 1 THEN d ELSE TimeTo(list, left)[j - 1]
    BY <2>1, <2>2, <2>3, InsertedTimes DEF s
  <2> HIDE DEF l, f
  <2> QED BY <2>4 DEF s
<1> HIDE DEF l, f
<1>8. ASSUME NEW j \in 1 .. Len(l)
      PROVE  \/ l[j] = who /\ TimeTo(l, f)[j] = d
             \/ \E m \in 1 .. Len(list) : l[j] = list[m] /\ TimeTo(l, f)[j] = s[m]
  <2>1. j \in 0 .. Len(l) /\ j \in Nat /\ k \in Nat
    BY <1>3, <1>5, <1>6
  <2>2. CASE j <= k
    <3>1. j \in 1 .. Len(list)
      BY <1>3, <1>5, <2>1, <2>2
    <3> QED BY <1>6, <1>7, <2>1, <2>2, <3>1
  <2>3. CASE j = k + 1
    <3>1. ~ (j <= k)
      BY <2>1, <2>3
    <3> QED BY <1>6, <1>7, <2>1, <2>3, <3>1
  <2>4. CASE ~ (j <= k) /\ j # k + 1
    <3>1. j - 1 \in 1 .. Len(list)
      BY <1>3, <1>6, <2>1, <2>4
    <3> QED BY <1>6, <1>7, <2>1, <2>4, <3>1
  <2> QED BY <2>2, <2>3, <2>4
<1>9. f \in [Timers -> 0 .. MaxTime] /\ Len(l) \in Nat
  <2>1. Len(l) \in Nat
    BY <1>6
  <2>2. \A j \in 1 .. Len(l) : l[j] \in Timers /\ TimeTo(l, f)[j] <= MaxTime
    <3> TAKE j \in 1 .. Len(l)
    <3>1. CASE l[j] = who /\ TimeTo(l, f)[j] = d
      BY <1>2, <1>3, <3>1
    <3>2. CASE \E m \in 1 .. Len(list) : l[j] = list[m] /\ TimeTo(l, f)[j] = s[m]
      <4>1. PICK m \in 1 .. Len(list) : l[j] = list[m] /\ TimeTo(l, f)[j] = s[m]
        BY <3>2
      <4>2. list[m] \in Timers /\ s[m] \in 0 .. MaxTime
        BY <1>3
      <4> QED BY <1>3, <4>1, <4>2
    <3> QED BY <1>8, <3>1, <3>2
  <2>3. ASSUME NEW t \in Timers, ~ Contains(l, t) PROVE f[t] <= MaxTime
    <3>1. f[t] = left[t]
      BY <1>7, <2>3
    <3>2. left[t] \in 0 .. MaxTime
      BY <1>3
    <3> QED BY <1>3, <3>1, <3>2
  <2> QED BY <1>7, <2>1, <2>2, <2>3, LeftBounded
<1>10. /\ due' \in [Timers -> 0 .. MaxTime] /\ due'[who] = d
       /\ \A t \in Timers : t # who => due'[t] = due[t]
  <2>1. d \in 0 .. MaxTime
    BY <1>3
  <2> QED BY <1>1, <1>2, <1>3, <2>1
<1>11. \A j \in 1 .. Len(l) :
          /\ TimeTo(l, f)[j] \in 0 .. MaxTime
          /\ \/ l[j] = who /\ TimeTo(l, f)[j] <= due'[l[j]]
             \/ /\ l[j] # who /\ due'[l[j]] = due[l[j]]
                /\ TimeTo(l, f)[j] <= Truth(l[j]) + Uncounted
  <2> TAKE j \in 1 .. Len(l)
  <2>1. CASE l[j] = who /\ TimeTo(l, f)[j] = d
    <3>1. d <= d
      BY <1>3
    <3> QED BY <1>3, <1>10, <2>1, <3>1
  <2>2. CASE \E m \in 1 .. Len(list) : l[j] = list[m] /\ TimeTo(l, f)[j] = s[m]
    <3>1. PICK m \in 1 .. Len(list) : l[j] = list[m] /\ TimeTo(l, f)[j] = s[m]
      BY <2>2
    <3>2. l[j] # who /\ l[j] \in Timers /\ TimeTo(l, f)[j] \in 0 .. MaxTime
      BY <1>2, <1>3, <3>1
    <3>3. s[m] <= Truth(list[m]) + Uncounted
      BY DEF TimerInv, Timely, s
    <3> QED BY <1>10, <3>1, <3>2, <3>3
  <2> QED BY <1>8, <2>1, <2>2
<1>12. pc' \in {"insert", "idle", "cb"}
    BY <1>1 DEF Return
<1>13. /\ hw' \in [on : BOOLEAN, load : Counts, cnt : Counts] /\ hw'.cnt <= hw'.load
       /\ interval' \in 0 .. MaxTime /\ slip' \in [Timers -> 0 .. MaxTime]
       /\ lost' \in BOOLEAN /\ Loaded' /\ Armed' /\ Bounded' /\ Timely'
    BY <1>1, <1>2, <1>6, <1>9, <1>10, <1>11, <1>12, EditKeeps
<1>14. TypeOK'
  <2>1. list' \in Seq(Timers) /\ IsInjective(list') /\ left' \in [Timers -> 0 .. MaxTime]
    BY <1>1, <1>6, <1>9
  <2> QED BY <1>1, <1>10, <1>12, <1>13, <2>1 DEF TimerInv, TypeOK
<1>15. Roles'
    BY <1>1 DEF Roles, Return
<1> QED BY <1>13, <1>14, <1>15 DEF TimerInv

\* The first timer of an empty list.
LEMMA InsertFirstKeeps ==
    ASSUME TimerInv, InsertFirst
    PROVE  TimerInv'
<1> DEFINE p == period[who]
<1>1. /\ pc = "insert" /\ list' = <<who>> /\ left' = [left EXCEPT ![who] = p]
      /\ hw' = Running(p) /\ interval' = p /\ due' = [due EXCEPT ![who] = p]
      /\ slip' = [slip EXCEPT ![who] = Capped(Pad(p))] /\ pc' = Return
      /\ who' = NONE /\ lost' = FALSE /\ events' = events
      /\ next' = "return" /\ period' = period /\ since' = since /\ msgs' = msgs
      /\ active' = active /\ inCb' = inCb /\ calls' = calls
    BY DEF InsertFirst, queues
<1>2. who \in Timers /\ ~ active
    BY <1>1 DEF TimerInv, Roles
<1>3. /\ MaxTime \in Nat /\ MinPeriod \in Nat /\ p \in 0 .. MaxTime
      /\ due \in [Timers -> 0 .. MaxTime] /\ left \in [Timers -> 0 .. MaxTime]
      /\ slip \in [Timers -> 0 .. MaxTime]
  <2>1. /\ due \in [Timers -> 0 .. MaxTime] /\ left \in [Timers -> 0 .. MaxTime]
        /\ slip \in [Timers -> 0 .. MaxTime]
    BY DEF TimerInv, TypeOK
  <2> QED BY <1>2, <2>1, Facts
<1> HIDE DEF p
<1>4. Pad(p) \in Nat /\ Pad(p) <= MinPeriod /\ Max({p, MinPeriod}) = p + Pad(p)
  <2>1. p \in Int
    BY <1>3
  <2>2. /\ Pad(p) = IF MinPeriod > p THEN MinPeriod - p ELSE 0
        /\ Max({p, MinPeriod}) = p + Pad(p)
    BY <2>1, PadIs
  <2> QED BY <1>3, <2>1, <2>2
<1>5. /\ hw' \in [on : BOOLEAN, load : Counts, cnt : Counts]
      /\ hw'.on /\ hw'.load = p + Pad(p) /\ hw'.cnt = hw'.load
    BY <1>1, <1>3, RunningIs
<1>6. /\ left' \in [Timers -> 0 .. MaxTime] /\ left'[who] = p
      /\ due' \in [Timers -> 0 .. MaxTime] /\ due'[who] = p
      /\ slip' \in [Timers -> 0 .. MaxTime] /\ Slow(slip'[who]) \in Nat
      /\ Slow(slip'[who]) >= Pad(p)
  <2>1. Capped(Pad(p)) = IF Pad(p) <= MaxTime THEN Pad(p) ELSE MaxTime
    <3>1. Pad(p) \in Int /\ MaxTime \in Int
      BY <1>3, <1>4
    <3> QED BY <3>1, MinOfTwo DEF Capped
  <2>2. slip'[who] = Capped(Pad(p)) /\ Capped(Pad(p)) \in 0 .. MaxTime
    BY <1>1, <1>2, <1>3, <1>4, <2>1
  <2>3. Slow(slip'[who]) \in Nat /\ Slow(slip'[who]) >= Pad(p)
    BY <1>3, <1>4, <2>1, <2>2 DEF Slow
  <2> QED BY <1>1, <1>2, <1>3, <2>2, <2>3
<1>7. list' \in Seq(Timers) /\ IsInjective(list') /\ Len(list') = 1 /\ list'[1] = who
    BY <1>1, <1>2 DEF IsInjective
<1>8. TypeOK'
  <2>1. hw'.cnt <= hw'.load
    BY <1>3, <1>4, <1>5
  <2>2. pc' \in {"idle", "cb"}
    BY <1>1 DEF Return
  <2> QED BY <1>1, <1>3, <1>5, <1>6, <1>7, <2>1, <2>2 DEF TimerInv, TypeOK
<1>9. Roles' /\ Armed'
    BY <1>1, <1>2, <1>5 DEF Roles, Return, Armed
<1>10. Loaded'
  <2>1. list' # <<>>
    BY <1>1
  <2> QED BY <1>1, <1>4, <1>5, <1>6, <1>7, <2>1 DEF Loaded
<1>11. TimeTo(list', left')[1] = p
  <2>1. /\ TimeTo(list', left')[0] = 0
        /\ \A k \in 1 .. Len(list') :
              TimeTo(list', left')[k] = TimeTo(list', left')[k - 1] + left'[list'[k]]
    BY <1>7, TimesStep
  <2>2. 1 \in 1 .. Len(list') /\ 1 - 1 = 0
    BY <1>7
  <2>3. TimeTo(list', left')[1] = TimeTo(list', left')[1 - 1] + left'[list'[1]]
    BY <2>1, <2>2
  <2> QED BY <1>3, <1>6, <1>7, <2>1, <2>2, <2>3
<1>12. Truth(list[1])' = p + Slow(slip'[who])
    BY <1>6, <1>7 DEF Truth, Slow
<1>13. Uncounted' = 0 - Pad(p)
  <2>1. ~ Sampled'
    BY <1>1 DEF Sampled, Return
  <2>2. Uncounted' = Elapsed' - Pad(interval)'
    BY <1>5, <2>1 DEF Uncounted
  <2>3. Elapsed' = 0
    BY <1>3, <1>4, <1>5 DEF Elapsed
  <2>4. Pad(interval)' = Pad(p)
    BY <1>1 DEF Pad
  <2> QED BY <2>2, <2>3, <2>4
<1>14. Bounded' /\ Timely'
  <2>1. \A i \in 1 .. Len(list') : i = 1
    BY <1>7
  <2>2. TimeTo(list', left')[1] <= MaxTime
    BY <1>3, <1>11
  <2>3. TimeTo(list', left')[1] <= Truth(list[1])' + Uncounted'
    BY <1>3, <1>4, <1>6, <1>11, <1>12, <1>13
  <2>4. Bounded'
    BY <2>1, <2>2 DEF Bounded
  <2>5. Timely'
    BY <2>1, <2>3 DEF Timely
  <2> QED BY <2>4, <2>5
<1> QED BY <1>8, <1>9, <1>10, <1>14 DEF TimerInv

-----------------------------------------------------------------------------
(* The message of the interrupt *)

\* The first timer leaves the list with all the time the hardware timer counted.
LEMMA ExpireKeeps ==
    ASSUME TimerInv, Expire
    PROVE  TimerInv'
<1>1. /\ pc = "idle" /\ Recv("high") /\ lost' = lost /\ interval' = 0 /\ hw' = Off
      /\ left' = left /\ period' = period /\ since' = since /\ active' = active
      /\ calls' = calls
    BY DEF Expire, Recv
<1>2. ~ active /\ who = NONE /\ ~ Sampled
    BY <1>1 DEF TimerInv, Roles, Sampled
<1>3. /\ MaxTime \in Nat /\ since \in 0 .. MaxTime /\ interval \in 0 .. MaxTime
      /\ MinPeriod \in Nat
    BY Facts
<1>4. QueuesOK' /\ interval' \in 0 .. MaxTime
  <2>1. QueuesOK
    BY DEF TimerInv, TypeOK, QueuesOK
  <2> QED BY <1>1, <1>3, <2>1, RecvKeeps
<1>5. /\ hw' \in [on : BOOLEAN, load : Counts, cnt : Counts] /\ hw'.cnt <= hw'.load
      /\ ~ hw'.on
    BY <1>1, <1>3, RunningIs
<1>6. CASE list = <<>>
  <2>1. /\ list' = list /\ due' = due /\ slip' = slip /\ pc' = pc /\ who' = who
        /\ next' = next /\ inCb' = inCb
    BY <1>6 DEF Expire
  <2>2. TypeOK'
    BY <1>1, <1>4, <1>5, <2>1 DEF TimerInv, TypeOK, QueuesOK
  <2>3. Roles' /\ Loaded' /\ Armed'
    BY <1>1, <1>2, <1>5, <1>6, <2>1 DEF Roles, Loaded, Armed
  <2>4. Len(list') = 0
    BY <1>6, <2>1
  <2>5. Bounded' /\ Timely'
    BY <2>4 DEF Bounded, Timely
  <2> QED BY <2>2, <2>3, <2>5 DEF TimerInv
<1>7. CASE list # <<>>
  <2> DEFINE p == Head(list)
             l == Tail(list)
             s == TimeTo(list, left)
  <2>1. /\ list' = l /\ due' = [due EXCEPT ![p] = 0] /\ slip' = [slip EXCEPT ![p] = 0]
        /\ inCb' = TRUE
        /\ \/ pc' = "insert" /\ who' = p /\ next' = "insert"
           \/ pc' = "cb" /\ who' = who /\ next' = next
    BY <1>7 DEF Expire
  <2>2. /\ list \in Seq(Timers) /\ IsInjective(list) /\ left \in [Timers -> Nat]
        /\ Len(list) \in Nat /\ 1 \in 1 .. Len(list)
        /\ \A k \in 1 .. Len(list) : list[k] \in Timers /\ s[k] \in 0 .. MaxTime
        /\ \A t \in Timers : Truth(t) \in Nat
    BY <1>7, Facts
  <2>3. /\ l \in Seq(Timers) /\ IsInjective(l) /\ Len(l) = Len(list) - 1
        /\ \A k \in 1 .. Len(l) : l[k] = list[k + 1]
        /\ \A t : Contains(l, t) <=> InList(t) /\ t # p
        /\ p = list[1]
        /\ \A k \in 0 .. Len(l) : TimeTo(l, left)[k] = s[k + 1] - left[list[1]]
    BY <1>7, <2>2, TailTimes
  <2> HIDE DEF p, l, s
  <2>4. p \in Timers
    BY <2>2, <2>3
  <2>5. /\ due' \in [Timers -> 0 .. MaxTime] /\ slip' \in [Timers -> 0 .. MaxTime]
        /\ \A t \in Timers : t # p => due'[t] = due[t] /\ slip'[t] = slip[t]
    <3>1. due \in [Timers -> 0 .. MaxTime] /\ slip \in [Timers -> 0 .. MaxTime]
      BY DEF TimerInv, TypeOK
    <3>2. 0 \in 0 .. MaxTime
      BY <1>3
    <3> QED BY <2>1, <2>4, <3>1, <3>2
  <2>6. TypeOK'
    BY <1>1, <1>2, <1>4, <1>5, <2>1, <2>3, <2>4, <2>5 DEF TimerInv, TypeOK, QueuesOK
  <2>7. Roles'
    <3>1. CASE pc' = "insert" /\ who' = p
      <4>1. ~ InList(who)'
        BY <2>1, <2>3, <3>1 DEF InList
      <4> QED BY <1>1, <1>2, <2>4, <3>1, <4>1 DEF Roles
    <3>2. CASE pc' = "cb" /\ who' = who
      BY <1>1, <1>2, <3>2 DEF Roles
    <3> QED BY <2>1, <3>1, <3>2
  <2>8. Loaded' /\ Armed'
    BY <1>1, <1>5, <2>1 DEF Loaded, Armed
  <2>9. Uncounted \in Int /\ left[list[1]] \in Nat /\ Uncounted <= since + left[list[1]]
    <3>1. /\ Uncounted \in Int /\ left[list[1]] \in 0 .. MaxTime
          /\ hw.on => Uncounted = Elapsed - Pad(interval)
          /\ ~ hw.on =>
                Uncounted = since + (IF interval <= left[list[1]] THEN interval ELSE left[list[1]])
      BY <1>2, <1>7, UncountedIs
    <3>2. CASE hw.on
      <4>1. hw.load = Max({interval, MinPeriod}) /\ interval = left[list[1]]
        BY <1>2, <3>2 DEF TimerInv, Loaded
      <4>2. interval \in Int
        BY <1>3
      <4>3. /\ Max({interval, MinPeriod}) = interval + Pad(interval)
            /\ Pad(interval) = IF MinPeriod > interval THEN MinPeriod - interval ELSE 0
        BY <4>2, PadIs
      <4>4. hw.load \in Nat /\ hw.cnt \in Nat /\ Elapsed = hw.load - hw.cnt
        BY Facts DEF Elapsed
      <4>5. Pad(interval) \in Int
        BY <1>3, <4>2, <4>3
      <4>6. Elapsed - Pad(interval) <= interval
        BY <4>1, <4>2, <4>3, <4>4, <4>5
      <4> QED BY <1>3, <3>1, <3>2, <4>1, <4>6
    <3>3. CASE ~ hw.on
      BY <1>3, <3>1, <3>3
    <3> QED BY <1>3, <3>1, <3>2, <3>3
  <2>10. ASSUME NEW k \in 1 .. Len(l)
         PROVE  /\ TimeTo(l, left)[k] <= MaxTime
                /\ TimeTo(l, left)[k] <= Truth(list[k])' + Uncounted'
    <3>1. k \in 0 .. Len(l) /\ k + 1 \in 1 .. Len(list) /\ k + 1 # 1
      <4>1. PICK n \in Nat : n = Len(list)
        BY <2>2
      <4>2. Len(l) = n - 1 /\ k \in 1 .. n - 1
        BY <2>3, <4>1
      <4>3. k \in 0 .. n - 1 /\ k + 1 \in 1 .. n /\ k + 1 # 1
        BY <4>1, <4>2
      <4> QED BY <4>1, <4>2, <4>3
    <3>2. TimeTo(l, left)[k] = s[k + 1] - left[list[1]] /\ l[k] = list[k + 1]
      BY <2>3, <3>1
    <3>3. s[k + 1] \in 0 .. MaxTime
      BY <2>2, <3>1
    <3>4. PICK t \in Timers : t = list[k + 1]
      BY <2>2, <3>1
    <3>5. Truth(t) \in Nat /\ s[k + 1] <= Truth(t) + Uncounted
      BY <2>2, <3>1, <3>4 DEF TimerInv, Timely, s
    <3>6. t # p
      <4>1. \A j \in 1 .. Len(list) : Place(list[j]) = j
        BY <2>2, Placed
      <4>2. Place(list[k + 1]) = k + 1 /\ Place(list[1]) = 1
        BY <2>2, <3>1, <4>1
      <4> QED BY <2>3, <3>1, <3>4, <4>2
    <3>7. Truth(list[k])' = Truth(t)
      <4>1. list'[k] = t
        BY <2>1, <3>2, <3>4
      <4>2. due'[t] = due[t] /\ slip'[t] = slip[t]
        BY <2>5, <3>6
      <4> QED BY <4>1, <4>2 DEF Truth, Slow
    <3>8. Uncounted' = since
      <4>1. Uncounted' = since' + Min({interval', left'[list'[1]]})
        BY <1>5, <2>1 DEF Uncounted, Sampled
      <4>2. left[l[1]] \in Nat
        <5>1. 1 \in 1 .. Len(l) /\ 1 + 1 \in 1 .. Len(list)
          <6>1. PICK n \in Nat : n = Len(list)
            BY <2>2
          <6>2. Len(l) = n - 1 /\ k \in 1 .. n - 1
            BY <2>3, <6>1
          <6>3. 1 \in 1 .. n - 1 /\ 1 + 1 \in 1 .. n
            BY <6>2
          <6> QED BY <6>1, <6>2, <6>3
        <5>2. l[1] = list[1 + 1]
          BY <2>3, <5>1
        <5> QED BY <2>2, <5>1, <5>2
      <4>3. 0 \in Int /\ left[l[1]] \in Int
        BY <4>2
      <4>4. Min({0, left[l[1]]}) = 0
        BY <4>2, <4>3, MinOfTwo
      <4>5. Uncounted' = since + 0
        BY <1>1, <2>1, <4>1, <4>4
      <4> QED BY <1>3, <4>5
    <3>9. TimeTo(l, left)[k] <= MaxTime
      BY <1>3, <2>9, <3>2, <3>3
    <3>10. s[k + 1] - left[list[1]] <= Truth(t) + since
      BY <1>3, <2>9, <3>3, <3>5
    <3> QED BY <3>2, <3>7, <3>8, <3>9, <3>10
  <2>11. Bounded' /\ Timely'
    BY <1>1, <2>1, <2>10 DEF Bounded, Timely
  <2> QED BY <2>6, <2>7, <2>8, <2>11 DEF TimerInv
<1> QED BY <1>6, <1>7

\* The end of the callback.
LEMMA CallbackEndKeeps ==
    ASSUME TimerInv, CallbackEnd
    PROVE  TimerInv'
<1>1. /\ pc = "cb" /\ pc' = "idle" /\ inCb' = FALSE /\ list' = list /\ period' = period
      /\ msgs' = msgs /\ events' = events /\ who' = who /\ active' = active /\ next' = next
      /\ calls' = calls
      /\ due' = due /\ since' = since
    BY DEF CallbackEnd, queues
<1>2. ~ active /\ who = NONE /\ ~ Sampled /\ ~ Sampled' /\ NONE \notin Timers
    BY <1>1, TimerAssumption DEF TimerInv, Roles, Sampled
<1>3. Roles'
    BY <1>1, <1>2 DEF Roles
<1>4. /\ MaxTime \in Nat /\ since \in 0 .. MaxTime /\ interval \in 0 .. MaxTime
      /\ list \in Seq(Timers) /\ \A k \in 1 .. Len(list) : list[k] \in Timers /\ InList(list[k])
      /\ \A t \in Timers : /\ due[t] \in 0 .. MaxTime /\ slip[t] \in 0 .. MaxTime
                           /\ Truth(t) = due[t] + Slow(slip[t])
                           /\ Truth(t) \in Nat
    BY Facts
<1>5. CASE hw.on \/ list = <<>>
  <2>1. left' = left /\ interval' = interval /\ hw' = hw /\ slip' = slip /\ lost' = lost
    BY <1>5 DEF CallbackEnd
  <2>2. TypeOK'
    BY <1>1, <2>1 DEF TimerInv, TypeOK
  <2>3. Loaded' /\ Armed'
    BY <1>1, <1>2, <1>5, <2>1 DEF TimerInv, Loaded, Armed
  <2>4. Bounded' /\ Timely'
    <3>1. CASE list = <<>>
      <4>1. Len(list') = 0
        BY <1>1, <3>1
      <4> QED BY <4>1 DEF Bounded, Timely
    <3>2. CASE list # <<>>
      <4>1. Uncounted' = Uncounted
        BY <1>1, <1>2, <2>1 DEF Uncounted, Elapsed, Pad
      <4>2. \A t \in Timers : Truth(t)' = Truth(t)
        BY <1>1, <2>1 DEF Truth
      <4>3. Uncounted \in Int
        BY <3>2, UncountedIs
      <4> QED BY <1>1, <1>4, <2>1, <4>1, <4>2, <4>3, SameTimes
    <3> QED BY <3>1, <3>2
  <2> QED BY <1>3, <2>2, <2>3, <2>4 DEF TimerInv
<1>6. CASE ~ hw.on /\ list # <<>>
  <2> DEFINE e == interval + since
             f == Consumed(e)
  <2>1. left' = f /\ StartFirst(list, f)
    BY <1>6 DEF CallbackEnd
  <2>2. e \in Nat
    BY <1>4
  <2>3. Uncounted \in Int /\ Uncounted <= e
    <3>1. /\ Uncounted \in Int /\ left[list[1]] \in 0 .. MaxTime
          /\ Uncounted = since + (IF interval <= left[list[1]] THEN interval ELSE left[list[1]])
      BY <1>2, <1>6, UncountedIs
    <3> QED BY <1>4, <3>1
  <2>4. /\ f \in [Timers -> 0 .. MaxTime]
        /\ \A k \in 1 .. Len(list) : /\ TimeTo(list, f)[k] \in 0 .. MaxTime
                                     /\ TimeTo(list, f)[k] <= Truth(list[k])
    <3> HIDE DEF e
    <3>1. /\ Consumed(e) \in [Timers -> 0 .. MaxTime]
          /\ \A k \in 1 .. Len(list) : /\ TimeTo(list, Consumed(e))[k] \in 0 .. MaxTime
                                       /\ TimeTo(list, Consumed(e))[k] <= Truth(list[k])
      BY <1>6, <2>2, <2>3, ConsumedIs
    <3> QED BY <3>1
  <2> HIDE DEF e, f
  <2>5. PICK g \in [Timers -> 0 .. MaxTime] : g = f
    BY <2>4
  <2>6. /\ hw' \in [on : BOOLEAN, load : Counts, cnt : Counts] /\ hw'.cnt <= hw'.load
        /\ hw'.on /\ interval' \in 0 .. MaxTime /\ lost' = FALSE
        /\ hw'.load = Max({interval', MinPeriod}) /\ interval' = g[list[1]]
        /\ slip' \in [Timers -> 0 .. MaxTime]
        /\ Elapsed' = 0 /\ Pad(interval)' \in Nat
        /\ \A t \in Timers : Contains(list, t) =>
              \/ Slow(slip'[t]) = Slow(Fresh[t]) + Pad(interval)'
              \/ Slow(slip'[t]) >= MaxTime + Pad(interval)'
        /\ \A t \in Timers : slip'[t] \in 0 .. MaxTime /\ Slow(slip'[t]) \in Nat
    <3>1. StartFirst(list, g)
      BY <2>1, <2>5
    <3> QED BY <1>4, <1>6, <3>1, StartFirstIs
  <2>7. TypeOK'
    BY <1>1, <2>1, <2>4, <2>6 DEF TimerInv, TypeOK
  <2>8. Loaded' /\ Armed'
    BY <1>1, <1>6, <2>1, <2>5, <2>6 DEF Loaded, Armed
  <2>9. Uncounted' = 0 - Pad(interval)'
    BY <1>2, <2>6 DEF Uncounted
  <2>10. ASSUME NEW k \in 1 .. Len(list)
         PROVE  /\ TimeTo(list, f)[k] <= MaxTime
                /\ TimeTo(list, f)[k] <= Truth(list[k])' + Uncounted'
    <3>1. PICK t \in Timers : t = list[k]
      BY <1>4
    <3>2. TimeTo(list, f)[k] \in 0 .. MaxTime /\ TimeTo(list, f)[k] <= Truth(t)
      BY <2>4, <3>1
    <3>3. Fresh[t] = slip[t]
      BY <1>2 DEF Fresh
    <3>4. Contains(list, t)
      BY <1>4, <3>1 DEF InList
    <3>5. PICK a \in Nat : a = Slow(slip'[t])
      BY <2>6
    <3>6. PICK q \in Nat : q = Pad(interval)'
      BY <2>6
    <3>7. a = Slow(slip[t]) + q \/ a >= MaxTime + q
      BY <2>6, <3>3, <3>4, <3>5, <3>6
    <3>8. Truth(list[k])' = due[t] + a
      BY <1>1, <3>1, <3>5 DEF Truth, Slow
    <3>9. /\ due[t] \in 0 .. MaxTime /\ Truth(t) = due[t] + Slow(slip[t]) /\ Truth(t) \in Nat
          /\ Slow(slip[t]) \in Nat
      <4>1. slip[t] \in 0 .. MaxTime
        BY <1>4
      <4> QED BY <1>4, <4>1, SlowIs, 0 \in Nat
    <3>10. Truth(list[k])' + Uncounted' = due[t] + a - q
      <4>1. PICK v \in Nat : v = due[t]
        BY <3>9
      <4>2. Truth(list[k])' = v + a /\ Uncounted' = 0 - q
        BY <2>9, <3>6, <3>8, <4>1
      <4> QED BY <4>1, <4>2
    <3>11. TimeTo(list, f)[k] <= due[t] + a - q
      <4>1. PICK b \in Nat : b = Slow(slip[t])
        BY <3>9
      <4>2. PICK v \in Nat : v = due[t]
        BY <3>9
      <4>3. PICK y \in 0 .. MaxTime : y = TimeTo(list, f)[k]
        BY <3>2
      <4>4. y <= v + b /\ (a = b + q \/ a >= MaxTime + q)
        BY <3>2, <3>7, <3>9, <4>1, <4>2, <4>3
      <4>5. y <= v + a - q
        BY <1>4, <4>4
      <4> QED BY <4>2, <4>3, <4>5
    <3> QED BY <1>4, <3>2, <3>10, <3>11
  <2>11. Bounded' /\ Timely'
    BY <1>1, <2>1, <2>10 DEF Bounded, Timely
  <2> QED BY <1>3, <2>7, <2>8, <2>11 DEF TimerInv
<1> QED BY <1>5, <1>6

-----------------------------------------------------------------------------
(* The theorems *)

LEMMA InitHolds ==
    ASSUME Init
    PROVE  TimerInv
<1>1. list = <<>> /\ Len(list) = 0
    BY DEF Init
<1>2. MaxTime \in Nat /\ 0 \in 0 .. MaxTime /\ MaxCalls \in Nat /\ QueueLen \in Nat
    BY TimerAssumption
<1>3. list \in Seq(Timers) /\ IsInjective(list)
    BY <1>1 DEF IsInjective
<1>4. /\ Off \in [on : BOOLEAN, load : Counts, cnt : Counts] /\ ~ Off.on
      /\ Off.load = 0 /\ Off.cnt = 0
    BY <1>2, RunningIs
<1>5. TypeOK
  <2>1. left \in [Timers -> 0 .. MaxTime] /\ period \in [Timers -> Periods \cup {0}]
    BY <1>2 DEF Init
  <2>2. due \in [Timers -> 0 .. MaxTime] /\ slip \in [Timers -> 0 .. MaxTime]
    BY <1>2 DEF Init
  <2>3. since \in 0 .. MaxTime
    <3>1. since = 0 \/ since = MaxTime
      BY DEF Init
    <3> QED BY <1>2, <3>1
  <2>4. /\ interval \in 0 .. MaxTime /\ hw = Off /\ lost \in BOOLEAN
        /\ msgs = <<>> /\ events = 0 /\ calls \in 0 .. MaxCalls
    <3>1. interval = 0 /\ hw = Off /\ msgs = <<>> /\ events = 0 /\ calls = 0
      BY DEF Init
    <3>2. lost \in BOOLEAN
      BY DEF Init
    <3>3. interval \in 0 .. MaxTime /\ calls \in 0 .. MaxCalls
      BY <1>2, <3>1
    <3> QED BY <3>1, <3>2, <3>3
  <2>5. hw \in [on : BOOLEAN, load : Counts, cnt : Counts] /\ hw.cnt <= hw.load
    BY <1>4, <2>4
  <2>6. /\ pc = "idle" /\ who = NONE /\ active = FALSE /\ next = "return" /\ inCb = FALSE
    BY DEF Init
  <2>7. /\ msgs \in Seq({"high", "low"}) /\ Len(msgs) = 0
        /\ 0 \in Nat /\ events <= Len(msgs) /\ Len(msgs) <= QueueLen
    BY <1>2, <2>4
  <2> QED BY <1>2, <1>3, <2>1, <2>2, <2>3, <2>5, <2>6, <2>7, <2>4 DEF TypeOK
<1>6. Roles /\ Loaded /\ Armed
    BY <1>1, <1>4 DEF Init, Roles, Loaded, Armed
<1>7. Bounded /\ Timely
    BY <1>1 DEF Bounded, Timely
<1> QED BY <1>5, <1>6, <1>7 DEF TimerInv

LEMMA NextKeeps ==
    ASSUME TimerInv, [Next]_vars
    PROVE  TimerInv'
<1>1. CASE Tick
    BY <1>1, TickKeeps
<1>2. CASE Fire
    BY <1>2, FireKeeps
<1>3. CASE Call
    BY <1>3, CallKeeps
<1>4. CASE TaskStep
  <2>1. CASE RemoveSample \/ InsertSample
    BY <2>1, SampleKeeps
  <2>2. CASE ReadActive
    BY <2>2, ReadActiveKeeps
  <2>3. CASE RemoveEdit
    BY <2>3, RemoveEditKeeps
  <2>4. CASE InsertFirst
    BY <2>4, InsertFirstKeeps
  <2>5. CASE InsertEdit
    BY <2>5, InsertEditKeeps
  <2>6. CASE Expire
    BY <2>6, ExpireKeeps
  <2>7. CASE CallbackEnd
    BY <2>7, CallbackEndKeeps
  <2>8. CASE LowExpire
    BY <2>8, LowKeeps
  <2> QED BY <1>4, <2>1, <2>2, <2>3, <2>4, <2>5, <2>6, <2>7, <2>8 DEF TaskStep
<1>5. CASE UNCHANGED vars
  <2>1. /\ list' = list /\ left' = left /\ period' = period /\ interval' = interval
        /\ since' = since /\ hw' = hw /\ msgs' = msgs /\ events' = events /\ lost' = lost
        /\ pc' = pc /\ who' = who /\ active' = active /\ next' = next /\ inCb' = inCb /\ calls' = calls
        /\ due' = due /\ slip' = slip
    BY <1>5 DEF vars, task, queues
  <2>2. TypeOK'
    BY <2>1 DEF TimerInv, TypeOK
  <2>3. Roles'
    <3>1. InList(who)' <=> InList(who)
      BY <2>1 DEF InList
    <3> QED BY <2>1, <3>1 DEF TimerInv, Roles
  <2>4. (Sampled' <=> Sampled) /\ (Unseen' <=> Unseen) /\ (Woken => Woken')
    BY <2>1 DEF Sampled, Unseen, Woken
  <2> QED BY <2>1, <2>2, <2>3, <2>4, QuietKeeps
<1>6. CASE LowFire
    BY <1>6, LowKeeps
<1> QED BY <1>1, <1>2, <1>3, <1>4, <1>5, <1>6 DEF Next

LEMMA TimerInvHolds == Spec => []TimerInv
<1>1. Init => TimerInv
    BY InitHolds
<1>2. TimerInv /\ [Next]_vars => TimerInv'
    BY NextKeeps
<1> QED BY <1>1, <1>2, PTL DEF Spec

\* Every variable keeps its type: no time left is negative or longer than a
\* period, however often the elapsed time is taken off, and no timer is in
\* hp_timer_list twice.
THEOREM TimerTypes == Spec => []TypeOK
<1>1. TimerInv => TypeOK
    BY DEF TimerInv
<1> QED BY <1>1, TimerInvHolds, PTL

\* The list never stalls unless an interrupt is lost: as long as it is not empty,
\* the hardware timer runs, or its message is one of those the framework task will
\* be woken for, or the task is at work on the list.
THEOREM ListNeverStalls == Spec => []Armed
<1>1. TimerInv => Armed
    BY DEF TimerInv
<1> QED BY <1>1, TimerInvHolds, PTL

\* No timer is kept longer than it asked, but for the ticks a call did not see
\* and the padding of short periods, whatever is started, stopped and fired
\* around it.
THEOREM NeverKeptLate == Spec => []NeverLate
<1>1. ASSUME TimerInv PROVE NeverLate
  <2>1. SUFFICES ASSUME hw.on, ~ Sampled, NEW i \in DOMAIN list
                 PROVE  TimeTo(list, left)[i] - Elapsed <= due[list[i]] + slip[list[i]]
    BY DEF NeverLate
  <2>2. i \in 1 .. Len(list) /\ list # <<>>
    BY <1>1, <2>1, Facts
  <2>3. TimeTo(list, left)[i] <= Truth(list[i]) + Uncounted
    BY <1>1, <2>2 DEF TimerInv, Timely
  <2>4. Uncounted = Elapsed - Pad(interval)
    BY <1>1, <2>1, <2>2, UncountedIs
  <2>5. /\ TimeTo(list, left)[i] \in 0 .. MaxTime /\ Truth(list[i]) \in Nat /\ MaxTime \in Nat
        /\ interval \in 0 .. MaxTime /\ MinPeriod \in Nat
        /\ hw.load \in Nat /\ hw.cnt \in Nat /\ hw.cnt <= hw.load
        /\ due[list[i]] \in 0 .. MaxTime /\ slip[list[i]] \in 0 .. MaxTime
    BY <1>1, <2>2, Facts
  <2>6. Elapsed \in Nat
    BY <2>5 DEF Elapsed
  <2>7. Pad(interval) \in Nat
    <3>1. interval \in Int
      BY <2>5
    <3>2. Pad(interval) = IF MinPeriod > interval THEN MinPeriod - interval ELSE 0
      BY <3>1, PadIs
    <3> QED BY <2>5, <3>1, <3>2
  <2>8. TimeTo(list, left)[i] - Elapsed <= Truth(list[i])
    BY <2>3, <2>4, <2>5, <2>6, <2>7
  <2>9. CASE slip[list[i]] < MaxTime
    BY <2>8, <2>9 DEF Truth, Slow
  <2>10. CASE ~ (slip[list[i]] < MaxTime)
    BY <2>5, <2>6, <2>10
  <2> QED BY <2>9, <2>10
<1>2. TimerInv => NeverLate
    BY <1>1
<1> QED BY <1>2, TimerInvHolds, PTL

=============================================================================
