---------------------------- MODULE TimersProofs ----------------------------
(***************************************************************************)
(* Proofs about the timer list, for any number of sleeping threads and of  *)
(* driver timers, any durations and any tick.  The list keeps differences, *)
(* so when a timer fires is a sum over the timers before it: the first     *)
(* lemmas say what adding, removing and charging a timer do to those sums. *)
(***************************************************************************)
EXTENDS Timers, ListFacts

\* f[i] is the sum of the first i differences of q, for i up to m.
IsSum(f, q, e, m) ==
  /\ f \in [0 .. m -> Int]
  /\ f[0] = 0
  /\ \A i \in 1 .. m : f[i] = f[i - 1] + e[q[i]]

\* Times is what its recursive definition says it is.
LEMMA TimesFacts ==
  ASSUME NEW S, NEW q \in Seq(S), NEW e \in [S -> Int]
  PROVE  IsSum(Times(q, e), q, e, Len(q))
  <1> DEFINE n == Len(q)
  <1>1. n \in Nat /\ \A i \in 1 .. n : q[i] \in S /\ e[q[i]] \in Int  OBVIOUS
  <1> HIDE DEF n
  <1>2. \A m \in 0 .. n : \E f : IsSum(f, q, e, m)
    <2> DEFINE T == {m \in 0 .. n : ~\E f : IsSum(f, q, e, m)}
    <2> SUFFICES ASSUME T # {}  PROVE FALSE
      OBVIOUS
    <2>1. T \subseteq Nat  BY <1>1
    <2>2. PICK m \in T : \A y \in T : m <= y
      <3> HIDE DEF T
      <3>1. QED  BY Zenon, <2>1, LeastElement
    <2>3. m \in 0 .. n /\ ~\E f : IsSum(f, q, e, m)  OBVIOUS
    <2>4. CASE m = 0
      <3>1. IsSum([i \in 0 .. 0 |-> 0], q, e, 0)  BY DEF IsSum
      <3>2. QED  BY <2>3, <2>4, <3>1
    <2>5. CASE m # 0
      <3>1. m - 1 \in 0 .. n /\ m \in Nat /\ m >= 1 /\ m \in 1 .. n  BY <1>1, <2>3, <2>5
      <3>2. m - 1 \notin T  BY <2>2, <3>1
      <3>3. PICK f : IsSum(f, q, e, m - 1)  BY <3>1, <3>2
      <3> DEFINE g == [i \in 0 .. m |-> IF i = m THEN f[m - 1] + e[q[m]] ELSE f[i]]
      <3>4. f \in [0 .. m - 1 -> Int] /\ e[q[m]] \in Int  BY <1>1, <3>1, <3>3 DEF IsSum
      <3>5. g \in [0 .. m -> Int] /\ g[0] = 0
        <4>1. f[m - 1] \in Int /\ \A i \in 0 .. m : i # m => f[i] \in Int  BY <3>1, <3>4
        <4>2. f[0] = 0  BY <3>3 DEF IsSum
        <4>3. QED  BY <3>1, <3>4, <4>1, <4>2
      <3>6. ASSUME NEW i \in 1 .. m  PROVE g[i] = g[i - 1] + e[q[i]]
        <4>1. CASE i = m  BY <3>1, <4>1
        <4>2. CASE i # m
          <5>1. i \in 1 .. m - 1 /\ i - 1 # m /\ i - 1 \in 0 .. m  BY <3>1, <4>2
          <5>2. f[i] = f[i - 1] + e[q[i]]  BY <3>3, <5>1 DEF IsSum
          <5>3. QED  BY <4>2, <5>1, <5>2
        <4>3. QED  BY <4>1, <4>2
      <3>7. IsSum(g, q, e, m)  BY <3>5, <3>6 DEF IsSum
      <3>8. QED  BY <2>3, <3>7
    <2>6. QED  BY <2>4, <2>5
  <1>3. PICK f : IsSum(f, q, e, n)  BY <1>1, <1>2
  <1>4. f = [i \in 0 .. n |-> IF i = 0 THEN 0 ELSE f[i - 1] + e[q[i]]]
    <2>1. \A i \in 0 .. n : f[i] = IF i = 0 THEN 0 ELSE f[i - 1] + e[q[i]]  BY <1>1, <1>3 DEF IsSum
    <2>2. QED  BY <1>3, <2>1 DEF IsSum
  <1>5. Times(q, e) = [i \in 0 .. n |-> IF i = 0 THEN 0 ELSE Times(q, e)[i - 1] + e[q[i]]]
    BY <1>4 DEF Times, n
  <1>6. QED
    <2> DEFINE t == Times(q, e)
    <2>1. t = [i \in 0 .. n |-> IF i = 0 THEN 0 ELSE t[i - 1] + e[q[i]]]  BY <1>5
    <2> HIDE DEF t
    <2>2. t[0] = 0 /\ \A i \in 1 .. n : t[i] = t[i - 1] + e[q[i]]  BY <1>1, <2>1
    <2>3. \A i \in 0 .. n : t[i] \in Int
      <3> DEFINE T == {i \in 0 .. n : t[i] \notin Int}
      <3> SUFFICES ASSUME T # {}  PROVE FALSE
        OBVIOUS
      <3>1. T \subseteq Nat  BY <1>1
      <3>2. PICK m \in T : \A y \in T : m <= y
        <4> HIDE DEF T
        <4>1. QED  BY Zenon, <3>1, LeastElement
      <3>3. m \in 0 .. n /\ t[m] \notin Int  OBVIOUS
      <3>4. m # 0  BY <2>2, <3>3
      <3>5. m \in 1 .. n /\ m - 1 \in 0 .. n /\ m - 1 < m  BY <1>1, <3>3, <3>4
      <3>6. m - 1 \notin T  BY <3>2, <3>5
      <3>7. t[m - 1] \in Int /\ e[q[m]] \in Int  BY <1>1, <3>5, <3>6
      <3>8. QED  BY <2>2, <3>3, <3>5, <3>7
    <2>4. t \in [0 .. n -> Int]  BY <2>1, <2>3
    <2>5. IsSum(t, q, e, n)  BY <2>2, <2>4 DEF IsSum
    <2>6. QED  BY <2>5 DEF t, n

\* There is one function of sums only.
LEMMA TimesUnique ==
  ASSUME NEW S, NEW q \in Seq(S), NEW e \in [S -> Int], NEW h, IsSum(h, q, e, Len(q))
  PROVE  Times(q, e) = h
  <1>1. PICK n \in Nat : n = Len(q)  OBVIOUS
  <1>2. PICK f : f = Times(q, e)  OBVIOUS
  <1>3. f \in [0 .. n -> Int] /\ f[0] = 0 /\ \A i \in 1 .. n : f[i] = f[i - 1] + e[q[i]]
    BY <1>1, <1>2, TimesFacts DEF IsSum
  <1>4. h \in [0 .. n -> Int] /\ h[0] = 0 /\ \A i \in 1 .. n : h[i] = h[i - 1] + e[q[i]]
    BY <1>1 DEF IsSum
  <1>5. \A i \in 0 .. n : f[i] = h[i]
    <2> DEFINE T == {i \in 0 .. n : f[i] # h[i]}
    <2> SUFFICES ASSUME T # {}  PROVE FALSE
      OBVIOUS
    <2>1. T \subseteq Nat  OBVIOUS
    <2>2. PICK k \in T : \A y \in T : k <= y
      <3> HIDE DEF T
      <3>1. QED  BY Zenon, <2>1, LeastElement
    <2>3. k \in 0 .. n /\ f[k] # h[k]  OBVIOUS
    <2>4. k # 0  BY <1>3, <1>4, <2>3
    <2>5. k \in 1 .. n /\ k - 1 \in 0 .. n /\ ~(k <= k - 1)  BY <2>3, <2>4
    <2>6. k - 1 \notin T
      <3> HIDE DEF T
      <3>1. QED  BY <2>2, <2>5
    <2>7. f[k - 1] = h[k - 1]  BY <2>5, <2>6
    <2>8. f[k] = f[k - 1] + e[q[k]] /\ h[k] = h[k - 1] + e[q[k]]  BY <2>5, <1>3, <1>4
    <2>9. QED  BY <2>3, <2>7, <2>8
  <1>6. QED  BY <1>2, <1>3, <1>4, <1>5

\* Sums of differences that are not negative are not negative.
LEMMA SumsNatural ==
  ASSUME NEW q, NEW e, NEW n \in Nat, NEW f, IsSum(f, q, e, n), \A i \in 1 .. n : e[q[i]] \in Nat
  PROVE  \A i \in 0 .. n : f[i] >= 0
  <1>1. f \in [0 .. n -> Int] /\ f[0] = 0 /\ \A i \in 1 .. n : f[i] = f[i - 1] + e[q[i]]  BY DEF IsSum
  <1> DEFINE T == {i \in 0 .. n : ~(f[i] >= 0)}
  <1> SUFFICES ASSUME T # {}  PROVE FALSE
    OBVIOUS
  <1>2. T \subseteq Nat  OBVIOUS
  <1>3. PICK k \in T : \A y \in T : k <= y
    <2> HIDE DEF T
    <2>1. QED  BY Zenon, <1>2, LeastElement
  <1>4. k \in 0 .. n /\ ~(f[k] >= 0)  OBVIOUS
  <1>5. k # 0  BY <1>1, <1>4
  <1>6. k \in 1 .. n /\ k - 1 \in 0 .. n /\ k - 1 < k  BY <1>4, <1>5
  <1>7. k - 1 \notin T  BY <1>3, <1>6
  <1>8. f[k - 1] >= 0 /\ f[k - 1] \in Int /\ e[q[k]] \in Nat  BY <1>1, <1>6, <1>7
  <1>9. QED  BY <1>1, <1>4, <1>6, <1>8

\* How the sums f of a list of n timers become the sums g when a timer is
\* inserted d after the timer before position k; when the first timer fires
\* with c left, or is charged c; and when the timer at position k is removed.
SumsInserted(f, g, n, k, d) ==
  /\ \A i \in 0 .. k - 1 : g[i] = f[i]
  /\ g[k] = f[k - 1] + d
  /\ \A i \in k .. n : g[i + 1] = f[i]

SumsFired(f, g, n, c) == \A i \in 0 .. n - 1 : g[i] = f[i + 1] - c

SumsCharged(f, g, n, c) == \A i \in 1 .. n : g[i] = f[i] - c

SumsRemoved(f, g, n, k) ==
  /\ \A i \in 0 .. k - 1 : g[i] = f[i]
  /\ \A i \in k .. n - 1 : g[i] = f[i + 1]

\* TimerAdd: the timers before the new one and those behind it keep their
\* times, and the new one fires d after the one before it.
LEMMA InsertTimes ==
  ASSUME NEW S, NEW q \in Seq(S), IsInjective(q), NEW e \in [S -> Int],
         NEW t \in S, t \notin ToSet(q), NEW k \in 1 .. Len(q) + 1, NEW d \in Int,
         NEW r, r = InsertAt(q, k, t),
         NEW x, x = [u \in S |-> IF u = t THEN d
                                 ELSE IF k <= Len(q) /\ u = q[k] THEN e[u] - d
                                 ELSE e[u]]
  PROVE  SumsInserted(Times(q, e), Times(r, x), Len(q), k, d)
  <1>1. PICK n \in Nat : n = Len(q) /\ DOMAIN q = 1 .. n /\ \A i \in 1 .. n : q[i] \in S  OBVIOUS
  <1>2. k \in Int /\ k >= 1 /\ k <= n + 1  BY <1>1
  <1>3. /\ r \in Seq(S) /\ Len(r) = n + 1
        /\ \A j \in 1 .. n + 1 : r[j] = IF j < k THEN q[j] ELSE IF j = k THEN t ELSE q[j - 1]
    <2>1. r \in Seq(S) /\ IsInserted(r, q, k, t)  BY InsertAtFacts
    <2>2. Len(r) = n + 1 /\ (\A j \in 1 .. k - 1 : r[j] = q[j]) /\ r[k] = t  BY Zenon, <1>1, <2>1 DEF IsInserted
    <2>3. \A j \in k .. Len(q) : r[j + 1] = q[j]  BY Zenon, <2>1 DEF IsInserted
    <2>4. ASSUME NEW j \in 1 .. n + 1, j > k  PROVE r[j] = q[j - 1]
      <3>1. j - 1 \in k .. Len(q) /\ j - 1 + 1 = j  BY <1>1, <1>2, <2>4
      <3>2. QED  BY <2>3, <3>1
    <2>5. QED  BY <1>2, <2>1, <2>2, <2>4
  <1>4. x \in [S -> Int]  OBVIOUS
  <1>5. PICK f : f = Times(q, e)  OBVIOUS
  <1>6. f \in [0 .. n -> Int] /\ f[0] = 0 /\ \A i \in 1 .. n : f[i] = f[i - 1] + e[q[i]]
    <2>1. IsSum(f, q, e, Len(q))  BY Zenon, <1>5, TimesFacts
    <2>2. QED  BY Zenon, <1>1, <2>1 DEF IsSum
  <1>7. \A i \in 1 .. n : q[i] # t /\ (k <= n /\ i # k => q[i] # q[k])
    <2>1. \A i \in 1 .. n : q[i] # t  BY <1>1 DEF ToSet
    <2>2. ASSUME NEW i \in 1 .. n, k <= n, q[i] = q[k]  PROVE i = k
      <3>1. k \in DOMAIN q /\ i \in DOMAIN q  BY <1>1, <1>2, <2>2
      <3>2. QED  BY Zenon, <2>2, <3>1 DEF IsInjective
    <2>3. QED  BY <2>1, <2>2
  <1>8. \A i \in 1 .. n : e[q[i]] \in Int /\ x[q[i]] = IF i = k THEN e[q[i]] - d ELSE e[q[i]]
    BY <1>1, <1>2, <1>7
  <1>9. x[t] = d  OBVIOUS
  <1> DEFINE h == [i \in 0 .. n + 1 |-> IF i < k THEN f[i] ELSE IF i = k THEN f[k - 1] + d ELSE f[i - 1]]
  <1>10. ASSUME NEW i \in 1 .. n + 1  PROVE h[i] = h[i - 1] + x[r[i]]
    <2>1. i \in 0 .. n + 1 /\ i - 1 \in 0 .. n + 1  OBVIOUS
    <2>2. CASE i < k
      <3>1. h[i] = f[i] /\ h[i - 1] = f[i - 1]  BY <2>1, <2>2, <1>2
      <3>2. i \in 1 .. n /\ r[i] = q[i]  BY <2>2, <1>2, <1>3
      <3>3. x[q[i]] = e[q[i]]  BY <3>2, <2>2, <1>2, <1>8
      <3>4. f[i] = f[i - 1] + e[q[i]]  BY <3>2, <1>6
      <3>5. QED  BY Zenon, <3>1, <3>2, <3>3, <3>4
    <2>3. CASE i = k
      <3>1. h[i] = f[k - 1] + d /\ h[i - 1] = f[k - 1]  BY <2>1, <2>3, <1>2
      <3>2. r[i] = t  BY <2>3, <1>2, <1>3
      <3>3. QED  BY Zenon, <3>1, <3>2, <1>9
    <2>4. CASE i = k + 1
      <3>1. h[i] = f[k] /\ h[i - 1] = f[k - 1] + d
        <4>1. i - 1 = k /\ ~(i < k) /\ i # k /\ ~(k < k)  BY <2>4, <1>2
        <4>2. QED  BY <2>1, <4>1
      <3>2. r[i] = q[k] /\ k \in 1 .. n
        <4>1. i - 1 = k /\ ~(i < k) /\ i # k /\ k \in 1 .. n  BY <2>4, <1>2
        <4>2. QED  BY <4>1, <1>3
      <3>3. x[q[k]] = e[q[k]] - d /\ e[q[k]] \in Int  BY <3>2, <1>8
      <3>4. f[k] = f[k - 1] + e[q[k]] /\ f[k - 1] \in Int
        <4>1. k - 1 \in 0 .. n  BY <3>2
        <4>2. f[k - 1] \in Int  BY <4>1, <1>6
        <4>3. QED  BY Zenon, <3>2, <4>2, <1>6
      <3>5. PICK u \in Int : u = e[q[k]]  BY <3>3
      <3>6. PICK v \in Int : v = f[k - 1]  BY <3>4
      <3>7. v + u = v + d + (u - d)  OBVIOUS
      <3>8. QED  BY Zenon, <3>1, <3>2, <3>3, <3>4, <3>5, <3>6, <3>7
    <2>5. CASE i > k + 1
      <3>1. i - 1 \in 1 .. n /\ ~(i < k) /\ i # k /\ ~(i - 1 < k) /\ i - 1 # k  BY <2>5, <1>2
      <3>2. h[i] = f[i - 1] /\ h[i - 1] = f[i - 1 - 1]  BY <2>1, <3>1
      <3>3. r[i] = q[i - 1]  BY <3>1, <1>3
      <3>4. x[q[i - 1]] = e[q[i - 1]]  BY Zenon, <3>1, <1>8
      <3>5. f[i - 1] = f[i - 1 - 1] + e[q[i - 1]]  BY Zenon, <3>1, <1>6
      <3>6. QED  BY Zenon, <3>2, <3>3, <3>4, <3>5
    <2>6. QED  BY <2>2, <2>3, <2>4, <2>5, <1>2
  <1>11. h \in [0 .. n + 1 -> Int] /\ h[0] = 0
    <2>1. ASSUME NEW i \in 0 .. n + 1  PROVE h[i] \in Int
      <3>1. CASE i < k  BY <3>1, <1>2, <1>6
      <3>2. CASE i = k
        <4>1. k - 1 \in 0 .. n  BY <1>2
        <4>2. QED  BY <3>2, <4>1, <1>6
      <3>3. CASE i > k
        <4>1. i - 1 \in 0 .. n  BY <3>3, <1>2
        <4>2. QED  BY <3>3, <4>1, <1>2, <1>6
      <3>4. QED  BY <3>1, <3>2, <3>3, <1>2
    <2>2. h[0] = f[0]  BY <1>2
    <2>3. QED  BY <2>1, <2>2, <1>6
  <1>12. Times(r, x) = h
    <2> HIDE DEF h
    <2>1. IsSum(h, r, x, n + 1)  BY <1>10, <1>11 DEF IsSum
    <2>2. IsSum(h, r, x, Len(r))  BY Zenon, <2>1, <1>3
    <2>3. QED  BY Zenon, <2>2, <1>3, <1>4, TimesUnique
  <1>13. \A i \in 0 .. k - 1 : h[i] = f[i]  BY <1>2
  <1>14. h[k] = f[k - 1] + d  BY <1>2
  <1>15. ASSUME NEW i \in k .. n  PROVE h[i + 1] = f[i]
    <2>1. i + 1 \in 0 .. n + 1 /\ ~(i + 1 < k) /\ i + 1 # k /\ i + 1 - 1 = i  BY <1>2
    <2>2. QED  BY <2>1
  <1>16. QED
    <2> HIDE DEF h
    <2>1. SumsInserted(f, h, n, k, d)  BY <1>13, <1>14, <1>15 DEF SumsInserted
    <2>2. QED  BY Zenon, <2>1, <1>1, <1>5, <1>12

\* TimerRemove: the timers before the removed one and those behind it keep
\* their times.
LEMMA RemoveTimes ==
  ASSUME NEW S, NEW q \in Seq(S), IsInjective(q), NEW e \in [S -> Int], NEW k \in DOMAIN q,
         NEW r, r = RemoveAt(q, k),
         NEW x, x = IF k < Len(q) THEN [e EXCEPT ![q[k + 1]] = @ + e[q[k]]] ELSE e
  PROVE  SumsRemoved(Times(q, e), Times(r, x), Len(q), k)
  <1>1. PICK n \in Nat : n = Len(q) /\ DOMAIN q = 1 .. n /\ \A i \in 1 .. n : q[i] \in S  OBVIOUS
  <1>2. k \in Int /\ k >= 1 /\ k <= n /\ n - 1 \in Nat  BY <1>1
  <1>3. /\ r \in Seq(S) /\ Len(r) = n - 1
        /\ \A j \in 1 .. k - 1 : r[j] = q[j]
        /\ \A j \in k .. n - 1 : r[j] = q[j + 1]
    <2>1. r \in Seq(S) /\ IsRemoved(r, q, k)  BY RemoveAtFacts
    <2>2. QED  BY Zenon, <1>1, <2>1 DEF IsRemoved
  <1>4. PICK f : f = Times(q, e)  OBVIOUS
  <1>5. f \in [0 .. n -> Int] /\ f[0] = 0 /\ \A i \in 1 .. n : f[i] = f[i - 1] + e[q[i]]
    <2>1. IsSum(f, q, e, Len(q))  BY Zenon, <1>4, TimesFacts
    <2>2. QED  BY Zenon, <1>1, <2>1 DEF IsSum
  <1>6. \A i \in 1 .. n : e[q[i]] \in Int  BY <1>1
  <1>7. \A i, j \in 1 .. n : i # j => q[i] # q[j]  BY Zenon, <1>1 DEF IsInjective
  <1>8. x \in [S -> Int] /\ \A i \in 1 .. n : x[q[i]] = IF i = k + 1 THEN e[q[k + 1]] + e[q[k]] ELSE e[q[i]]
    <2>1. CASE k < n
      <3>1. k + 1 \in 1 .. n /\ k \in 1 .. n  BY <2>1, <1>2
      <3>2. x = [e EXCEPT ![q[k + 1]] = @ + e[q[k]]] /\ q[k + 1] \in S  BY <2>1, <3>1, <1>1
      <3>3. e[q[k + 1]] + e[q[k]] \in Int  BY <3>1, <1>6
      <3>4. x \in [S -> Int] /\ x[q[k + 1]] = e[q[k + 1]] + e[q[k]]  BY <3>2, <3>3
      <3>5. ASSUME NEW i \in 1 .. n, i # k + 1  PROVE x[q[i]] = e[q[i]]
        <4>1. q[i] # q[k + 1] /\ q[i] \in S  BY Zenon, <3>1, <3>5, <1>1, <1>7
        <4>2. QED  BY <3>2, <4>1
      <3>6. QED  BY <3>4, <3>5
    <2>2. CASE ~(k < n)  BY <2>2, <1>1, <1>2
    <2>3. QED  BY <2>1, <2>2
  <1> DEFINE h == [i \in 0 .. n - 1 |-> IF i < k THEN f[i] ELSE f[i + 1]]
  <1>9. ASSUME NEW i \in 1 .. n - 1  PROVE h[i] = h[i - 1] + x[r[i]]
    <2>1. i \in 0 .. n - 1 /\ i - 1 \in 0 .. n - 1 /\ i \in 1 .. n  BY <1>2
    <2>2. CASE i < k
      <3>1. h[i] = f[i] /\ h[i - 1] = f[i - 1]  BY <2>1, <2>2, <1>2
      <3>2. i \in 1 .. k - 1 /\ i # k + 1  BY <2>2, <1>2
      <3>3. r[i] = q[i] /\ x[q[i]] = e[q[i]]  BY <2>1, <3>2, <1>3, <1>8
      <3>4. f[i] = f[i - 1] + e[q[i]]  BY Zenon, <2>1, <1>5
      <3>5. QED  BY Zenon, <3>1, <3>3, <3>4
    <2>3. CASE i = k
      <3>1. PICK j \in 1 .. n : j = k + 1  BY <2>3, <1>2
      <3>2. k \in 1 .. n /\ k - 1 \in 0 .. n /\ j - 1 = k /\ k \in k .. n - 1  BY <2>3, <3>1, <1>2
      <3>3. h[i] = f[j]
        <4>1. h[i] = f[i + 1]  BY <2>1, <2>3
        <4>2. QED  BY <2>3, <3>1, <4>1
      <3>4. h[i - 1] = f[k - 1]  BY <2>1, <2>3, <1>2
      <3>5. r[i] = q[j]  BY <2>3, <3>1, <3>2, <1>3
      <3>6. x[q[j]] = e[q[j]] + e[q[k]]  BY <3>1, <1>8
      <3>7. f[j] = f[j - 1] + e[q[j]]  BY Zenon, <1>5
      <3>8. f[k] = f[k - 1] + e[q[k]]  BY Zenon, <3>2, <1>5
      <3>9. PICK u \in Int : u = e[q[k]]  BY <3>2, <1>6
      <3>10. PICK v \in Int : v = f[k - 1]  BY <3>2, <1>5
      <3>11. PICK w \in Int : w = e[q[j]]  BY <1>6
      <3> HIDE DEF h
      <3>12. f[j] = v + u + w  BY <3>2, <3>7, <3>8, <3>9, <3>10, <3>11
      <3>13. h[i] = v + u + w /\ h[i - 1] = v /\ x[r[i]] = w + u  BY <3>3, <3>4, <3>5, <3>6, <3>9, <3>10, <3>11, <3>12
      <3>14. QED  BY <3>13
    <2>4. CASE i > k
      <3>1. PICK j \in 1 .. n : j = i + 1 /\ j # k + 1 /\ j - 1 = i  BY <2>4, <1>2
      <3>2. ~(i < k) /\ ~(i - 1 < k) /\ i \in k .. n - 1 /\ i - 1 + 1 = i  BY <2>4, <1>2
      <3>3. h[i] = f[j]
        <4>1. h[i] = f[i + 1]  BY <2>1, <3>2
        <4>2. QED  BY <3>1, <4>1
      <3>4. h[i - 1] = f[i]  BY <2>1, <3>2
      <3>5. r[i] = q[j]  BY <3>1, <3>2, <1>3
      <3>6. x[q[j]] = e[q[j]]  BY <3>1, <1>8
      <3>7. f[j] = f[j - 1] + e[q[j]]  BY Zenon, <1>5
      <3> HIDE DEF h
      <3>8. QED  BY <3>1, <3>3, <3>4, <3>5, <3>6, <3>7
    <2>5. QED  BY <2>2, <2>3, <2>4, <1>2
  <1>10. h \in [0 .. n - 1 -> Int] /\ h[0] = 0
    <2>1. ASSUME NEW i \in 0 .. n - 1  PROVE h[i] \in Int
      <3>1. i \in 0 .. n /\ i + 1 \in 0 .. n  BY <1>2
      <3>2. f[i] \in Int /\ f[i + 1] \in Int  BY <3>1, <1>5
      <3>3. QED  BY <3>2
    <2>2. h[0] = f[0]  BY <1>2
    <2>3. QED  BY <2>1, <2>2, <1>5
  <1>11. Times(r, x) = h
    <2> HIDE DEF h
    <2>1. IsSum(h, r, x, n - 1)  BY <1>9, <1>10 DEF IsSum
    <2>2. IsSum(h, r, x, Len(r))  BY Zenon, <2>1, <1>3
    <2>3. QED  BY Zenon, <2>2, <1>3, <1>8, TimesUnique
  <1>12. ASSUME NEW i \in 0 .. k - 1  PROVE h[i] = f[i]
    <2>1. i \in 0 .. n - 1 /\ i < k  BY <1>2
    <2>2. QED  BY <2>1
  <1>13. \A i \in k .. n - 1 : h[i] = f[i + 1]  BY <1>2
  <1>14. QED
    <2> HIDE DEF h
    <2>1. SumsRemoved(f, h, n, k)  BY <1>12, <1>13 DEF SumsRemoved
    <2>2. QED  BY Zenon, <2>1, <1>1, <1>4, <1>11

\* UpdateTimers, when the first timer fires: the others have less to wait by
\* what the first one still had.
LEMMA TailTimes ==
  ASSUME NEW S, NEW q \in Seq(S), q # <<>>, NEW e \in [S -> Int],
         NEW x \in [S -> Int], \A i \in 2 .. Len(q) : x[q[i]] = e[q[i]]
  PROVE  SumsFired(Times(q, e), Times(Tail(q), x), Len(q), e[q[1]])
  <1>1. PICK n \in Nat : n = Len(q) /\ \A i \in 1 .. n : q[i] \in S  OBVIOUS
  <1>2. n >= 1 /\ n - 1 \in Nat  BY <1>1
  <1>3. PICK r : r = Tail(q)  OBVIOUS
  <1>4. r \in Seq(S) /\ Len(r) = n - 1 /\ \A j \in 1 .. n - 1 : r[j] = q[j + 1]  BY <1>1, <1>3
  <1>5. PICK f : f = Times(q, e)  OBVIOUS
  <1>6. f \in [0 .. n -> Int] /\ f[0] = 0 /\ \A i \in 1 .. n : f[i] = f[i - 1] + e[q[i]]
    <2>1. IsSum(f, q, e, Len(q))  BY Zenon, <1>5, TimesFacts
    <2>2. QED  BY Zenon, <1>1, <2>1 DEF IsSum
  <1>7. \A i \in 1 .. n : e[q[i]] \in Int  BY <1>1
  <1>8. PICK c \in Int : c = e[q[1]]  BY <1>2, <1>7
  <1> DEFINE h == [i \in 0 .. n - 1 |-> f[i + 1] - c]
  <1>9. ASSUME NEW i \in 1 .. n - 1  PROVE h[i] = h[i - 1] + x[r[i]]
    <2>1. PICK j \in 1 .. n : j = i + 1 /\ j - 1 = i /\ j \in 2 .. n  BY <1>2
    <2>2. i \in 0 .. n - 1 /\ i - 1 \in 0 .. n - 1 /\ i - 1 + 1 = i /\ i \in 0 .. n  BY <1>2
    <2>3. h[i] = f[j] - c /\ h[i - 1] = f[i] - c  BY <2>1, <2>2
    <2>4. r[i] = q[j] /\ x[q[j]] = e[q[j]]  BY <2>1, <1>1, <1>4
    <2>5. f[j] = f[j - 1] + e[q[j]]  BY Zenon, <1>6
    <2>6. PICK u \in Int : u = e[q[j]]  BY <1>7
    <2>7. PICK v \in Int : v = f[i]  BY <2>2, <1>6
    <2> HIDE DEF h
    <2>8. f[j] = v + u  BY <2>1, <2>5, <2>6, <2>7
    <2>9. h[i] = v + u - c /\ h[i - 1] = v - c /\ x[r[i]] = u  BY <2>3, <2>4, <2>6, <2>7, <2>8
    <2>10. QED  BY <2>9
  <1>10. h \in [0 .. n - 1 -> Int] /\ h[0] = 0
    <2>1. ASSUME NEW i \in 0 .. n - 1  PROVE h[i] \in Int
      <3>1. f[i + 1] \in Int  BY <1>2, <1>6
      <3>2. QED  BY <3>1
    <2>2. f[1] = f[1 - 1] + e[q[1]] /\ 1 - 1 = 0  BY <1>2, <1>6
    <2>3. f[1] = 0 + c  BY Zenon, <2>2, <1>6, <1>8
    <2>4. 0 + 1 = 1 /\ 0 + c - c = 0 /\ 0 \in 0 .. n - 1  BY <1>2
    <2>5. h[0] = 0  BY <2>3, <2>4
    <2>6. QED  BY <2>1, <2>5
  <1>11. Times(r, x) = h
    <2> HIDE DEF h
    <2>1. IsSum(h, r, x, n - 1)  BY <1>9, <1>10 DEF IsSum
    <2>2. IsSum(h, r, x, Len(r))  BY Zenon, <2>1, <1>4
    <2>3. QED  BY Zenon, <2>2, <1>4, TimesUnique
  <1>12. \A i \in 0 .. n - 1 : h[i] = f[i + 1] - c  OBVIOUS
  <1>13. QED
    <2> HIDE DEF h
    <2>1. SumsFired(f, h, n, c)  BY Zenon, <1>12 DEF SumsFired
    <2>2. QED  BY Zenon, <2>1, <1>1, <1>3, <1>5, <1>8, <1>11

\* UpdateTimers, when it does not fire: every timer has c less to wait.
LEMMA ChargeTimes ==
  ASSUME NEW S, NEW q \in Seq(S), q # <<>>, NEW e \in [S -> Int], NEW c \in Int,
         NEW x \in [S -> Int], x[q[1]] = e[q[1]] - c, \A i \in 2 .. Len(q) : x[q[i]] = e[q[i]]
  PROVE  SumsCharged(Times(q, e), Times(q, x), Len(q), c)
  <1>1. PICK n \in Nat : n = Len(q) /\ \A i \in 1 .. n : q[i] \in S  OBVIOUS
  <1>2. PICK f : f = Times(q, e)  OBVIOUS
  <1>3. f \in [0 .. n -> Int] /\ f[0] = 0 /\ \A i \in 1 .. n : f[i] = f[i - 1] + e[q[i]]
    <2>1. IsSum(f, q, e, Len(q))  BY Zenon, <1>2, TimesFacts
    <2>2. QED  BY Zenon, <1>1, <2>1 DEF IsSum
  <1>4. \A i \in 1 .. n : e[q[i]] \in Int  BY <1>1
  <1> DEFINE h == [i \in 0 .. n |-> IF i = 0 THEN 0 ELSE f[i] - c]
  <1>5. ASSUME NEW i \in 1 .. n  PROVE h[i] = h[i - 1] + x[q[i]]
    <2>1. f[i] = f[i - 1] + e[q[i]]  BY Zenon, <1>3
    <2>2. PICK u \in Int : u = e[q[i]]  BY <1>4
    <2>3. CASE i = 1
      <3>1. h[i] = f[1] - c /\ h[i - 1] = 0 /\ 1 - 1 = 0  BY <2>3
      <3>2. f[1] = 0 + u /\ x[q[1]] = u - c  BY <2>1, <2>2, <2>3, <1>3
      <3> HIDE DEF h
      <3>3. QED  BY <2>3, <3>1, <3>2
    <2>4. CASE i # 1
      <3>1. i \in 2 .. n /\ i - 1 \in 0 .. n /\ i - 1 # 0  BY <2>4
      <3>2. h[i] = f[i] - c /\ h[i - 1] = f[i - 1] - c  BY <3>1
      <3>3. x[q[i]] = u  BY Zenon, <2>2, <3>1, <1>1
      <3>4. PICK v \in Int : v = f[i - 1]  BY <3>1, <1>3
      <3> HIDE DEF h
      <3>5. h[i] = v + u - c /\ h[i - 1] = v - c  BY <2>1, <2>2, <3>2, <3>4
      <3>6. QED  BY <3>3, <3>5
    <2>5. QED  BY <2>3, <2>4
  <1>6. h \in [0 .. n -> Int] /\ h[0] = 0  BY <1>3
  <1>7. Times(q, x) = h
    <2> HIDE DEF h
    <2>1. IsSum(h, q, x, n)  BY <1>5, <1>6 DEF IsSum
    <2>2. IsSum(h, q, x, Len(q))  BY Zenon, <2>1, <1>1
    <2>3. QED  BY Zenon, <2>2, TimesUnique
  <1>8. \A i \in 1 .. n : h[i] = f[i] - c  OBVIOUS
  <1>9. QED
    <2> HIDE DEF h
    <2>1. SumsCharged(f, h, n, c)  BY Zenon, <1>8 DEF SumsCharged
    <2>2. QED  BY Zenon, <2>1, <1>1, <1>2, <1>7

\* A timer that is in both lists has the same time in both.
Keeps(q, e, r, x) == \A i \in DOMAIN q, j \in DOMAIN r : q[i] = r[j] => Times(r, x)[j] = Times(q, e)[i]

\* What TimerAdd does to a list.
IsAdded(q, e, t, k, d, r, x) ==
  /\ IsInjective(r) /\ ToSet(r) = ToSet(q) \cup {t}
  /\ k \in DOMAIN r /\ r[k] = t
  /\ Times(r, x)[k] = Times(q, e)[k - 1] + d
  /\ Keeps(q, e, r, x)

\* TimerAdd puts the timer into the list at its time and keeps the times of the
\* others.
LEMMA InsertKeeps ==
  ASSUME NEW S, NEW q \in Seq(S), IsInjective(q), NEW e \in [S -> Int],
         NEW t \in S, t \notin ToSet(q), NEW k \in 1 .. Len(q) + 1, NEW d \in Int,
         NEW r, r = InsertAt(q, k, t),
         NEW x, x = [u \in S |-> IF u = t THEN d
                                 ELSE IF k <= Len(q) /\ u = q[k] THEN e[u] - d
                                 ELSE e[u]]
  PROVE  r \in Seq(S) /\ IsAdded(q, e, t, k, d, r, x)
  <1>1. PICK n \in Nat : n = Len(q) /\ DOMAIN q = 1 .. n  OBVIOUS
  <1>2. r \in Seq(S) /\ IsInserted(r, q, k, t)  BY InsertAtFacts
  <1>3. ToSet(r) = ToSet(q) \cup {t}  BY InsertAtFacts
  <1>4. IsInjective(r)  BY InsertAtFacts
  <1>5. Len(r) = n + 1 /\ (\A j \in 1 .. k - 1 : r[j] = q[j]) /\ r[k] = t /\ \A j \in k .. n : r[j + 1] = q[j]
    BY Zenon, <1>1, <1>2 DEF IsInserted
  <1>6. DOMAIN r = 1 .. n + 1 /\ k \in 1 .. n + 1 /\ k \in Int  BY <1>1, <1>2, <1>5
  <1>7. SumsInserted(Times(q, e), Times(r, x), n, k, d)
    <2>1. SumsInserted(Times(q, e), Times(r, x), Len(q), k, d)  BY InsertTimes
    <2>2. QED  BY Zenon, <1>1, <2>1
  <1>8. /\ \A i \in 0 .. k - 1 : Times(r, x)[i] = Times(q, e)[i]
        /\ Times(r, x)[k] = Times(q, e)[k - 1] + d
        /\ \A i \in k .. n : Times(r, x)[i + 1] = Times(q, e)[i]
    BY Zenon, <1>7 DEF SumsInserted
  <1>9. ASSUME NEW i \in DOMAIN q, NEW j \in DOMAIN r, q[i] = r[j]  PROVE Times(r, x)[j] = Times(q, e)[i]
    <2>1. i \in 1 .. n  BY <1>1
    <2>2. CASE i < k
      <3>1. i \in 1 .. k - 1 /\ i \in 0 .. k - 1 /\ i \in DOMAIN r  BY <2>1, <2>2, <1>6
      <3>2. r[i] = r[j]  BY <3>1, <1>5, <1>9
      <3>3. i = j  BY Zenon, <3>1, <3>2, <1>4 DEF IsInjective
      <3>4. QED  BY Zenon, <3>1, <3>3, <1>8
    <2>3. CASE ~(i < k)
      <3>1. i \in k .. n /\ i + 1 \in DOMAIN r  BY <2>1, <2>3, <1>6
      <3>2. r[i + 1] = r[j]  BY <3>1, <1>5, <1>9
      <3>3. i + 1 = j  BY Zenon, <3>1, <3>2, <1>4 DEF IsInjective
      <3>4. QED  BY Zenon, <3>1, <3>3, <1>8
    <2>4. QED  BY <2>2, <2>3
  <1>10. QED  BY <1>2, <1>3, <1>4, <1>5, <1>6, <1>8, <1>9 DEF Keeps, IsAdded

\* TimerRemove keeps the times of the timers that stay in the list.
LEMMA RemoveKeeps ==
  ASSUME NEW S, NEW q \in Seq(S), IsInjective(q), NEW e \in [S -> Int], NEW k \in DOMAIN q,
         NEW r, r = RemoveAt(q, k),
         NEW x, x = IF k < Len(q) THEN [e EXCEPT ![q[k + 1]] = @ + e[q[k]]] ELSE e
  PROVE  /\ r \in Seq(S) /\ IsInjective(r) /\ ToSet(r) = ToSet(q) \ {q[k]}
         /\ Keeps(q, e, r, x)
  <1>1. PICK n \in Nat : n = Len(q) /\ DOMAIN q = 1 .. n  OBVIOUS
  <1>2. r \in Seq(S) /\ IsRemoved(r, q, k)  BY RemoveAtFacts
  <1>3. IsInjective(r) /\ ToSet(r) = ToSet(q) \ {q[k]}  BY RemoveAtFacts
  <1>4. Len(r) = n - 1 /\ (\A j \in 1 .. k - 1 : r[j] = q[j]) /\ \A j \in k .. n - 1 : r[j] = q[j + 1]
    BY Zenon, <1>1, <1>2 DEF IsRemoved
  <1>5. DOMAIN r = 1 .. n - 1 /\ k \in 1 .. n /\ k \in Int  BY <1>1, <1>2, <1>4
  <1>6. SumsRemoved(Times(q, e), Times(r, x), n, k)
    <2>1. SumsRemoved(Times(q, e), Times(r, x), Len(q), k)  BY RemoveTimes
    <2>2. QED  BY Zenon, <1>1, <2>1
  <1>7. /\ \A i \in 0 .. k - 1 : Times(r, x)[i] = Times(q, e)[i]
        /\ \A i \in k .. n - 1 : Times(r, x)[i] = Times(q, e)[i + 1]
    BY Zenon, <1>6 DEF SumsRemoved
  <1>8. ASSUME NEW i \in DOMAIN q, NEW j \in DOMAIN r, q[i] = r[j]  PROVE Times(r, x)[j] = Times(q, e)[i]
    <2>1. j \in 1 .. n - 1  BY <1>5
    <2>2. CASE j < k
      <3>1. j \in 1 .. k - 1 /\ j \in 0 .. k - 1 /\ j \in DOMAIN q  BY <2>1, <2>2, <1>1, <1>5
      <3>2. q[i] = q[j]  BY <3>1, <1>4, <1>8
      <3>3. i = j  BY Zenon, <3>1, <3>2 DEF IsInjective
      <3>4. QED  BY Zenon, <3>1, <3>3, <1>7
    <2>3. CASE ~(j < k)
      <3>1. j \in k .. n - 1 /\ j + 1 \in DOMAIN q  BY <2>1, <2>3, <1>1, <1>5
      <3>2. q[i] = q[j + 1]  BY <3>1, <1>4, <1>8
      <3>3. i = j + 1  BY Zenon, <3>1, <3>2 DEF IsInjective
      <3>4. QED  BY Zenon, <3>1, <3>3, <1>7
    <2>4. QED  BY <2>2, <2>3
  <1>9. QED  BY <1>2, <1>3, <1>8 DEF Keeps

----------------------------------------------------------------------------
\* No timer in the list has a negative difference.
FieldsNatural == \A t \in ToSet(queue) : expires[t] >= 0

\* Between TimerAdd and ThrSuspendThread a sleeper has a timer too.
AddedHasTimer == \A t \in Sleeper : sleepAt[t] = "added" => Queued(t) \/ missed[t]

\* What holds of the list whoever its timers belong to.
ListInv == TimersTypeOK /\ FieldsNatural /\ NeverEarly

\* The inductive invariant.
TInv == ListInv /\ QueuedTimerIsAlive /\ SleeperHasTimer /\ AddedHasTimer

\* The timers that stay in the list keep their times.
KeepsTimes == \A u \in Timer : Queued(u) /\ Queued(u)' => Due(u) = Due(u)'

\* Due sums up the same differences as Times.
LEMMA KeepsDue ==
  ASSUME Keeps(queue, expires, queue', expires')
  PROVE  KeepsTimes
  <1> SUFFICES ASSUME NEW u \in Timer, Queued(u), Queued(u)'  PROVE Due(u) = Due(u)'
    BY DEF KeepsTimes
  <1>1. \E i \in DOMAIN queue : queue[i] = u  BY DEF Queued, ToSet
  <1>2. \E j \in DOMAIN queue' : queue'[j] = u  BY DEF Queued, ToSet
  <1>3. PICK i : i = CHOOSE m \in DOMAIN queue : queue[m] = u  OBVIOUS
  <1>4. PICK j : j = CHOOSE m \in DOMAIN queue' : queue'[m] = u  OBVIOUS
  <1>5. i \in DOMAIN queue /\ queue[i] = u  BY Zenon, <1>1, <1>3
  <1>6. j \in DOMAIN queue' /\ queue'[j] = u  BY Zenon, <1>2, <1>4
  <1>7. Due(u) = Times(queue, expires)[i]  BY Zenon, <1>3 DEF Due, Remaining
  <1>8. Due(u)' = Times(queue', expires')[j]  BY Zenon, <1>4 DEF Due, Remaining
  <1>9. QED  BY Zenon, <1>5, <1>6, <1>7, <1>8 DEF Keeps

\* Where TimerAdd stops.
LEMMA PlaceFacts ==
  ASSUME TimersTypeOK, NEW ms \in Nat
  PROVE  /\ Place(ms) \in 1 .. Len(queue) + 1
         /\ Place(ms) <= Len(queue) => expires[queue[Place(ms)]] >= ms
         /\ \A i \in 1 .. Place(ms) - 1 : i \in DOMAIN queue /\ expires[queue[i]] < ms
  <1>1. PICK n \in Nat : n = Len(queue) /\ DOMAIN queue = 1 .. n /\ \A i \in 1 .. n : expires[queue[i]] \in Int
    BY DEF TimersTypeOK
  <1> DEFINE later == {i \in DOMAIN queue : expires[queue[i]] >= ms}
  <1>2. Place(ms) = IF later = {} THEN n + 1 ELSE Min(later)  BY <1>1 DEF Place
  <1>3. later \subseteq Nat /\ later \subseteq DOMAIN queue /\ \A i \in later : expires[queue[i]] >= ms  BY <1>1
  <1>4. \A i \in DOMAIN queue : i \notin later => expires[queue[i]] < ms  BY <1>1
  <1> HIDE DEF later
  <1>5. CASE later = {}
    <2>1. Place(ms) = n + 1  BY <1>2, <1>5
    <2>2. QED  BY <2>1, <1>1, <1>4, <1>5
  <1>6. CASE later # {}
    <2>1. PICK k : k = Min(later)  OBVIOUS
    <2>2. k \in later  BY Zenon, <2>1, <1>3, <1>6, MinMember
    <2>3. \A y \in later : k <= y  BY Zenon, <2>1, <1>3, <1>6, MinIsLeast
    <2>4. Place(ms) = k /\ k \in 1 .. n  BY <2>1, <2>2, <1>1, <1>2, <1>3, <1>6
    <2>5. ASSUME NEW i \in 1 .. k - 1  PROVE i \in DOMAIN queue /\ expires[queue[i]] < ms
      <3>1. i \in DOMAIN queue /\ ~(k <= i)  BY <2>4, <1>1
      <3>2. i \notin later  BY Zenon, <2>3, <3>1
      <3>3. QED  BY <3>1, <3>2, <1>4
    <2>6. QED  BY <2>2, <2>4, <2>5, <1>1, <1>3
  <1>7. QED  BY <1>5, <1>6

\* What the invariant says about the list, with names the steps below use.
LEMMA ListFits ==
  ASSUME ListInv
  PROVE  /\ queue \in Seq(Timer) /\ IsInjective(queue)
         /\ expires \in [Timer -> Int] /\ left \in [Timer -> Nat]
         /\ ToSet(queue) \subseteq Timer
         /\ \A u \in ToSet(queue) : expires[u] \in Nat
         /\ \A i \in DOMAIN queue : Times(queue, expires)[i] >= left[queue[i]]
         /\ IsSum(Times(queue, expires), queue, expires, Len(queue))
         /\ \A i \in 0 .. Len(queue) : Times(queue, expires)[i] \in Nat
  <1>1. queue \in Seq(Timer) /\ IsInjective(queue) /\ expires \in [Timer -> Int] /\ left \in [Timer -> Nat]
    BY DEF ListInv, TimersTypeOK
  <1>2. ToSet(queue) \subseteq Timer  BY <1>1 DEF ToSet
  <1>3. \A u \in ToSet(queue) : expires[u] \in Nat  BY <1>1, <1>2 DEF ListInv, FieldsNatural
  <1>4. \A i \in DOMAIN queue : Times(queue, expires)[i] >= left[queue[i]]
    BY DEF ListInv, NeverEarly, Remaining
  <1>5. IsSum(Times(queue, expires), queue, expires, Len(queue))  BY Zenon, <1>1, TimesFacts
  <1>6. \A i \in 0 .. Len(queue) : Times(queue, expires)[i] \in Nat
    <2>1. Len(queue) \in Nat /\ DOMAIN queue = 1 .. Len(queue)  BY <1>1
    <2>2. \A i \in 1 .. Len(queue) : expires[queue[i]] \in Nat  BY <2>1, <1>3 DEF ToSet
    <2>3. \A i \in 0 .. Len(queue) : Times(queue, expires)[i] >= 0  BY Zenon, <2>1, <2>2, <1>5, SumsNatural
    <2>4. Times(queue, expires) \in [0 .. Len(queue) -> Int]  BY <1>5 DEF IsSum
    <2>5. QED  BY <2>3, <2>4
  <1>7. QED  BY <1>1, <1>2, <1>3, <1>4, <1>5, <1>6

\* TimerAdd keeps the list in order and moves no other timer.
LEMMA AddStep ==
  ASSUME ListInv, NEW t \in Timer, ~Queued(t), NEW ms \in Durations, Added(t, ms)
  PROVE  /\ queue' \in Seq(Timer) /\ IsInjective(queue') /\ ToSet(queue') = ToSet(queue) \cup {t}
         /\ expires' \in [Timer -> Int] /\ left' \in [Timer -> Nat] /\ adds' \in 0 .. MaxAdds
         /\ FieldsNatural' /\ NeverEarly'
         /\ Keeps(queue, expires, queue', expires')
  <1>1. ms \in Nat /\ MaxAdds \in Nat /\ adds \in 0 .. MaxAdds  BY TimerAssumption DEF ListInv, TimersTypeOK
  <1>2. /\ queue \in Seq(Timer) /\ IsInjective(queue)
        /\ expires \in [Timer -> Int] /\ left \in [Timer -> Nat]
        /\ ToSet(queue) \subseteq Timer
        /\ \A u \in ToSet(queue) : expires[u] \in Nat
        /\ \A i \in DOMAIN queue : Times(queue, expires)[i] >= left[queue[i]]
        /\ IsSum(Times(queue, expires), queue, expires, Len(queue))
        /\ \A i \in 0 .. Len(queue) : Times(queue, expires)[i] \in Nat
    BY ListFits
  <1>3. PICK k \in 1 .. Len(queue) + 1 :
          /\ k = Place(ms)
          /\ k <= Len(queue) => expires[queue[k]] >= ms
          /\ \A i \in 1 .. k - 1 : i \in DOMAIN queue /\ expires[queue[i]] < ms
    BY <1>1, PlaceFacts DEF ListInv
  <1>4. PICK d : d = IF k > 1 THEN ms - expires[queue[k - 1]] ELSE ms  OBVIOUS
  <1>5. Len(queue) \in Nat /\ DOMAIN queue = 1 .. Len(queue) /\ k \in Int  BY <1>2
  <1>6. k > 1 => k - 1 \in DOMAIN queue /\ expires[queue[k - 1]] \in Nat /\ expires[queue[k - 1]] < ms
    <2>1. k > 1 => k - 1 \in 1 .. k - 1  BY <1>5
    <2>2. QED  BY <2>1, <1>2, <1>3 DEF ToSet
  <1>7. d \in Nat /\ d <= ms  BY <1>1, <1>4, <1>6
  <1>8. /\ queue' = InsertAt(queue, k, t)
        /\ expires' = [u \in Timer |-> IF u = t THEN d
                                       ELSE IF k <= Len(queue) /\ u = queue[k] THEN expires[u] - d
                                       ELSE expires[u]]
        /\ left' = [left EXCEPT ![t] = ms] /\ adds' = adds + 1 /\ adds < MaxAdds
    BY <1>3, <1>4 DEF Added, TimerAdd
  <1>9. t \notin ToSet(queue) /\ d \in Int  BY <1>7 DEF Queued
  <1>10. /\ queue' \in Seq(Timer) /\ IsInjective(queue') /\ ToSet(queue') = ToSet(queue) \cup {t}
         /\ k \in DOMAIN queue' /\ queue'[k] = t
         /\ Times(queue', expires')[k] = Times(queue, expires)[k - 1] + d
         /\ Keeps(queue, expires, queue', expires')
    <2>1. queue' \in Seq(Timer) /\ IsAdded(queue, expires, t, k, d, queue', expires')
      BY <1>2, <1>8, <1>9, InsertKeeps
    <2>2. QED  BY Zenon, <2>1 DEF IsAdded
  <1>11. expires' \in [Timer -> Int]  BY <1>2, <1>8, <1>9
  <1>12. left' \in [Timer -> Nat] /\ adds' \in 0 .. MaxAdds /\ left'[t] = ms /\ \A u \in Timer : u # t => left'[u] = left[u]
    BY <1>1, <1>2, <1>8
  <1>13. FieldsNatural'
    <2> SUFFICES ASSUME NEW u \in ToSet(queue) \cup {t}  PROVE expires'[u] >= 0
      BY <1>10 DEF FieldsNatural
    <2>1. CASE u = t  BY <2>1, <1>7, <1>8
    <2>2. CASE u # t /\ k <= Len(queue) /\ u = queue[k]
      <3>1. u \in Timer /\ expires[u] \in Nat /\ expires[u] >= ms  BY <2>2, <1>2, <1>3
      <3>2. expires'[u] = expires[u] - d  BY <2>2, <3>1, <1>8
      <3>3. QED  BY <3>1, <3>2, <1>1, <1>7
    <2>3. CASE u # t /\ ~(k <= Len(queue) /\ u = queue[k])
      <3>1. u \in Timer /\ expires[u] \in Nat  BY <2>3, <1>2
      <3>2. expires'[u] = expires[u]  BY <2>3, <3>1, <1>8
      <3>3. QED  BY <3>1, <3>2
    <2>4. QED  BY <2>1, <2>2, <2>3
  <1>14. Times(queue, expires)[k - 1] + d >= ms
    <2>1. PICK f : f = Times(queue, expires)  OBVIOUS
    <2>2. f[0] = 0 /\ (\A i \in 1 .. Len(queue) : f[i] = f[i - 1] + expires[queue[i]]) /\ \A i \in 0 .. Len(queue) : f[i] \in Nat
      BY <2>1, <1>2 DEF IsSum
    <2>3. CASE k > 1
      <3>1. PICK j \in 1 .. Len(queue) : j = k - 1  BY <2>3, <1>5
      <3>2. j - 1 \in 0 .. Len(queue)  BY <1>5
      <3>3. f[j] = f[j - 1] + expires[queue[j]] /\ f[j - 1] \in Nat  BY <2>2, <3>2
      <3>4. d = ms - expires[queue[j]] /\ expires[queue[j]] \in Nat  BY <2>3, <3>1, <1>4, <1>6
      <3>5. f[j] + d >= ms  BY <3>3, <3>4, <1>1
      <3>6. QED  BY Zenon, <2>1, <3>1, <3>5
    <2>4. CASE ~(k > 1)
      <3>1. k - 1 = 0 /\ d = ms  BY <2>4, <1>4, <1>5
      <3>2. f[k - 1] + d >= ms  BY <2>2, <3>1, <1>1
      <3>3. QED  BY Zenon, <2>1, <3>2
    <2>5. QED  BY <2>3, <2>4
  <1>15. NeverEarly'
    <2> SUFFICES ASSUME NEW j \in DOMAIN queue'  PROVE Times(queue', expires')[j] >= left'[queue'[j]]
      BY DEF NeverEarly, Remaining
    <2>1. CASE queue'[j] = t
      <3>1. j = k  BY Zenon, <2>1, <1>10 DEF IsInjective
      <3>2. Times(queue', expires')[k] >= ms  BY <1>10, <1>14
      <3>3. QED  BY Zenon, <2>1, <3>1, <3>2, <1>12
    <2>2. CASE queue'[j] # t
      <3>1. queue'[j] \in ToSet(queue')  BY DEF ToSet
      <3>2. queue'[j] \in ToSet(queue)  BY Zenon, <2>2, <3>1, <1>10
      <3>3. PICK i \in DOMAIN queue : queue[i] = queue'[j]  BY <3>2 DEF ToSet
      <3>4. Times(queue', expires')[j] = Times(queue, expires)[i]  BY Zenon, <3>3, <1>10 DEF Keeps
      <3>5. left'[queue'[j]] = left[queue[i]]  BY Zenon, <2>2, <3>2, <3>3, <1>2, <1>12
      <3>6. Times(queue, expires)[i] >= left[queue[i]]  BY Zenon, <1>2
      <3>7. QED  BY Zenon, <3>4, <3>5, <3>6
    <2>3. QED  BY <2>1, <2>2
  <1>16. QED  BY <1>10, <1>11, <1>12, <1>13, <1>15

\* TimerRemove hands the time of the removed timer on and moves no other timer.
LEMMA RemoveStep ==
  ASSUME ListInv, NEW t \in Timer, TimerRemove(t), UNCHANGED left
  PROVE  /\ queue' \in Seq(Timer) /\ IsInjective(queue') /\ ToSet(queue') = ToSet(queue) \ {t}
         /\ expires' \in [Timer -> Int]
         /\ FieldsNatural' /\ NeverEarly'
         /\ Keeps(queue, expires, queue', expires')
  <1>1. /\ queue \in Seq(Timer) /\ IsInjective(queue)
        /\ expires \in [Timer -> Int] /\ left \in [Timer -> Nat]
        /\ ToSet(queue) \subseteq Timer
        /\ \A u \in ToSet(queue) : expires[u] \in Nat
        /\ \A i \in DOMAIN queue : Times(queue, expires)[i] >= left[queue[i]]
    BY ListFits
  <1>2. CASE ~Queued(t)
    <2>1. queue' = queue /\ expires' = expires  BY <1>2 DEF TimerRemove
    <2>2. Keeps(queue, expires, queue', expires')  BY Zenon, <2>1, <1>1 DEF Keeps, IsInjective
    <2>3. FieldsNatural' /\ NeverEarly'  BY <2>1 DEF ListInv, FieldsNatural, NeverEarly, Remaining
    <2>4. ToSet(queue') = ToSet(queue) \ {t}  BY <2>1, <1>2 DEF Queued
    <2>5. QED  BY <2>1, <2>2, <2>3, <2>4, <1>1
  <1>3. CASE Queued(t)
    <2>1. PICK k \in DOMAIN queue : queue[k] = t /\ k = CHOOSE j \in DOMAIN queue : queue[j] = t
      <3>1. \E j \in DOMAIN queue : queue[j] = t  BY <1>3 DEF Queued, ToSet
      <3>2. QED  BY Zenon, <3>1
    <2>2. queue' = RemoveAt(queue, k)
            /\ expires' = IF expires[t] > 0 /\ k < Len(queue) THEN [expires EXCEPT ![queue[k + 1]] = @ + expires[t]] ELSE expires
      BY <1>3, <2>1 DEF TimerRemove
    <2>3. t \in ToSet(queue) /\ expires[t] \in Nat /\ k \in 1 .. Len(queue) /\ Len(queue) \in Nat
            /\ DOMAIN queue = 1 .. Len(queue)
      BY <1>1, <1>3 DEF Queued
    <2>4. expires' = IF k < Len(queue) THEN [expires EXCEPT ![queue[k + 1]] = @ + expires[queue[k]]] ELSE expires
      <3>1. CASE expires[t] > 0  BY <2>1, <2>2, <3>1
      <3>2. CASE ~(expires[t] > 0) /\ k < Len(queue)
        <4>1. expires[t] = 0 /\ k + 1 \in DOMAIN queue  BY <2>3, <3>2
        <4>2. queue[k + 1] \in Timer /\ expires[queue[k + 1]] \in Int  BY <4>1, <1>1
        <4>3. expires[queue[k + 1]] + expires[queue[k]] = expires[queue[k + 1]]  BY <2>1, <4>1, <4>2
        <4>4. [expires EXCEPT ![queue[k + 1]] = @ + expires[queue[k]]] = expires  BY <1>1, <4>2, <4>3
        <4>5. QED  BY <2>2, <3>2, <4>4
      <3>3. CASE ~(k < Len(queue))  BY <2>2, <3>3
      <3>4. QED  BY <3>1, <3>2, <3>3
    <2>5. /\ queue' \in Seq(Timer) /\ IsInjective(queue') /\ ToSet(queue') = ToSet(queue) \ {queue[k]}
          /\ Keeps(queue, expires, queue', expires')
      BY <1>1, <2>2, <2>4, RemoveKeeps
    <2>6. expires' \in [Timer -> Int] /\ \A u \in Timer : expires'[u] = expires[u] \/ expires'[u] = expires[u] + expires[t]
      <3>1. k < Len(queue) => queue[k + 1] \in Timer
        <4>1. k < Len(queue) => k + 1 \in DOMAIN queue  BY <2>3
        <4>2. QED  BY <4>1, <1>1
      <3>2. CASE expires[t] > 0 /\ k < Len(queue)
        <4>1. PICK v \in Timer : v = queue[k + 1]  BY <3>1, <3>2
        <4>2. expires' = [expires EXCEPT ![v] = @ + expires[t]]  BY <2>2, <3>2, <4>1
        <4>3. QED  BY <1>1, <2>3, <4>2
      <3>3. CASE ~(expires[t] > 0 /\ k < Len(queue))  BY <1>1, <2>2, <3>3
      <3>4. QED  BY <3>2, <3>3
    <2>7. FieldsNatural'
      <3>1. \A u \in ToSet(queue) : u \in Timer /\ expires[u] \in Nat  BY <1>1
      <3>2. \A u \in ToSet(queue) : expires'[u] >= 0  BY <2>3, <2>6, <3>1
      <3>3. QED  BY <2>5, <3>2 DEF FieldsNatural
    <2>8. NeverEarly'
      <3> SUFFICES ASSUME NEW j \in DOMAIN queue'  PROVE Times(queue', expires')[j] >= left'[queue'[j]]
        BY DEF NeverEarly, Remaining
      <3>1. queue'[j] \in ToSet(queue')  BY DEF ToSet
      <3>2. queue'[j] \in ToSet(queue)  BY Zenon, <3>1, <2>5
      <3>3. PICK i \in DOMAIN queue : queue[i] = queue'[j]  BY <3>2 DEF ToSet
      <3>4. Times(queue', expires')[j] = Times(queue, expires)[i]  BY Zenon, <3>3, <2>5 DEF Keeps
      <3>5. Times(queue, expires)[i] >= left[queue[i]]  BY Zenon, <1>1
      <3>6. QED  BY Zenon, <3>3, <3>4, <3>5
    <2>9. QED  BY <2>1, <2>5, <2>6, <2>7, <2>8
  <1>4. QED  BY <1>2, <1>3

----------------------------------------------------------------------------
\* A driver adds or removes its timer.
LEMMA DriverSteps ==
  ASSUME TInv, NEW t \in Timer, DriverAdd(t) \/ DriverRemove(t)
  PROVE  TInv' /\ KeepsTimes
  <1>1. ListInv /\ QueuedTimerIsAlive /\ SleeperHasTimer /\ AddedHasTimer /\ TimersTypeOK  BY DEF TInv, ListInv
  <1>2. UNCHANGED <<sleepAt, threadState, missed>> /\ t \in Driver /\ t \notin Sleeper
    BY TimerAssumption DEF DriverAdd, DriverRemove
  <1>3. CASE DriverAdd(t)
    <2>1. ~Queued(t) /\ \E ms \in Durations : Added(t, ms)  BY <1>3 DEF DriverAdd
    <2>2. /\ queue' \in Seq(Timer) /\ IsInjective(queue') /\ ToSet(queue') = ToSet(queue) \cup {t}
          /\ expires' \in [Timer -> Int] /\ left' \in [Timer -> Nat] /\ adds' \in 0 .. MaxAdds
          /\ FieldsNatural' /\ NeverEarly'
          /\ Keeps(queue, expires, queue', expires')
      BY Zenon, <1>1, <2>1, AddStep
    <2>3. TimersTypeOK'  BY <1>1, <1>2, <2>2 DEF TimersTypeOK
    <2>4. QueuedTimerIsAlive' /\ SleeperHasTimer' /\ AddedHasTimer'
      BY <1>1, <1>2, <2>2 DEF QueuedTimerIsAlive, SleeperHasTimer, AddedHasTimer, Queued
    <2>5. QED  BY <2>2, <2>3, <2>4, KeepsDue DEF TInv, ListInv
  <1>4. CASE DriverRemove(t)
    <2>1. TimerRemove(t) /\ UNCHANGED <<left, adds>>  BY <1>4 DEF DriverRemove
    <2>2. /\ queue' \in Seq(Timer) /\ IsInjective(queue') /\ ToSet(queue') = ToSet(queue) \ {t}
          /\ expires' \in [Timer -> Int]
          /\ FieldsNatural' /\ NeverEarly'
          /\ Keeps(queue, expires, queue', expires')
      BY <1>1, <2>1, RemoveStep
    <2>3. TimersTypeOK'  BY <1>1, <1>2, <2>1, <2>2 DEF TimersTypeOK
    <2>4. QueuedTimerIsAlive' /\ SleeperHasTimer' /\ AddedHasTimer'
      BY <1>1, <1>2, <2>2 DEF QueuedTimerIsAlive, SleeperHasTimer, AddedHasTimer, Queued
    <2>5. QED  BY <2>2, <2>3, <2>4, KeepsDue DEF TInv, ListInv
  <1>5. QED  BY <1>3, <1>4

\* Sleep adds a timer: the thread was outside Sleep, so its timer is not queued.
LEMMA SleepStep ==
  ASSUME TInv, NEW t \in Timer, Sleep(t)
  PROVE  TInv' /\ KeepsTimes
  <1>1. ListInv /\ QueuedTimerIsAlive /\ SleeperHasTimer /\ AddedHasTimer /\ TimersTypeOK  BY DEF TInv, ListInv
  <1>2. /\ t \in Sleeper /\ sleepAt[t] = "run" /\ threadState' = threadState
        /\ sleepAt' = [sleepAt EXCEPT ![t] = "added"] /\ missed' = [missed EXCEPT ![t] = FALSE]
    BY DEF Sleep
  <1>3. ~Queued(t)  BY <1>1, <1>2 DEF QueuedTimerIsAlive
  <1>4. \E ms \in Durations : Added(t, ms)  BY DEF Sleep
  <1>5. /\ queue' \in Seq(Timer) /\ IsInjective(queue') /\ ToSet(queue') = ToSet(queue) \cup {t}
        /\ expires' \in [Timer -> Int] /\ left' \in [Timer -> Nat] /\ adds' \in 0 .. MaxAdds
        /\ FieldsNatural' /\ NeverEarly'
        /\ Keeps(queue, expires, queue', expires')
    BY Zenon, <1>1, <1>3, <1>4, AddStep
  <1>6. TimersTypeOK'  BY <1>1, <1>2, <1>5 DEF TimersTypeOK
  <1>7. /\ sleepAt'[t] = "added" /\ \A u \in Timer : u # t => sleepAt'[u] = sleepAt[u] /\ missed'[u] = missed[u]
    BY <1>1, <1>2 DEF TimersTypeOK
  <1>8. Queued(t)' /\ \A u \in Timer : u # t => (Queued(u)' <=> Queued(u))  BY <1>5 DEF Queued
  <1>9. Sleeper \subseteq Timer  BY DEF Timer
  <1>10. QueuedTimerIsAlive'  BY <1>1, <1>7, <1>8, <1>9 DEF QueuedTimerIsAlive
  <1>11. SleeperHasTimer'  BY <1>1, <1>2, <1>7, <1>8, <1>9 DEF SleeperHasTimer
  <1>12. AddedHasTimer'  BY <1>1, <1>7, <1>8, <1>9 DEF AddedHasTimer
  <1>13. QED  BY <1>5, <1>6, <1>10, <1>11, <1>12, KeepsDue DEF TInv, ListInv

\* A thread leaves Sleep, by returning or because its process exits, and takes
\* its timer out of the list.
LEMMA LeaveSteps ==
  ASSUME TInv, NEW t \in Timer, SleepReturn(t) \/ TimerThreadExit(t)
  PROVE  TInv' /\ KeepsTimes
  <1>1. ListInv /\ QueuedTimerIsAlive /\ SleeperHasTimer /\ AddedHasTimer /\ TimersTypeOK  BY DEF TInv, ListInv
  <1>2. TimerRemove(t) /\ UNCHANGED <<left, missed, adds>>  BY DEF SleepReturn, TimerThreadExit
  <1>3. /\ sleepAt' \in [Timer -> {"run", "added", "asleep", "gone"}]
        /\ threadState' \in [Timer -> {"RUNNING", "PAUSED", "DYING"}]
        /\ sleepAt'[t] \in {"run", "gone"}
        /\ \A u \in Timer : u # t => sleepAt'[u] = sleepAt[u] /\ threadState'[u] = threadState[u]
    BY <1>1 DEF SleepReturn, TimerThreadExit, TimersTypeOK
  <1>4. /\ queue' \in Seq(Timer) /\ IsInjective(queue') /\ ToSet(queue') = ToSet(queue) \ {t}
        /\ expires' \in [Timer -> Int]
        /\ FieldsNatural' /\ NeverEarly'
        /\ Keeps(queue, expires, queue', expires')
    BY <1>1, <1>2, RemoveStep
  <1>5. TimersTypeOK'  BY <1>1, <1>2, <1>3, <1>4 DEF TimersTypeOK
  <1>6. ~Queued(t)' /\ \A u \in Timer : u # t => (Queued(u)' <=> Queued(u))  BY <1>4 DEF Queued
  <1>7. Sleeper \subseteq Timer  BY DEF Timer
  <1>8. QueuedTimerIsAlive' /\ SleeperHasTimer' /\ AddedHasTimer'
    BY <1>1, <1>2, <1>3, <1>6, <1>7 DEF QueuedTimerIsAlive, SleeperHasTimer, AddedHasTimer
  <1>9. QED  BY <1>4, <1>5, <1>8, KeepsDue DEF TInv, ListInv

\* A thread is suspended or resumed: the list does not change.
LEMMA ThreadSteps ==
  ASSUME TInv, NEW t \in Timer, SleepSuspend(t) \/ ThrResumeThread(t)
  PROVE  TInv'
  <1>1. ListInv /\ QueuedTimerIsAlive /\ SleeperHasTimer /\ AddedHasTimer /\ TimersTypeOK  BY DEF TInv, ListInv
  <1>2. UNCHANGED <<queue, expires, left, missed, adds>>  BY DEF SleepSuspend, ThrResumeThread
  <1>3. TimersTypeOK'  BY <1>1, <1>2 DEF SleepSuspend, ThrResumeThread, TimersTypeOK
  <1>4. FieldsNatural' /\ NeverEarly'  BY <1>1, <1>2 DEF ListInv, FieldsNatural, NeverEarly, Remaining
  <1>5. /\ \A u \in Timer : u # t => sleepAt'[u] = sleepAt[u] /\ threadState'[u] = threadState[u]
        /\ \/ sleepAt[t] = "added" /\ sleepAt'[t] = "asleep"
           \/ sleepAt[t] = "asleep" /\ sleepAt'[t] = "asleep" /\ threadState'[t] = "RUNNING"
    BY <1>1 DEF SleepSuspend, ThrResumeThread, TimersTypeOK
  <1>6. Sleeper \subseteq Timer /\ \A u \in Timer : Queued(u)' <=> Queued(u)  BY <1>2 DEF Timer, Queued
  <1>7. QueuedTimerIsAlive' /\ SleeperHasTimer' /\ AddedHasTimer'
    BY <1>1, <1>2, <1>5, <1>6 DEF QueuedTimerIsAlive, SleeperHasTimer, AddedHasTimer
  <1>8. QED  BY <1>3, <1>4, <1>7 DEF TInv, ListInv

\* One timer interrupt charges the first timer a tick, and every other timer
\* with it; a timer that fires leaves the list and resumes its thread.
LEMMA UpdateStep ==
  ASSUME TInv, UpdateTimers
  PROVE  TInv'
  <1>1. ListInv /\ QueuedTimerIsAlive /\ SleeperHasTimer /\ AddedHasTimer /\ TimersTypeOK  BY DEF TInv, ListInv
  <1>2. /\ queue \in Seq(Timer) /\ IsInjective(queue)
        /\ expires \in [Timer -> Int] /\ left \in [Timer -> Nat]
        /\ ToSet(queue) \subseteq Timer
        /\ \A u \in ToSet(queue) : expires[u] \in Nat
        /\ \A i \in DOMAIN queue : Times(queue, expires)[i] >= left[queue[i]]
        /\ IsSum(Times(queue, expires), queue, expires, Len(queue))
        /\ \A i \in 0 .. Len(queue) : Times(queue, expires)[i] \in Nat
    BY <1>1, ListFits
  <1>3. queue # <<>>  BY DEF UpdateTimers
  <1>4. PICK t \in Timer : t = Head(queue) /\ t = queue[1] /\ t \in ToSet(queue)  BY <1>2, <1>3, TailFacts
  <1>5. PICK fires \in BOOLEAN : fires <=> expires[t] - TICK <= 0  OBVIOUS
  <1>6. /\ expires' = [expires EXCEPT ![t] = expires[t] - TICK]
        /\ left' = [u \in Timer |-> IF left[u] > TICK THEN left[u] - TICK ELSE 0]
        /\ queue' = IF fires THEN Tail(queue) ELSE queue
        /\ threadState' = IF fires /\ threadState[t] = "PAUSED" THEN [threadState EXCEPT ![t] = "RUNNING"] ELSE threadState
        /\ missed' = [missed EXCEPT ![t] = missed[t] \/ (fires /\ sleepAt[t] = "added")]
        /\ UNCHANGED <<sleepAt, adds>>
    BY <1>4, <1>5 DEF UpdateTimers
  <1>7. TICK \in Nat /\ expires[t] \in Nat /\ expires[t] = expires[queue[1]]  BY <1>2, <1>4, TimerAssumption
  <1>8. Len(queue) \in Nat /\ Len(queue) >= 1 /\ DOMAIN queue = 1 .. Len(queue)  BY <1>2, <1>3
  <1>9. \A i \in 2 .. Len(queue) : queue[i] # t /\ queue[i] \in Timer
    <2>1. ASSUME NEW i \in 2 .. Len(queue)  PROVE queue[i] # t /\ queue[i] \in Timer
      <3>1. i \in DOMAIN queue /\ 1 \in DOMAIN queue /\ i # 1  BY <1>8
      <3>2. queue[i] # queue[1]  BY Zenon, <3>1, <1>2 DEF IsInjective
      <3>3. QED  BY <3>1, <3>2, <1>2, <1>4
    <2>2. QED  BY <2>1
  <1>10. /\ expires' \in [Timer -> Int] /\ expires'[t] = expires[t] - TICK
         /\ \A u \in Timer : u # t => expires'[u] = expires[u]
    BY <1>2, <1>6, <1>7
  <1>11. \A i \in 2 .. Len(queue) : expires'[queue[i]] = expires[queue[i]]  BY <1>9, <1>10
  <1>12. left' \in [Timer -> Nat] /\ \A u \in Timer : left'[u] = IF left[u] > TICK THEN left[u] - TICK ELSE 0
    BY <1>2, <1>6, <1>7
  <1>13. /\ queue' \in Seq(Timer) /\ IsInjective(queue')
         /\ ToSet(queue') = IF fires THEN ToSet(queue) \ {t} ELSE ToSet(queue)
    BY <1>2, <1>3, <1>4, <1>6, TailFacts
  <1>14. /\ threadState' \in [Timer -> {"RUNNING", "PAUSED", "DYING"}] /\ missed' \in [Timer -> BOOLEAN]
         /\ \A u \in Timer : u # t => threadState'[u] = threadState[u] /\ missed'[u] = missed[u]
         /\ fires => threadState'[t] # "PAUSED" /\ (sleepAt[t] = "added" => missed'[t])
         /\ ~fires => threadState'[t] = threadState[t]
         /\ missed[t] => missed'[t]
    <2>1. threadState \in [Timer -> {"RUNNING", "PAUSED", "DYING"}] /\ missed \in [Timer -> BOOLEAN]
      BY <1>1 DEF TimersTypeOK
    <2>2. /\ threadState' \in [Timer -> {"RUNNING", "PAUSED", "DYING"}]
          /\ \A u \in Timer : u # t => threadState'[u] = threadState[u]
          /\ fires => threadState'[t] # "PAUSED"
          /\ ~fires => threadState'[t] = threadState[t]
      BY <1>6, <2>1
    <2>3. missed' \in [Timer -> BOOLEAN] /\ (\A u \in Timer : u # t => missed'[u] = missed[u])
            /\ missed'[t] = (missed[t] \/ (fires /\ sleepAt[t] = "added"))
      BY <1>6, <2>1
    <2>4. QED  BY Zenon, <2>2, <2>3
  <1>15. TimersTypeOK'
    BY <1>1, <1>6, <1>10, <1>12, <1>13, <1>14 DEF TimersTypeOK
  <1>16. FieldsNatural'
    <2> SUFFICES ASSUME NEW u \in ToSet(queue')  PROVE expires'[u] >= 0
      BY DEF FieldsNatural
    <2>1. u \in ToSet(queue) /\ u \in Timer /\ (u = t => ~fires)  BY <1>2, <1>13
    <2>2. CASE u = t  BY <2>1, <2>2, <1>5, <1>7, <1>10
    <2>3. CASE u # t  BY <2>1, <2>3, <1>2, <1>10
    <2>4. QED  BY <2>2, <2>3
  <1>17. NeverEarly'
    <2> SUFFICES ASSUME NEW j \in DOMAIN queue'  PROVE Times(queue', expires')[j] >= left'[queue'[j]]
      BY DEF NeverEarly, Remaining
    <2>1. CASE fires
      <3>1. queue' = Tail(queue)  BY <2>1, <1>6
      <3>2. PICK i \in DOMAIN queue : i = j + 1 /\ queue'[j] = queue[i] /\ j \in 0 .. Len(queue) - 1
        BY <3>1, <1>2, <1>3, <1>8
      <3>3. \A l \in 0 .. Len(queue) - 1 : Times(Tail(queue), expires')[l] = Times(queue, expires)[l + 1] - expires[queue[1]]
        <4>1. SumsFired(Times(queue, expires), Times(Tail(queue), expires'), Len(queue), expires[queue[1]])
          BY <1>2, <1>3, <1>10, <1>11, TailTimes
        <4>2. QED  BY Zenon, <4>1 DEF SumsFired
      <3>4. Times(queue', expires')[j] = Times(queue, expires)[i] - expires[t]
        BY <3>1, <3>2, <3>3, <1>7
      <3>5. \A l \in 0 .. Len(queue') : Times(queue', expires')[l] >= 0
        <4>1. IsSum(Times(queue', expires'), queue', expires', Len(queue'))  BY Zenon, <1>10, <1>13, TimesFacts
        <4>2. Len(queue') \in Nat /\ DOMAIN queue' = 1 .. Len(queue')  BY <1>13
        <4>3. ToSet(queue') \subseteq Timer  BY <1>2, <1>13
        <4>4. \A u \in ToSet(queue') : expires'[u] \in Nat  BY <4>3, <1>10, <1>16 DEF FieldsNatural
        <4>5. \A l \in 1 .. Len(queue') : expires'[queue'[l]] \in Nat  BY <4>2, <4>4 DEF ToSet
        <4>6. QED  BY Zenon, <4>1, <4>2, <4>5, SumsNatural
      <3>6. Times(queue', expires')[j] >= 0
        <4>1. j \in 0 .. Len(queue')  BY <1>13
        <4>2. QED  BY <3>5, <4>1
      <3>7. PICK u \in Timer : u = queue[i]  BY <1>2
      <3>8. Times(queue, expires)[i] >= left[u] /\ Times(queue, expires)[i] \in Nat
        <4>1. i \in 0 .. Len(queue)  BY <1>8
        <4>2. QED  BY <3>7, <4>1, <1>2
      <3>9. left[u] \in Nat /\ left'[u] = IF left[u] > TICK THEN left[u] - TICK ELSE 0  BY <1>2, <1>12
      <3>10. expires[t] <= TICK  BY <2>1, <1>5, <1>7
      <3>11. Times(queue', expires')[j] >= left'[u]  BY <3>4, <3>6, <3>8, <3>9, <3>10, <1>7
      <3>12. QED  BY Zenon, <3>2, <3>7, <3>11
    <2>2. CASE ~fires
      <3>1. queue' = queue /\ j \in DOMAIN queue /\ j \in 1 .. Len(queue) /\ j \in 0 .. Len(queue)  BY <2>2, <1>6, <1>8
      <3>2. \A l \in 1 .. Len(queue) : Times(queue, expires')[l] = Times(queue, expires)[l] - TICK
        <4>1. expires'[queue[1]] = expires[queue[1]] - TICK /\ TICK \in Int  BY <1>4, <1>7, <1>10
        <4>2. SumsCharged(Times(queue, expires), Times(queue, expires'), Len(queue), TICK)
          BY <4>1, <1>2, <1>3, <1>10, <1>11, ChargeTimes
        <4>3. QED  BY Zenon, <4>2 DEF SumsCharged
      <3>3. Times(queue', expires')[j] = Times(queue, expires)[j] - TICK  BY <3>1, <3>2
      <3>4. PICK u \in Timer : u = queue[j]  BY <3>1, <1>2
      <3>5. Times(queue, expires)[j] >= left[u] /\ Times(queue, expires)[j] \in Nat  BY <3>1, <3>4, <1>2
      <3>6. Times(queue, expires)[j] >= TICK
        <4>1. FieldsNatural' /\ IsSum(Times(queue', expires'), queue', expires', Len(queue'))
          BY Zenon, <1>10, <1>13, <1>16, TimesFacts
        <4>2. ToSet(queue') \subseteq Timer /\ Len(queue') \in Nat /\ DOMAIN queue' = 1 .. Len(queue')
          BY <1>2, <1>13
        <4>3. \A v \in ToSet(queue') : expires'[v] \in Nat  BY <4>1, <4>2, <1>10 DEF FieldsNatural
        <4>4. \A l \in 1 .. Len(queue') : expires'[queue'[l]] \in Nat  BY <4>2, <4>3 DEF ToSet
        <4>5. \A l \in 0 .. Len(queue') : Times(queue', expires')[l] >= 0  BY Zenon, <4>1, <4>2, <4>4, SumsNatural
        <4>6. Times(queue', expires')[j] >= 0  BY <3>1, <4>5
        <4>7. QED  BY <3>3, <3>5, <4>6, <1>7
      <3>7. left[u] \in Nat /\ left'[u] = IF left[u] > TICK THEN left[u] - TICK ELSE 0  BY <1>2, <1>12
      <3>8. Times(queue', expires')[j] >= left'[u]  BY <3>3, <3>5, <3>6, <3>7, <1>7
      <3>9. QED  BY <3>1, <3>4, <3>8
    <2>3. QED  BY <2>1, <2>2
  <1>18. Sleeper \subseteq Timer /\ (Queued(t)' <=> ~fires) /\ \A u \in Timer : u # t => (Queued(u)' <=> Queued(u))
    BY <1>4, <1>13 DEF Timer, Queued
  <1>19. QueuedTimerIsAlive'
    <2>1. \A u \in Timer : Queued(u)' => Queued(u)  BY <1>4, <1>18 DEF Queued
    <2>2. QED  BY <2>1, <1>1, <1>6, <1>18 DEF QueuedTimerIsAlive
  <1>20. SleeperHasTimer'
    <2> SUFFICES ASSUME NEW u \in Sleeper, sleepAt[u] = "asleep", threadState'[u] = "PAUSED"
                 PROVE  Queued(u)' \/ missed'[u]
      BY <1>6 DEF SleeperHasTimer
    <2>1. CASE u = t  BY <2>1, <1>14, <1>18
    <2>2. CASE u # t  BY <2>2, <1>1, <1>14, <1>18 DEF SleeperHasTimer
    <2>3. QED  BY <2>1, <2>2
  <1>21. AddedHasTimer'
    <2> SUFFICES ASSUME NEW u \in Sleeper, sleepAt[u] = "added"  PROVE Queued(u)' \/ missed'[u]
      BY <1>6 DEF AddedHasTimer
    <2>1. CASE u = t  BY <2>1, <1>14, <1>18
    <2>2. CASE u # t  BY <2>2, <1>1, <1>14, <1>18 DEF AddedHasTimer
    <2>3. QED  BY <2>1, <2>2
  <1>22. QED  BY <1>15, <1>16, <1>17, <1>19, <1>20, <1>21 DEF TInv, ListInv

----------------------------------------------------------------------------
\* The invariant holds at first: the list is empty.
LEMMA TimersInitInv == TimersInit => TInv
  <1> SUFFICES ASSUME TimersInit  PROVE TInv
    OBVIOUS
  <1>1. queue = <<>> /\ queue \in Seq(Timer) /\ DOMAIN queue = {} /\ ToSet(queue) = {}
    <2>1. queue = <<>> /\ <<>> \in Seq(Timer)  BY DEF TimersInit
    <2>2. ToSet(queue) = {}  BY <2>1, EmptyFacts
    <2>3. QED  BY <2>1, <2>2
  <1>2. TimersTypeOK  BY <1>1, TimerAssumption DEF TimersInit, TimersTypeOK, IsInjective
  <1>3. FieldsNatural /\ NeverEarly /\ QueuedTimerIsAlive  BY <1>1 DEF FieldsNatural, NeverEarly, QueuedTimerIsAlive, Queued
  <1>4. SleeperHasTimer /\ AddedHasTimer
    <2>1. \A t \in Sleeper : sleepAt[t] = "run"  BY DEF TimersInit, Timer
    <2>2. QED  BY <2>1 DEF SleeperHasTimer, AddedHasTimer
  <1>5. QED  BY <1>2, <1>3, <1>4 DEF TInv, ListInv

\* Every step keeps the inductive invariant.
LEMMA TimersInductive == TInv /\ [TimersNext]_timerVars => TInv'
  <1> SUFFICES ASSUME TInv, [TimersNext]_timerVars  PROVE TInv'
    OBVIOUS
  <1>1. ASSUME NEW t \in Timer,
               \/ DriverAdd(t) \/ DriverRemove(t)
               \/ Sleep(t) \/ SleepSuspend(t) \/ SleepReturn(t)
               \/ ThrResumeThread(t) \/ TimerThreadExit(t)
        PROVE  TInv'
    BY Zenon, <1>1, DriverSteps, SleepStep, LeaveSteps, ThreadSteps
  <1>2. CASE UpdateTimers  BY <1>2, UpdateStep
  <1>3. CASE UNCHANGED timerVars
    BY <1>3 DEF timerVars, TInv, ListInv, TimersTypeOK, FieldsNatural, NeverEarly, Remaining,
         QueuedTimerIsAlive, SleeperHasTimer, AddedHasTimer, Queued
  <1>4. QED  BY <1>1, <1>2, <1>3 DEF TimersNext

\* Every reachable state of the timers satisfies the inductive invariant.
LEMMA TimersInvariant == TimersSpec => []TInv
  BY TimersInitInv, TimersInductive, PTL DEF TimersSpec

\* The variables keep their types, and no timer is twice in the list.
THEOREM TimersTypeCorrect == TimersSpec => []TimersTypeOK
  <1>1. TInv => TimersTypeOK  BY DEF TInv, ListInv
  <1>2. QED  BY <1>1, TimersInvariant, PTL

\* No timer fires before its time, for any durations and any tick, although
\* TimerAdd compares with differences and UpdateTimers charges the first
\* timer only.
THEOREM NeverEarlyAlways == TimersSpec => []NeverEarly
  <1>1. TInv => NeverEarly  BY DEF TInv, ListInv
  <1>2. QED  BY <1>1, TimersInvariant, PTL

\* The timer of a thread that has left Sleep, or is gone, is not in the list.
THEOREM QueuedTimerIsAliveAlways == TimersSpec => []QueuedTimerIsAlive
  <1>1. TInv => QueuedTimerIsAlive  BY DEF TInv
  <1>2. QED  BY <1>1, TimersInvariant, PTL

\* A suspended sleeper has a timer, or its timer fired too soon.
THEOREM SleeperHasTimerAlways == TimersSpec => []SleeperHasTimer
  <1>1. TInv => SleeperHasTimer  BY DEF TInv
  <1>2. QED  BY <1>1, TimersInvariant, PTL

\* TimerAdd and TimerRemove, whoever calls them, change the time of no other
\* timer: what they take from or give to the next field makes up for the
\* timer that came or went.
THEOREM OthersKeepTheirTimeAlways == TimersSpec => OthersKeepTheirTime
  <1>1. TInv /\ [TimersNext]_timerVars =>
          [(\E t \in Timer : DriverAdd(t) \/ DriverRemove(t) \/ Sleep(t) \/ SleepReturn(t) \/ TimerThreadExit(t)) =>
             \A u \in Timer : Queued(u) /\ Queued(u)' => Due(u) = Due(u)']_timerVars
    <2> SUFFICES ASSUME TInv, NEW t \in Timer,
                        DriverAdd(t) \/ DriverRemove(t) \/ Sleep(t) \/ SleepReturn(t) \/ TimerThreadExit(t)
                 PROVE  \A u \in Timer : Queued(u) /\ Queued(u)' => Due(u) = Due(u)'
      OBVIOUS
    <2>1. KeepsTimes  BY Zenon, DriverSteps, SleepStep, LeaveSteps
    <2>2. QED  BY <2>1 DEF KeepsTimes
  <1>2. QED  BY <1>1, TimersInvariant, PTL DEF TimersSpec, OthersKeepTheirTime
=============================================================================
