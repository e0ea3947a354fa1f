------------------------------ MODULE ListFacts ------------------------------
(***************************************************************************)
(* What the proofs use of the kernel's linked lists, which are sequences   *)
(* in the models: what adding and removing does to the elements of a list  *)
(* and to their order, and that a search for a least element finds one.    *)
(***************************************************************************)
EXTENDS Integers, Sequences, SequencesExt, FiniteSetsExt, FiniteSetTheorems, WellFoundedInduction, TLAPS

\* Any nonempty set of natural numbers has a least element.
Less == {ss \in Nat \X Nat : ss[1] < ss[2]}

\* The least element of a set of natural numbers, by well-founded induction.
LEMMA LeastElement ==
  ASSUME NEW T, T \subseteq Nat, T # {}
  PROVE  \E x \in T : \A y \in T : x <= y
  <1>1. IsWellFoundedOn(Less, Nat)
    BY NatLessThanWellFounded DEF OpToRel, Less
  <1>2. PICK x \in T : \A y \in T : ~(<<y, x>> \in Less)
    BY Zenon, <1>1, WFMin
  <1>3. \A y \in T : x \in Nat /\ y \in Nat /\ ~(y < x)  BY Zenon, <1>2 DEF Less
  <1>4. \A y \in T : x <= y  BY <1>3
  <1>5. QED  BY <1>4

\* Min picks a member.
LEMMA MinMember ==
  ASSUME NEW T, T \subseteq Nat, T # {}
  PROVE  Min(T) \in T
  BY Zenon, LeastElement DEF Min

\* No member is below it.
LEMMA MinIsLeast ==
  ASSUME NEW T, T \subseteq Nat, T # {}
  PROVE  \A y \in T : Min(T) <= y
  BY Zenon, LeastElement DEF Min

\* ListAddTail adds one element.
LEMMA AppendFacts ==
  ASSUME NEW S, NEW s \in Seq(S), NEW e \in S
  PROVE  /\ Append(s, e) \in Seq(S) /\ Append(s, e) # <<>>
         /\ ToSet(Append(s, e)) = ToSet(s) \cup {e}
         /\ IsInjective(s) /\ e \notin ToSet(s) => IsInjective(Append(s, e))
  <1>1. Append(s, e) \in Seq(S) /\ Append(s, e) # <<>>
    <2>1. Append(s, e) \in Seq(S) /\ Len(Append(s, e)) = Len(s) + 1 /\ Len(s) \in Nat  OBVIOUS
    <2>2. Len(<<>>) = 0  OBVIOUS
    <2>3. QED  BY <2>1, <2>2
  <1>2. ToSet(Append(s, e)) = ToSet(s) \cup {e}
    <2>1. \A i \in 1 .. Len(s) : Append(s, e)[i] = s[i]  OBVIOUS
    <2>2. Append(s, e)[Len(s) + 1] = e /\ DOMAIN Append(s, e) = 1 .. Len(s) + 1  OBVIOUS
    <2>3. \A i \in 1 .. Len(s) + 1 : i \in 1 .. Len(s) \/ i = Len(s) + 1  OBVIOUS
    <2>4. DOMAIN s = 1 .. Len(s) /\ 1 .. Len(s) \subseteq 1 .. Len(s) + 1 /\ Len(s) + 1 \in 1 .. Len(s) + 1  OBVIOUS
    <2>5. QED  BY <2>1, <2>2, <2>3, <2>4 DEF ToSet
  <1>3. IsInjective(s) /\ e \notin ToSet(s) => IsInjective(Append(s, e))
    BY DEF IsInjective, ToSet
  <1>4. QED  BY <1>1, <1>2, <1>3

\* ListRemove of the first element leaves the others.
LEMMA TailFacts ==
  ASSUME NEW S, NEW s \in Seq(S), s # <<>>, IsInjective(s)
  PROVE  /\ Tail(s) \in Seq(S) /\ Head(s) \in S
         /\ Head(s) \in ToSet(s)
         /\ ToSet(Tail(s)) = ToSet(s) \ {Head(s)}
         /\ IsInjective(Tail(s))
  <1>1. Tail(s) \in Seq(S) /\ Head(s) \in S /\ Len(s) >= 1 /\ Head(s) = s[1]  OBVIOUS
  <1>2. DOMAIN s = 1 .. Len(s) /\ DOMAIN Tail(s) = 1 .. Len(s) - 1  OBVIOUS
  <1>3. \A i \in 1 .. Len(s) - 1 : Tail(s)[i] = s[i + 1] /\ i + 1 \in 1 .. Len(s)  OBVIOUS
  <1>4. Head(s) \in ToSet(s)  BY <1>1, <1>2 DEF ToSet
  <1>5. ToSet(Tail(s)) = ToSet(s) \ {Head(s)}
    <2>1. ASSUME NEW x \in ToSet(Tail(s))  PROVE x \in ToSet(s) \ {Head(s)}
      <3>1. PICK i \in 1 .. Len(s) - 1 : x = s[i + 1]  BY <2>1, <1>2, <1>3 DEF ToSet
      <3>2. i + 1 \in DOMAIN s /\ 1 \in DOMAIN s /\ i + 1 # 1  BY <1>1, <1>2, <1>3
      <3>3. s[i + 1] # s[1]  BY <3>2 DEF IsInjective
      <3>4. QED  BY <3>1, <3>2, <3>3, <1>1 DEF ToSet
    <2>2. ASSUME NEW x \in ToSet(s), x # Head(s)  PROVE x \in ToSet(Tail(s))
      <3>1. PICK i \in 1 .. Len(s) : x = s[i]  BY <2>2, <1>2 DEF ToSet
      <3>2. i # 1  BY <3>1, <2>2, <1>1
      <3>3. i - 1 \in 1 .. Len(s) - 1 /\ Tail(s)[i - 1] = s[i]  BY <3>2, <1>1, <1>3
      <3>4. QED  BY Zenon, <3>1, <3>3, <1>2 DEF ToSet
    <2>3. QED  BY <2>1, <2>2
  <1>6. IsInjective(Tail(s))
    <2> SUFFICES ASSUME NEW i \in 1 .. Len(s) - 1, NEW j \in 1 .. Len(s) - 1, Tail(s)[i] = Tail(s)[j]
                 PROVE  i = j
      BY <1>2 DEF IsInjective
    <2>1. s[i + 1] = s[j + 1] /\ i + 1 \in DOMAIN s /\ j + 1 \in DOMAIN s  BY <1>2, <1>3
    <2>2. i + 1 = j + 1  BY <2>1 DEF IsInjective
    <2>3. QED  BY <2>2
  <1>7. QED  BY <1>1, <1>4, <1>5, <1>6

\* A list is empty when nothing is in it.
LEMMA EmptyFacts ==
  ASSUME NEW S, NEW s \in Seq(S)
  PROVE  s = <<>> <=> ToSet(s) = {}
  <1>1. s = <<>> => ToSet(s) = {}  BY DEF ToSet
  <1>2. ASSUME s # <<>>  PROVE ToSet(s) # {}
    <2>1. 1 \in DOMAIN s  BY <1>2
    <2>2. QED  BY <2>1 DEF ToSet
  <1>3. QED  BY <1>1, <1>2

\* r is s without its i-th element.
IsRemoved(r, s, i) ==
  /\ Len(r) = Len(s) - 1
  /\ \A j \in 1 .. i - 1 : r[j] = s[j]
  /\ \A j \in i .. Len(s) - 1 : r[j] = s[j + 1]

\* ListRemove of the i-th element leaves the others, in their order.
LEMMA RemoveAtFacts ==
  ASSUME NEW S, NEW s \in Seq(S), NEW i \in DOMAIN s
  PROVE  /\ RemoveAt(s, i) \in Seq(S) /\ IsRemoved(RemoveAt(s, i), s, i)
         /\ IsInjective(s) => IsInjective(RemoveAt(s, i)) /\ ToSet(RemoveAt(s, i)) = ToSet(s) \ {s[i]}
  <1> DEFINE r == RemoveAt(s, i)
             a == SubSeq(s, 1, i - 1)
             z == SubSeq(s, i + 1, Len(s))
  <1>1. Len(s) \in Nat /\ i \in 1 .. Len(s) /\ DOMAIN s = 1 .. Len(s)  OBVIOUS
  <1>2. a \in Seq(S) /\ Len(a) = i - 1 /\ \A j \in 1 .. i - 1 : a[j] = s[j]
    BY <1>1
  <1>3. z \in Seq(S) /\ Len(z) = Len(s) - i /\ \A j \in 1 .. Len(s) - i : z[j] = s[j + i]
    BY <1>1
  <1>4. r = a \o z  BY DEF RemoveAt
  <1> HIDE DEF a, z, r
  <1>5. r \in Seq(S) /\ Len(r) = Len(s) - 1 /\ DOMAIN r = 1 .. Len(s) - 1
    <2>1. a \in Seq(S) /\ z \in Seq(S)  BY <1>2, <1>3
    <2>2. a \o z \in Seq(S) /\ Len(a \o z) = Len(a) + Len(z)  BY <2>1
    <2>3. Len(a) + Len(z) = Len(s) - 1  BY <1>1, <1>2, <1>3
    <2>4. r \in Seq(S) /\ Len(r) = Len(s) - 1  BY <2>2, <2>3, <1>4
    <2>5. QED  BY <2>4
  <1>6. ASSUME NEW j \in 1 .. Len(s) - 1
        PROVE  r[j] = IF j < i THEN s[j] ELSE s[j + 1]
    <2>1. CASE j < i
      <3>1. j \in 1 .. i - 1 /\ r[j] = a[j]  BY <2>1, <1>1, <1>2, <1>3, <1>4
      <3>2. QED  BY <2>1, <3>1, <1>2
    <2>2. CASE ~(j < i)
      <3>1. j - (i - 1) \in 1 .. Len(s) - i /\ r[j] = z[j - (i - 1)]  BY <2>2, <1>1, <1>2, <1>3, <1>4
      <3>2. z[j - (i - 1)] = s[j - (i - 1) + i]  BY <3>1, <1>3
      <3>3. QED  BY <2>2, <3>1, <3>2, <1>1
    <2>3. QED  BY <2>1, <2>2
  <1>7. ASSUME IsInjective(s)
        PROVE  IsInjective(r) /\ ToSet(r) = ToSet(s) \ {s[i]}
    <2>1. ASSUME NEW j \in 1 .. Len(s) - 1, NEW k \in 1 .. Len(s) - 1, r[j] = r[k]  PROVE j = k
      <3>1. PICK m \in DOMAIN s : r[j] = s[m] /\ m = IF j < i THEN j ELSE j + 1  BY <1>1, <1>6
      <3>2. PICK n \in DOMAIN s : r[k] = s[n] /\ n = IF k < i THEN k ELSE k + 1  BY <1>1, <1>6
      <3>3. m = n  BY <1>7, <2>1, <3>1, <3>2 DEF IsInjective
      <3>4. QED  BY <3>1, <3>2, <3>3, <1>1
    <2>2. ASSUME NEW x \in ToSet(r)  PROVE x \in ToSet(s) \ {s[i]}
      <3>1. PICK j \in 1 .. Len(s) - 1 : x = r[j]  BY <1>5, <2>2 DEF ToSet
      <3>2. PICK m \in DOMAIN s : r[j] = s[m] /\ m # i
        <4>1. CASE j < i  BY <4>1, <1>1, <1>6
        <4>2. CASE ~(j < i)
          <5>1. j + 1 \in DOMAIN s /\ j + 1 # i  BY <4>2, <1>1
          <5>2. QED  BY <4>2, <5>1, <1>6
        <4>3. QED  BY <4>1, <4>2
      <3>3. s[m] # s[i]  BY <1>7, <3>2 DEF IsInjective
      <3>4. QED  BY <3>1, <3>2, <3>3 DEF ToSet
    <2>3. ASSUME NEW x \in ToSet(s), x # s[i]  PROVE x \in ToSet(r)
      <3>1. PICK m \in DOMAIN s : x = s[m]  BY <2>3 DEF ToSet
      <3>2. m # i  BY <2>3, <3>1
      <3>3. \E j \in 1 .. Len(s) - 1 : r[j] = s[m]
        <4>1. CASE m < i  BY <4>1, <1>1, <1>6
        <4>2. CASE m > i
          <5>1. m - 1 \in 1 .. Len(s) - 1 /\ ~(m - 1 < i) /\ m - 1 + 1 = m  BY <4>2, <1>1
          <5>2. r[m - 1] = s[m]  BY <5>1, <1>6
          <5>3. QED  BY <5>1, <5>2
        <4>3. QED  BY <4>1, <4>2, <3>2, <1>1
      <3>4. QED  BY <3>1, <3>3, <1>5 DEF ToSet
    <2>4. QED  BY <2>1, <2>2, <2>3, <1>5 DEF IsInjective
  <1>8. IsRemoved(r, s, i)
    <2>1. ASSUME NEW j \in 1 .. i - 1  PROVE r[j] = s[j]
      <3>1. j \in 1 .. Len(s) - 1 /\ j < i  BY <1>1
      <3>2. QED  BY <3>1, <1>6
    <2>2. ASSUME NEW j \in i .. Len(s) - 1  PROVE r[j] = s[j + 1]
      <3>1. j \in 1 .. Len(s) - 1 /\ ~(j < i)  BY <1>1
      <3>2. QED  BY <3>1, <1>6
    <2>3. QED  BY <1>5, <2>1, <2>2 DEF IsRemoved
  <1>9. QED  BY <1>5, <1>7, <1>8 DEF r

\* ListRemove of an element, wherever it is.
LEMMA RemoveFirstFacts ==
  ASSUME NEW S, NEW s \in Seq(S), NEW e, IsInjective(s)
  PROVE  /\ RemoveFirst(s, e) \in Seq(S)
         /\ IsInjective(RemoveFirst(s, e))
         /\ ToSet(RemoveFirst(s, e)) = ToSet(s) \ {e}
  <1>1. DOMAIN s = 1 .. Len(s) /\ Len(s) \in Nat  OBVIOUS
  <1>2. CASE ~\E i \in 1 .. Len(s) : s[i] = e
    <2>1. RemoveFirst(s, e) = s  BY <1>2 DEF RemoveFirst
    <2>2. e \notin ToSet(s)  BY <1>1, <1>2 DEF ToSet
    <2>3. QED  BY <2>1, <2>2
  <1>3. CASE \E i \in 1 .. Len(s) : s[i] = e
    <2> DEFINE I == {i \in 1 .. Len(s) : s[i] = e}
    <2>1. I \subseteq Nat /\ I # {}  BY <1>3
    <2>2. Min(I) \in I  BY Zenon, <2>1, MinMember
    <2>3. RemoveFirst(s, e) = RemoveAt(s, Min(I))  BY <1>3, <2>1 DEF RemoveFirst, SelectInSeq
    <2> HIDE DEF I
    <2>4. Min(I) \in DOMAIN s /\ s[Min(I)] = e  BY <2>2, <1>1 DEF I
    <2>5. QED  BY <2>3, <2>4, RemoveAtFacts
  <1>4. QED  BY <1>2, <1>3

\* r is s with e at position i.
IsInserted(r, s, i, e) ==
  /\ Len(r) = Len(s) + 1
  /\ \A j \in 1 .. i - 1 : r[j] = s[j]
  /\ r[i] = e
  /\ \A j \in i .. Len(s) : r[j + 1] = s[j]

\* ListAdd behind the element at position i - 1.
LEMMA InsertAtFacts ==
  ASSUME NEW S, NEW s \in Seq(S), NEW i \in 1 .. Len(s) + 1, NEW e \in S
  PROVE  /\ InsertAt(s, i, e) \in Seq(S)
         /\ IsInserted(InsertAt(s, i, e), s, i, e)
         /\ ToSet(InsertAt(s, i, e)) = ToSet(s) \cup {e}
         /\ IsInjective(s) /\ e \notin ToSet(s) => IsInjective(InsertAt(s, i, e))
  <1> DEFINE r == InsertAt(s, i, e)
             a == SubSeq(s, 1, i - 1)
             m == <<e>>
             z == SubSeq(s, i, Len(s))
  <1>1. Len(s) \in Nat /\ i \in Nat /\ 1 <= i /\ i <= Len(s) + 1 /\ DOMAIN s = 1 .. Len(s)  OBVIOUS
  <1>2. a \in Seq(S) /\ Len(a) = i - 1 /\ \A j \in 1 .. i - 1 : a[j] = s[j]  BY <1>1
  <1>3. z \in Seq(S) /\ Len(z) = Len(s) - i + 1 /\ \A j \in 1 .. Len(s) - i + 1 : z[j] = s[j + i - 1]
    BY <1>1
  <1>4. m \in Seq(S) /\ Len(m) = 1 /\ m[1] = e  OBVIOUS
  <1>5. r = a \o m \o z  BY DEF InsertAt
  <1> HIDE DEF a, m, z, r
  <1>6. a \in Seq(S) /\ m \in Seq(S) /\ z \in Seq(S)  BY <1>2, <1>3, <1>4
  <1>7. a \o m \in Seq(S) /\ Len(a \o m) = Len(a) + Len(m)  BY <1>6
  <1>8. (a \o m) \o z \in Seq(S) /\ Len((a \o m) \o z) = Len(a \o m) + Len(z)  BY <1>6, <1>7
  <1>9. Len(a \o m) = i  BY <1>1, <1>2, <1>4, <1>7
  <1>10. r \in Seq(S) /\ Len(r) = Len(s) + 1 /\ DOMAIN r = 1 .. Len(s) + 1
    <2>1. r \in Seq(S) /\ Len(r) = Len(s) + 1  BY <1>1, <1>3, <1>5, <1>8, <1>9
    <2>2. QED  BY <2>1
  <1>11. ASSUME NEW j \in 1 .. Len(s) + 1
        PROVE  r[j] = IF j < i THEN s[j] ELSE IF j = i THEN e ELSE s[j - 1]
    <2>1. a \o m \in Seq(S) /\ Len(a \o m) = i  BY <1>7, <1>9
    <2>2. CASE j < i
      <3>1. j \in 1 .. i - 1 /\ (a \o m)[j] = a[j]  BY <2>2, <1>1, <1>2, <1>4
      <3>2. r[j] = (a \o m)[j]  BY <2>1, <2>2, <1>1, <1>3, <1>5
      <3>3. QED  BY <2>2, <3>1, <3>2, <1>2
    <2>3. CASE j = i
      <3>1. (a \o m)[Len(a) + 1] = m[1]
        <4>1. 1 \in 1 .. Len(m)  BY <1>4
        <4>2. Len(a) + 1 \in 1 .. Len(a) + Len(m) /\ Len(a) + 1 > Len(a) /\ Len(a) + 1 - Len(a) = 1  BY <1>2, <1>4, <1>1
        <4>3. QED  BY <4>1, <4>2, <1>6
      <3>2. (a \o m)[j] = m[1]
        <4>1. j = Len(a) + 1  BY <2>3, <1>1, <1>2
        <4>2. QED  BY <3>1, <4>1
      <3>3. j \in 1 .. Len(a \o m)  BY <2>1, <2>3, <1>1
      <3>4. r[j] = (a \o m)[j]  BY <2>1, <3>3, <1>3, <1>5
      <3>5. QED  BY <2>3, <3>2, <3>4, <1>1, <1>4
    <2>4. CASE j > i
      <3>1. j - i \in 1 .. Len(s) - i + 1 /\ r[j] = z[j - i]  BY <2>1, <2>4, <1>1, <1>3, <1>5
      <3>2. z[j - i] = s[j - i + i - 1]  BY <3>1, <1>3
      <3>3. j - i + i - 1 = j - 1  BY <1>1
      <3>4. QED  BY <2>4, <3>1, <3>2, <3>3, <1>1
    <2>5. QED  BY <2>2, <2>3, <2>4, <1>1
  <1>12. ToSet(r) = ToSet(s) \cup {e}
    <2>1. ASSUME NEW x \in ToSet(r)  PROVE x \in ToSet(s) \cup {e}
      <3>1. PICK j \in 1 .. Len(s) + 1 : x = r[j]  BY <1>10, <2>1 DEF ToSet
      <3>2. CASE j < i  BY <3>1, <3>2, <1>1, <1>11 DEF ToSet
      <3>3. CASE j = i  BY <3>1, <3>3, <1>1, <1>11
      <3>4. CASE j > i
        <4>1. j - 1 \in DOMAIN s /\ x = s[j - 1]  BY <3>1, <3>4, <1>1, <1>11
        <4>2. QED  BY Zenon, <4>1 DEF ToSet
      <3>5. QED  BY <3>2, <3>3, <3>4, <1>1
    <2>2. ASSUME NEW x \in ToSet(s)  PROVE x \in ToSet(r)
      <3>1. PICK j \in DOMAIN s : x = s[j]  BY <2>2 DEF ToSet
      <3>2. CASE j < i
        <4>1. j \in DOMAIN r /\ r[j] = x  BY <3>1, <3>2, <1>1, <1>10, <1>11
        <4>2. QED  BY <4>1 DEF ToSet
      <3>3. CASE ~(j < i)
        <4>1. j + 1 \in 1 .. Len(s) + 1 /\ ~(j + 1 < i) /\ j + 1 # i /\ j + 1 - 1 = j  BY <3>3, <1>1
        <4>2. r[j + 1] = x  BY <4>1, <3>1, <1>11
        <4>3. QED  BY <4>1, <4>2, <1>10 DEF ToSet
      <3>4. QED  BY <3>2, <3>3
    <2>3. e \in ToSet(r)
      <3>1. i \in DOMAIN r /\ r[i] = e  BY <1>1, <1>10, <1>11
      <3>2. QED  BY <3>1 DEF ToSet
    <2>4. QED  BY <2>1, <2>2, <2>3
  <1>13. ASSUME IsInjective(s), e \notin ToSet(s)  PROVE IsInjective(r)
    <2>1. \A j \in DOMAIN s : s[j] # e  BY <1>13 DEF ToSet
    <2> SUFFICES ASSUME NEW j \in 1 .. Len(s) + 1, NEW k \in 1 .. Len(s) + 1, r[j] = r[k], j < k  PROVE FALSE
      <3>1. ASSUME NEW j \in 1 .. Len(s) + 1, NEW k \in 1 .. Len(s) + 1, r[j] = r[k]  PROVE j = k
        <4>1. ~(j < k) /\ ~(k < j)  BY <3>1
        <4>2. QED  BY <4>1
      <3>2. QED  BY <3>1, <1>10 DEF IsInjective
    <2>2. CASE j = i
      <3>1. k - 1 \in DOMAIN s /\ r[k] = s[k - 1] /\ r[j] = e  BY <2>2, <1>1, <1>11
      <3>2. QED  BY <3>1, <2>1
    <2>3. CASE k = i
      <3>1. j \in DOMAIN s /\ r[j] = s[j] /\ r[k] = e  BY <2>3, <1>1, <1>11
      <3>2. QED  BY <3>1, <2>1
    <2>4. CASE j # i /\ k # i
      <3>1. PICK n \in DOMAIN s : r[j] = s[n] /\ n = IF j < i THEN j ELSE j - 1  BY <2>4, <1>1, <1>11
      <3>2. PICK l \in DOMAIN s : r[k] = s[l] /\ l = IF k < i THEN k ELSE k - 1  BY <2>4, <1>1, <1>11
      <3>3. n = l  BY <1>13, <3>1, <3>2 DEF IsInjective
      <3>4. QED  BY <2>4, <3>1, <3>2, <3>3, <1>1
    <2>5. QED  BY <2>2, <2>3, <2>4
  <1>14. (\A j \in 1 .. i - 1 : r[j] = s[j]) /\ r[i] = e  BY <1>1, <1>11
  <1>15. ASSUME NEW j \in i .. Len(s)  PROVE r[j + 1] = s[j]
    <2>1. j + 1 \in 1 .. Len(s) + 1 /\ ~(j + 1 < i) /\ j + 1 # i /\ j + 1 - 1 = j  BY <1>1
    <2>2. QED  BY <2>1, <1>11
  <1>16. IsInserted(r, s, i, e)  BY <1>10, <1>14, <1>15 DEF IsInserted
  <1>17. QED  BY <1>10, <1>12, <1>13, <1>16 DEF r
=============================================================================
