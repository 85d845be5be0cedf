------------------------ MODULE CrudOperationProofs ------------------------
(***************************************************************************)
(* What is proved of CrudOperation for all kinds of operations, sets of    *)
(* expressions, values and documents, and all bounds.                      *)
(***************************************************************************)
EXTENDS CrudOperation, TLAPS, NaturalsInduction, WellFoundedInduction,
        SequenceTheorems

-----------------------------------------------------------------------------
(***************************************************************************)
(* The recursive functions of the model.                                   *)
(***************************************************************************)
\* A set of numbers that is not empty has a least one.
LEMMA LeastNumber ==
  ASSUME NEW T \in SUBSET Nat, T # {}
  PROVE  \E n \in T : \A m \in T : n <= m
<1> DEFINE R == OpToRel(<, Nat)
<1>1. IsWellFoundedOn(R, Nat)
  BY NatLessThanWellFounded, Zenon
<1>2. \A x, y \in Nat : x < y => <<x, y>> \in R
  BY DEF OpToRel
<1> HIDE DEF R
<1>3. PICK n \in T : \A k \in T : ~ (<<k, n>> \in R)
  BY <1>1, WFMin
<1>4. \A k \in T : ~(k < n)
  BY <1>2, <1>3
<1> QED BY <1>4

\* A set with 0 and, below n, with the successor of each of its members has
\* all numbers up to n: otherwise there would be a least one that it lacks.
LEMMA UpTo ==
  ASSUME NEW n \in Nat, NEW T, 0 \in T, \A i \in 1..n : i - 1 \in T => i \in T
  PROVE  \A i \in 0..n : i \in T
<1> DEFINE Missing == {i \in 0..n : i \notin T}
<1>1. SUFFICES ASSUME Missing # {} PROVE FALSE
  OBVIOUS
<1>2. PICK m \in Missing : \A k \in Missing : m <= k
  <2>1. Missing \subseteq Nat
    OBVIOUS
  <2> HIDE DEF Missing
  <2> QED BY <1>1, <2>1, LeastNumber
<1>3. m \in 1..n /\ m - 1 \in 0..n /\ ~(m <= m - 1)
  BY <1>2
<1> QED BY <1>2, <1>3

\* What goes on from x by a given step, n times, exists.
Iterates(g, x, step, n) ==
  g[0] = x /\ \A i \in 1..n : g[i] = step[<<g[i - 1], i>>]

LEMMA Iteration ==
  ASSUME NEW n \in Nat, NEW X, NEW x \in X, NEW step \in [X \X (1..n) -> X]
  PROVE  \E g \in [0..n -> X] : Iterates(g, x, step, n)
<1> DEFINE T == {k \in 0..n : \E g \in [0..k -> X] : Iterates(g, x, step, k)}
<1>1. 0 \in T
  <2>1. Iterates([i \in 0..0 |-> x], x, step, 0)
    BY DEF Iterates
  <2>2. [i \in 0..0 |-> x] \in [0..0 -> X]
    OBVIOUS
  <2> QED BY <2>1, <2>2
<1>2. ASSUME NEW k \in 1..n, k - 1 \in T PROVE k \in T
  <2>1. PICK g \in [0..k - 1 -> X] : Iterates(g, x, step, k - 1)
    BY <1>2
  <2> DEFINE h == [i \in 0..k |-> IF i = k THEN step[<<g[k - 1], k>>] ELSE g[i]]
  <2>2. k - 1 \in 0..k - 1 /\ k # 0 /\ 0 \in 0..k
    OBVIOUS
  <2>3. <<g[k - 1], k>> \in X \X (1..n)
    BY <2>1, <2>2
  <2>4. step[<<g[k - 1], k>>] \in X
    BY <2>3
  <2>5. ASSUME NEW i \in 0..k, i # k PROVE i \in 0..k - 1
    BY <2>5
  <2>6. h \in [0..k -> X]
    BY <2>1, <2>4, <2>5
  <2>7. h[0] = x
    BY <2>1, <2>2 DEF Iterates
  <2>8. ASSUME NEW i \in 1..k PROVE h[i] = step[<<h[i - 1], i>>]
    <3>1. i - 1 \in 0..k /\ i - 1 # k /\ i \in 0..k
      OBVIOUS
    <3>2. h[i - 1] = g[i - 1]
      BY <3>1
    <3>3. CASE i = k
      BY <3>1, <3>2, <3>3
    <3>4. CASE i # k
      <4>1. i \in 1..k - 1
        BY <3>4
      <4> QED BY <2>1, <3>1, <3>2, <3>4, <4>1 DEF Iterates
    <3> QED BY <3>3, <3>4
  <2> HIDE DEF h
  <2>9. Iterates(h, x, step, k)
    BY <2>7, <2>8 DEF Iterates
  <2> QED BY <2>6, <2>9
<1>3. n \in T
  <2>1. \A i \in 0..n : i \in T
    <3> HIDE DEF T
    <3> QED BY <1>1, <1>2, UpTo
  <2> QED BY <2>1
<1> QED BY <1>3

\* The members of a sequence to which one is appended.
LEMMA AppendRange ==
  ASSUME NEW S, NEW s \in Seq(S), NEW e \in S
  PROVE  /\ Append(s, e) \in Seq(S) /\ Len(Append(s, e)) = Len(s) + 1
         /\ \A i \in 1..Len(s) : Append(s, e)[i] = s[i]
         /\ Append(s, e)[Len(s) + 1] = e
         /\ ToSet(Append(s, e)) = ToSet(s) \cup {e}
<1>1. /\ Append(s, e) \in Seq(S) /\ Len(Append(s, e)) = Len(s) + 1
      /\ \A i \in 1..Len(s) : Append(s, e)[i] = s[i]
      /\ Append(s, e)[Len(s) + 1] = e
  OBVIOUS
<1>2. DOMAIN s = 1..Len(s) /\ DOMAIN Append(s, e) = 1..Len(s) + 1 /\ Len(s) \in Nat
  BY <1>1
<1>3. 1..Len(s) + 1 = 1..Len(s) \cup {Len(s) + 1}
  BY <1>2
<1> DEFINE t == Append(s, e)
<1> HIDE DEF t
<1>4. ToSet(t) = ToSet(s) \cup {e}
  BY <1>1, <1>2, <1>3 DEF ToSet, t
<1> QED BY <1>1, <1>4 DEF t

\* Bindings::add_placeholders adds each name that is not there yet.
LEMMA AddPlaceholders ==
  ASSUME NEW known \in Seq(Names), NEW names \in Seq(Names)
  PROVE  /\ add_placeholders(known, names) \in Seq(Names)
         /\ IsInjective(known) => IsInjective(add_placeholders(known, names))
         /\ IsInjective(names) /\ ToSet(known) \cap ToSet(names) = {}
            => add_placeholders(known, names) = known \o names
<1> DEFINE n == Len(names)
           X == Seq(Names)
           step == [p \in X \X (1..n) |->
                      IF names[p[2]] \in ToSet(p[1]) THEN p[1] ELSE Append(p[1], names[p[2]])]
           Body(g) == [i \in 0..n |->
                         IF i = 0 THEN known
                         ELSE IF names[i] \in ToSet(g[i - 1]) THEN g[i - 1]
                         ELSE Append(g[i - 1], names[i])]
           added == CHOOSE g : g = Body(g)
<1>1. n \in Nat /\ \A i \in 1..n : names[i] \in Names
  OBVIOUS
<1>2. step \in [X \X (1..n) -> X]
  BY <1>1
<1>3. PICK g \in [0..n -> X] : Iterates(g, known, step, n)
  <2>1. known \in X
    OBVIOUS
  <2> HIDE DEF step, X, n
  <2> QED BY <1>1, <1>2, <2>1, Iteration
<1>4. g = Body(g)
  <2>1. g \in [0..n -> X] /\ g[0] = known /\ \A i \in 1..n : g[i] = step[<<g[i - 1], i>>]
    BY <1>3 DEF Iterates
  <2>2. ASSUME NEW i \in 1..n
        PROVE  step[<<g[i - 1], i>>] = IF names[i] \in ToSet(g[i - 1]) THEN g[i - 1]
                                       ELSE Append(g[i - 1], names[i])
    <3>1. i - 1 \in 0..n
      BY <1>1
    <3> QED BY <2>1, <3>1
  <2>3. \A i \in 0..n : i = 0 \/ i \in 1..n
    BY <1>1
  <2> HIDE DEF step
  <2> QED BY <2>1, <2>2, <2>3
<1> HIDE DEF step
<1>5. added = Body(added)
  <2> HIDE DEF Body
  <2> QED BY <1>4, Zenon
<1>6. add_placeholders(known, names) = added[n]
  BY DEF add_placeholders
<1> HIDE DEF added
<1>7. added[0] = known
  BY <1>1, <1>5
<1>8. ASSUME NEW i \in 1..n
      PROVE  added[i] = IF names[i] \in ToSet(added[i - 1]) THEN added[i - 1]
                        ELSE Append(added[i - 1], names[i])
  <2>1. i \in 0..n /\ i # 0
    BY <1>1
  <2> QED BY <1>5, <2>1, Zenon
<1> HIDE DEF Body
<1> DEFINE T == {i \in 0..n : added[i] \in Seq(Names)
                              /\ (IsInjective(known) => IsInjective(added[i]))}
<1>9. n \in T
  <2>1. 0 \in T
    BY <1>1, <1>7
  <2>2. ASSUME NEW i \in 1..n, i - 1 \in T PROVE i \in T
    <3> DEFINE a == added[i - 1]
    <3>1. a \in Seq(Names) /\ (IsInjective(known) => IsInjective(a)) /\ i \in 0..n
      BY <2>2, <1>1
    <3> HIDE DEF a
    <3>2. CASE names[i] \in ToSet(a)
      BY <1>8, <3>1, <3>2 DEF a
    <3>3. CASE names[i] \notin ToSet(a)
      <4>1. added[i] = Append(a, names[i])
        BY <1>8, <3>3 DEF a
      <4>2. Append(a, names[i]) \in Seq(Names)
        BY <1>1, <3>1
      <4>3. ASSUME IsInjective(a) PROVE IsInjective(Append(a, names[i]))
        <5>1. \A j \in 1..Len(a) : Append(a, names[i])[j] = a[j] /\ a[j] # names[i]
          BY <3>1, <3>3 DEF ToSet
        <5>2. Append(a, names[i])[Len(a) + 1] = names[i]
          BY <3>1
        <5>3. DOMAIN Append(a, names[i]) = 1..Len(a) + 1 /\ DOMAIN a = 1..Len(a) /\ Len(a) \in Nat
          BY <1>1, <3>1
        <5>4. 1..Len(a) + 1 = 1..Len(a) \cup {Len(a) + 1}
          BY <5>3
        <5> DEFINE b == Append(a, names[i])
        <5> HIDE DEF b
        <5>5. IsInjective(b)
          BY <4>3, <5>1, <5>2, <5>3, <5>4 DEF IsInjective, b
        <5> QED BY <5>5 DEF b
      <4> QED BY <3>1, <4>1, <4>2, <4>3
    <3> QED BY <3>2, <3>3
  <2> HIDE DEF T
  <2>3. \A i \in 0..n : i \in T
    BY <1>1, <2>1, <2>2, UpTo
  <2> QED BY <1>1, <2>3
<1>10. ASSUME IsInjective(names), ToSet(known) \cap ToSet(names) = {}
       PROVE  added[n] = known \o names
  <2> DEFINE m == Len(known)
             Follows(a, i) == /\ a \in Seq(Names) /\ Len(a) = m + i
                              /\ \A k \in 1..m : a[k] = known[k]
                              /\ \A k \in 1..i : a[m + k] = names[k]
             U == {i \in 0..n : Follows(added[i], i)}
  <2>0. m \in Nat /\ DOMAIN known = 1..m /\ DOMAIN names = 1..n
    OBVIOUS
  <2>1. 0 \in U
    BY <1>1, <1>7
  <2>2. ASSUME NEW i \in 1..n, i - 1 \in U PROVE i \in U
    <3> DEFINE a == added[i - 1]
    <3>1. Follows(a, i - 1) /\ i \in 0..n
      BY <2>2, <1>1
    <3> HIDE DEF a
    <3>2. names[i] \notin ToSet(a)
      <4> SUFFICES ASSUME NEW k \in 1..Len(a), a[k] = names[i] PROVE FALSE
        BY <3>1 DEF ToSet
      <4>1. CASE k \in 1..m
        BY <1>10, <2>0, <3>1, <4>1 DEF ToSet
      <4>2. CASE k \notin 1..m
        <5> DEFINE j == k - m
        <5>1. j \in 1..i - 1 /\ k = m + j /\ j \in 1..n /\ j # i
          BY <2>0, <3>1, <4>2, <1>1
        <5>2. a[k] = names[j]
          BY <3>1, <5>1
        <5> QED BY <1>10, <2>0, <5>1, <5>2 DEF IsInjective
      <4> QED BY <4>1, <4>2
    <3>3. added[i] = Append(a, names[i])
      BY <1>8, <3>2 DEF a
    <3> DEFINE b == Append(a, names[i])
    <3>4. b \in Seq(Names) /\ Len(b) = Len(a) + 1 /\ b[Len(a) + 1] = names[i]
          /\ \A k \in 1..Len(a) : b[k] = a[k]
      BY <1>1, <3>1
    <3> HIDE DEF b
    <3>5. Len(b) = m + i /\ Len(a) + 1 = m + i
      BY <2>0, <3>1, <3>4
    <3>6. ASSUME NEW k \in 1..m PROVE b[k] = known[k]
      <4>1. k \in 1..Len(a)
        BY <1>1, <2>0, <3>1
      <4> QED BY <3>1, <3>4, <4>1
    <3>7. ASSUME NEW k \in 1..i PROVE b[m + k] = names[k]
      <4>1. CASE k = i
        BY <3>4, <3>5, <4>1
      <4>2. CASE k # i
        <5>1. k \in 1..i - 1 /\ m + k \in 1..Len(a)
          BY <1>1, <2>0, <3>1, <4>2
        <5> QED BY <3>1, <3>4, <5>1
      <4> QED BY <4>1, <4>2
    <3>8. Follows(b, i)
      BY <3>4, <3>5, <3>6, <3>7
    <3> HIDE DEF Follows
    <3> QED BY <3>1, <3>3, <3>8 DEF b
  <2> HIDE DEF U
  <2>3. \A i \in 0..n : i \in U
    BY <1>1, <2>1, <2>2, UpTo
  <2>4. Follows(added[n], n)
    BY <1>1, <2>3 DEF U
  <2> DEFINE a == added[n]
  <2>5. Follows(a, n)
    BY <2>4
  <2> HIDE DEF a
  <2>6. /\ known \o names \in Seq(Names) /\ Len(known \o names) = m + n
        /\ \A k \in 1..m : (known \o names)[k] = known[k]
        /\ \A k \in 1..n : (known \o names)[m + k] = names[k]
    BY <2>0
  <2>7. ASSUME NEW k \in 1..m + n PROVE a[k] = (known \o names)[k]
    <3>1. CASE k \in 1..m
      BY <2>5, <2>6, <3>1
    <3>2. CASE k \notin 1..m
      <4> DEFINE j == k - m
      <4>1. j \in 1..n /\ k = m + j
        BY <1>1, <2>0, <3>2
      <4> HIDE DEF j
      <4>2. a[m + j] = names[j] /\ (known \o names)[m + j] = names[j]
        BY <2>5, <2>6, <4>1
      <4> QED BY <4>1, <4>2
    <3> QED BY <3>1, <3>2
  <2>8. a = known \o names
    BY <2>5, <2>6, <2>7, SeqEqual
  <2> QED BY <2>8 DEF a
<1> QED BY <1>6, <1>9, <1>10

\* Without takes out what is in the set, and leaves the rest as it is.
LEMMA WithoutRange ==
  ASSUME NEW E, NEW s \in Seq(E), NEW S
  PROVE  /\ Without(s, S) \in Seq(E)
         /\ ToSet(Without(s, S)) = ToSet(s) \ S
         /\ ToSet(s) \cap S = {} => Without(s, S) = s
<1> DEFINE n == Len(s)
           X == Seq(E)
           step == [p \in X \X (1..n) |->
                      IF s[p[2]] \in S THEN p[1] ELSE Append(p[1], s[p[2]])]
           Body(g) == [i \in 0..n |->
                         IF i = 0 THEN << >>
                         ELSE IF s[i] \in S THEN g[i - 1] ELSE Append(g[i - 1], s[i])]
           kept == CHOOSE g : g = Body(g)
<1>1. n \in Nat /\ DOMAIN s = 1..n /\ \A i \in 1..n : s[i] \in E
  OBVIOUS
<1>2. step \in [X \X (1..n) -> X]
  BY <1>1
<1>3. PICK g \in [0..n -> X] : Iterates(g, << >>, step, n)
  <2>1. << >> \in X
    OBVIOUS
  <2> HIDE DEF step, X, n
  <2> QED BY <1>1, <1>2, <2>1, Iteration
<1>4. g = Body(g)
  <2>1. g \in [0..n -> X] /\ g[0] = << >> /\ \A i \in 1..n : g[i] = step[<<g[i - 1], i>>]
    BY <1>3 DEF Iterates
  <2>2. ASSUME NEW i \in 1..n
        PROVE  step[<<g[i - 1], i>>] = IF s[i] \in S THEN g[i - 1] ELSE Append(g[i - 1], s[i])
    <3>1. i - 1 \in 0..n
      BY <1>1
    <3> QED BY <2>1, <3>1
  <2>3. \A i \in 0..n : i = 0 \/ i \in 1..n
    BY <1>1
  <2> HIDE DEF step
  <2> QED BY <2>1, <2>2, <2>3
<1> HIDE DEF step
<1>5. kept = Body(kept)
  <2> HIDE DEF Body
  <2> QED BY <1>4, Zenon
<1>6. Without(s, S) = kept[n]
  BY DEF Without
<1> HIDE DEF kept
<1>7. kept[0] = << >>
  BY <1>1, <1>5
<1>8. ASSUME NEW i \in 1..n
      PROVE  kept[i] = IF s[i] \in S THEN kept[i - 1] ELSE Append(kept[i - 1], s[i])
  <2>1. i \in 0..n /\ i # 0
    BY <1>1
  <2> QED BY <1>5, <2>1, Zenon
<1> HIDE DEF Body
<1> DEFINE T == {i \in 0..n : kept[i] \in Seq(E)
                              /\ ToSet(kept[i]) = {s[k] : k \in 1..i} \ S}
<1>9. n \in T
  <2>1. 0 \in T
    <3>1. ToSet(<< >>) = {} /\ {s[k] : k \in 1..0} = {} /\ << >> \in Seq(E)
      BY DEF ToSet
    <3>2. 0 \in 0..n
      BY <1>1
    <3> QED BY <1>7, <3>1, <3>2, Zenon
  <2>2. ASSUME NEW i \in 1..n, i - 1 \in T PROVE i \in T
    <3> DEFINE a == kept[i - 1]
    <3>1. a \in Seq(E) /\ ToSet(a) = {s[k] : k \in 1..i - 1} \ S /\ i \in 0..n
      BY <2>2, <1>1
    <3> HIDE DEF a
    <3>2. 1..i = 1..i - 1 \cup {i}
      BY <1>1
    <3>3. {s[k] : k \in 1..i} = {s[k] : k \in 1..i - 1} \cup {s[i]}
      BY <3>2
    <3>4. CASE s[i] \in S
      BY <1>8, <3>1, <3>3, <3>4 DEF a
    <3>5. CASE s[i] \notin S
      <4> DEFINE b == Append(a, s[i])
      <4>1. b \in Seq(E) /\ ToSet(b) = ToSet(a) \cup {s[i]}
        <5> DEFINE e == s[i]
        <5>1. e \in E
          BY <1>1
        <5> HIDE DEF e
        <5>2. Append(a, e) \in Seq(E) /\ ToSet(Append(a, e)) = ToSet(a) \cup {e}
          BY <3>1, <5>1, AppendRange
        <5> QED BY <5>2 DEF e
      <4>2. kept[i] = b
        BY <1>8, <3>5 DEF a
      <4> HIDE DEF b
      <4> QED BY <3>1, <3>3, <3>5, <4>1, <4>2
    <3> QED BY <3>4, <3>5
  <2> HIDE DEF T
  <2>3. \A i \in 0..n : i \in T
    BY <1>1, <2>1, <2>2, UpTo
  <2> QED BY <1>1, <2>3
<1>10. ToSet(kept[n]) = ToSet(s) \ S
  <2>1. ToSet(s) = {s[k] : k \in 1..n}
    BY <1>1 DEF ToSet
  <2> QED BY <1>9, <2>1
<1>11. ASSUME ToSet(s) \cap S = {} PROVE kept[n] = s
  <2> DEFINE Follows(a, i) == /\ a \in Seq(E) /\ Len(a) = i
                              /\ \A k \in 1..i : a[k] = s[k]
             U == {i \in 0..n : Follows(kept[i], i)}
  <2>1. 0 \in U
    <3>1. 0 \in 0..n /\ Follows(<< >>, 0)
      BY <1>1
    <3> HIDE DEF Follows
    <3> QED BY <1>7, <3>1
  <2>2. ASSUME NEW i \in 1..n, i - 1 \in U PROVE i \in U
    <3> DEFINE a == kept[i - 1]
               b == Append(a, s[i])
    <3>1. Follows(a, i - 1) /\ i \in 0..n
      BY <2>2, <1>1
    <3> HIDE DEF a
    <3>2. kept[i] = b
      BY <1>1, <1>8, <1>11 DEF ToSet, a
    <3>3. b \in Seq(E) /\ Len(b) = Len(a) + 1 /\ b[Len(a) + 1] = s[i]
          /\ \A k \in 1..Len(a) : b[k] = a[k]
      BY <1>1, <3>1
    <3> HIDE DEF b
    <3>4. Len(b) = i /\ Len(a) + 1 = i
      BY <1>1, <3>1, <3>3
    <3>5. ASSUME NEW k \in 1..i PROVE b[k] = s[k]
      <4>1. CASE k = i
        BY <3>3, <3>4, <4>1
      <4>2. CASE k # i
        <5>1. k \in 1..i - 1 /\ k \in 1..Len(a)
          BY <1>1, <3>1, <4>2
        <5> QED BY <3>1, <3>3, <5>1
      <4> QED BY <4>1, <4>2
    <3>6. Follows(b, i)
      BY <3>3, <3>4, <3>5
    <3> HIDE DEF Follows
    <3> QED BY <3>1, <3>2, <3>6
  <2> HIDE DEF U
  <2>3. \A i \in 0..n : i \in U
    BY <1>1, <2>1, <2>2, UpTo
  <2> DEFINE a == kept[n]
  <2>4. Follows(a, n)
    BY <1>1, <2>3 DEF U
  <2> HIDE DEF a
  <2>5. a = s
    BY <1>1, <2>4, SeqEqual
  <2> QED BY <2>5 DEF a
<1> QED BY <1>6, <1>9, <1>10, <1>11

-----------------------------------------------------------------------------
(***************************************************************************)
(* The inductive invariant.                                                *)
(***************************************************************************)
\* An application as the properties speak of uses a name in one expression
\* only, and, for SentAsGiven, no placeholders in sort and projection.
Careful == ~MayRepeat
PlainLists == \A e \in ListExprs : e.names = << >>

Slots == {"criteria", "having", "group", "sort", "projection", "operation"}
Clauses == [slot : Slots, refs : Seq([name : Names, pos : Nat]), built : BOOLEAN]

\* the placeholders of a clause are where it says, and have a place among n values
Fits(c, p) == \A j \in DOMAIN c.refs : /\ c.refs[j].pos \in DOMAIN p
                                       /\ p[c.refs[j].pos] = c.refs[j].name
Covered(c, n) == \A j \in DOMAIN c.refs : c.refs[j].pos \in 1..n

Types ==
  /\ TypeOK
  /\ clauses \in Seq(Clauses)
  /\ docs \in Seq(Docs) /\ op_docs \in Seq(Docs) /\ rows \in Seq(Docs)
  /\ last_bound \in [Names -> Values \cup {Unbound}]
  /\ given \in SUBSET Names /\ awaited \in SUBSET Names
  /\ clean \in BOOLEAN

\* Every placeholder of the message is at its position; all but those of an
\* update without criteria have a place among the values.
RefsFit ==
  PlainLists =>
  /\ \A c \in ToSet(clauses) : Fits(c, placeholders)
  /\ (kind = "update" => HasCriteria)
     => \A c \in ToSet(clauses) : Covered(c, Len(bound))

\* Only the first position of a name has a value: the last one that the name got.
FirstBound ==
  \A i \in DOMAIN bound :
    bound[i] # Unbound => /\ bound[i] = last_bound[placeholders[i]]
                          /\ \A j \in DOMAIN placeholders :
                               placeholders[j] = placeholders[i] => i <= j

\* The names the object knows come from accepted expressions: a collection
\* keeps no others, a table does after an expression that did not parse.
Known ==
  kind \in Collection \/ clean => /\ ToSet(placeholders) \subseteq given
                                  /\ IsInjective(placeholders)

\* Until a call fails, what has no value is awaited.
Waiting ==
  clean => /\ \A i \in DOMAIN placeholders :
                i \notin DOMAIN bound \/ bound[i] = Unbound => placeholders[i] \in awaited
           /\ kind \in Table /\ ~HasCriteria => ToSet(placeholders) \subseteq awaited
           /\ \A c \in ToSet(clauses) : c.built

\* Only documents for add can be empty or impossible to encode.
Rows == kind # "add" => ToSet(docs) \cap Noops = {}

IInv == Types /\ RefsFit /\ FirstBound /\ Known /\ Waiting /\ Rows
        /\ (PlainLists => SentAsGiven)

-----------------------------------------------------------------------------
(***************************************************************************)
(* What the helpers give.                                                  *)
(***************************************************************************)
\* vector::resize keeps the values it has room for.
LEMMA Resized ==
  ASSUME NEW b \in Seq(Values \cup {Unbound}), NEW n \in Nat
  PROVE  /\ resize(b, n) \in Seq(Values \cup {Unbound})
         /\ Len(resize(b, n)) = n /\ DOMAIN resize(b, n) = 1..n
         /\ \A i \in 1..n : resize(b, n)[i] = IF i <= Len(b) THEN b[i] ELSE Unbound
<1>1. \A i \in 1..n : i <= Len(b) => b[i] \in Values \cup {Unbound}
  OBVIOUS
<1>2. resize(b, n) \in [1..n -> Values \cup {Unbound}]
  BY <1>1 DEF resize
<1>3. \A i \in 1..n : resize(b, n)[i] = IF i <= Len(b) THEN b[i] ELSE Unbound
  BY DEF resize
<1> HIDE DEF resize
<1>4. resize(b, n) \in Seq(Values \cup {Unbound}) /\ Len(resize(b, n)) = n
  BY <1>2
<1> QED BY <1>2, <1>3, <1>4

\* The clause of an expression whose placeholders come after n others.
IsParsed(c, slot, names, n) ==
  /\ c \in Clauses /\ c.slot = slot /\ c.built
  /\ DOMAIN c.refs = 1..Len(names)
  /\ \A j \in 1..Len(names) : c.refs[j].name = names[j] /\ c.refs[j].pos = n + j

LEMMA ParsedClause ==
  ASSUME NEW names \in Seq(Names), NEW n \in Nat, NEW slot \in Slots
  PROVE  IsParsed(Clause(slot, conv_placeholder(names, n), TRUE), slot, names, n)
<1> DEFINE c == Clause(slot, conv_placeholder(names, n), TRUE)
           r == conv_placeholder(names, n)
<1>1. /\ DOMAIN names = 1..Len(names) /\ Len(names) \in Nat
      /\ \A j \in 1..Len(names) : names[j] \in Names
  OBVIOUS
<1>2. r \in [1..Len(names) -> [name : Names, pos : Nat]]
  BY <1>1 DEF conv_placeholder, Ref
<1>3. \A j \in 1..Len(names) : r[j].name = names[j] /\ r[j].pos = n + j
  BY <1>1 DEF conv_placeholder, Ref
<1> HIDE DEF r
<1>4. r \in Seq([name : Names, pos : Nat]) /\ DOMAIN r = 1..Len(names)
  <2> DEFINE R == [name : Names, pos : Nat]
  <2> HIDE DEF R
  <2>1. r \in [1..Len(names) -> R]
    BY <1>2 DEF R
  <2>2. r \in Seq(R) /\ DOMAIN r = 1..Len(names)
    BY <1>1, <2>1
  <2> QED BY <2>2 DEF R
<1>5. c = Clause(slot, r, TRUE)
  BY DEF r
<1>6. c.slot = slot /\ c.refs = r /\ c.built = TRUE
  BY <1>5 DEF Clause
<1>7. c \in Clauses
  BY <1>4, <1>5 DEF Clause, Clauses
<1> HIDE DEF c
<1>8. IsParsed(c, slot, names, n)
  BY <1>3, <1>4, <1>6, <1>7 DEF IsParsed
<1> QED BY <1>8 DEF c

\* The clause that a value which does not parse leaves, or a path.
IsEmptyClause(c, slot, built) ==
  c \in Clauses /\ c.slot = slot /\ c.built = built /\ DOMAIN c.refs = {}

LEMMA EmptyClause ==
  ASSUME NEW slot \in Slots, NEW built \in BOOLEAN
  PROVE  IsEmptyClause(Clause(slot, << >>, built), slot, built)
<1>1. PICK r : r = << >> /\ r \in Seq([name : Names, pos : Nat]) /\ DOMAIN r = {}
  <2> DEFINE R == [name : Names, pos : Nat]
  <2> HIDE DEF R
  <2>1. << >> \in Seq(R) /\ DOMAIN << >> = {}
    OBVIOUS
  <2> QED BY <2>1 DEF R
<1>2. Clause(slot, r, built) \in Clauses
  BY <1>1 DEF Clause, Clauses
<1>3. Clause(slot, r, built).slot = slot /\ Clause(slot, r, built).refs = r
  BY DEF Clause
<1>4. Clause(slot, r, built).built = built
  BY DEF Clause
<1> QED BY <1>1, <1>2, <1>3, <1>4 DEF IsEmptyClause

\* A new criteria or having takes the place of the old one.
LEMMA Replaced ==
  ASSUME clauses \in Seq(Clauses), NEW c \in Clauses
  PROVE  /\ ReplaceClause(c) \in Seq(Clauses)
         /\ ToSet(ReplaceClause(c)) = {d \in ToSet(clauses) : d.slot # c.slot} \cup {c}
<1> DEFINE S == {d \in ToSet(clauses) : d.slot = c.slot}
           s == Without(clauses, S)
<1>1. s \in Seq(Clauses) /\ ToSet(s) = ToSet(clauses) \ S
  <2> HIDE DEF S
  <2> QED BY WithoutRange
<1>2. ReplaceClause(c) = Append(s, c)
  BY DEF ReplaceClause
<1> HIDE DEF s
<1>3. Append(s, c) \in Seq(Clauses) /\ ToSet(Append(s, c)) = ToSet(s) \cup {c}
  BY <1>1, AppendRange
<1> QED BY <1>1, <1>2, <1>3

\* The documents before a bad one, all of them when there is none.
LEMMA BeforeBadRange ==
  ASSUME NEW s \in Seq(Docs)
  PROVE  /\ BeforeBad(s) \in Seq(Docs)
         /\ ToSet(s) \cap Bad = {} => BeforeBad(s) = s
<1> DEFINE I == {i \in 1..Len(s) : s[i] \in Bad}
           n == IF I # {} THEN Min(I) ELSE 0
<1>1. BeforeBad(s) = IF n = 0 THEN s ELSE SubSeq(s, 1, n - 1)
  BY DEF BeforeBad, SelectInSeq
<1>2. CASE I = {}
  BY <1>1, <1>2
<1>3. CASE I # {}
  <2>1. PICK k \in I : \A m \in I : k <= m
    <3>1. I \subseteq Nat
      OBVIOUS
    <3> HIDE DEF I
    <3> QED BY <1>3, <3>1, LeastNumber
  <2>2. n \in I
    <3>1. n = CHOOSE i \in I : \A m \in I : i <= m
      BY <1>3 DEF Min
    <3> HIDE DEF n, I
    <3> QED BY <2>1, <3>1
  <2>3. n \in 1..Len(s) /\ s[n] \in Bad
    BY <2>2
  <2> HIDE DEF n, I
  <2>4. SubSeq(s, 1, n - 1) \in Seq(Docs)
    BY <2>3
  <2>5. ToSet(s) \cap Bad # {}
    BY <2>3 DEF ToSet
  <2> QED BY <1>1, <2>3, <2>4, <2>5
<1> QED BY <1>2, <1>3

\* What is appended is a suffix.
LEMMA SuffixOfAppended ==
  ASSUME NEW S, NEW s \in Seq(S), NEW t \in Seq(S)
  PROVE  IsSuffix(t, s \o t)
<1> DEFINE m == Len(s)
           n == Len(t)
           u == s \o t
           rt == Reverse(t)
           ru == Reverse(u)
<1>1. /\ m \in Nat /\ n \in Nat /\ DOMAIN t = 1..n
      /\ u \in Seq(S) /\ Len(u) = m + n /\ \A k \in 1..n : u[m + k] = t[k]
  OBVIOUS
<1>2. \A k \in 1..m + n : u[k] \in S
  BY <1>1
<1>3. \A k \in 1..n : t[k] \in S
  BY <1>1
<1> HIDE DEF u, m, n
<1>4. ASSUME NEW i \in 1..n
      PROVE  /\ (n - i) + 1 \in 1..n /\ ((m + n) - i) + 1 = m + ((n - i) + 1)
             /\ ((m + n) - i) + 1 \in 1..m + n /\ i \in 1..m + n
  BY <1>1
<1>5. rt = [i \in 1..n |-> t[(n - i) + 1]]
  BY DEF Reverse, n
<1>6. ru = [i \in 1..m + n |-> u[((m + n) - i) + 1]]
  BY <1>1 DEF Reverse
<1>7. \A i \in 1..n : rt[i] = ru[i]
  BY <1>1, <1>4, <1>5, <1>6
<1>8. rt \in Seq(S) /\ Len(rt) = n
  <2>1. rt \in [1..n -> S]
    BY <1>3, <1>4, <1>5
  <2> HIDE DEF rt
  <2> QED BY <1>1, <2>1
<1>9. ru \in Seq(S) /\ Len(ru) = m + n
  <2>1. \A i \in 1..m + n : ((m + n) - i) + 1 \in 1..m + n
    BY <1>1
  <2>2. ru \in [1..m + n -> S]
    BY <1>2, <1>6, <2>1
  <2>3. m + n \in Nat
    BY <1>1
  <2> HIDE DEF ru
  <2> QED BY <2>2, <2>3
<1> HIDE DEF rt, ru
<1>10. SubSeq(rt, 1, n) = SubSeq(ru, 1, n)
  <2>1. /\ SubSeq(rt, 1, n) \in Seq(S) /\ Len(SubSeq(rt, 1, n)) = n
        /\ \A i \in 1..n : SubSeq(rt, 1, n)[i] = rt[i]
    BY <1>1, <1>8
  <2>2. /\ SubSeq(ru, 1, n) \in Seq(S) /\ Len(SubSeq(ru, 1, n)) = n
        /\ \A i \in 1..n : SubSeq(ru, 1, n)[i] = ru[i]
    BY <1>1, <1>9
  <2> QED BY <1>7, <2>1, <2>2, SeqEqual
<1>11. n <= m + n
  BY <1>1
<1>12. IsPrefix(rt, ru)
  BY <1>8, <1>9, <1>10, <1>11 DEF IsPrefix
<1> QED BY <1>12 DEF IsSuffix, rt, ru, u

\* The placeholders after an expression.
LEMMA PlaceholdersType ==
  ASSUME Types, NEW names \in Seq(Names), NEW e, e.names = names, NEW p, p = PlaceholdersAfter(e)
  PROVE  /\ p \in Seq(Names)
         /\ kind \in Table \/ ~e.parses => Len(placeholders) <= Len(p)
         /\ kind \in Collection => IsInjective(p)
<1>1. placeholders \in Seq(Names) /\ (kind \in Collection => IsInjective(placeholders))
  BY DEF Types, TypeOK
<1> DEFINE q == placeholders \o names
           a == add_placeholders(placeholders, names)
<1>2. q \in Seq(Names) /\ Len(placeholders) <= Len(q) /\ Len(placeholders) <= Len(placeholders)
  BY <1>1
<1>3. a \in Seq(Names) /\ (IsInjective(placeholders) => IsInjective(a))
  BY <1>1, AddPlaceholders
<1>4. kind \in Collection => kind \notin Table
  BY DEF Collection, Table
<1>5. p = IF kind \in Table THEN q ELSE IF e.parses THEN a ELSE placeholders
  BY DEF PlaceholdersAfter
<1> HIDE DEF q, a
<1> QED BY <1>1, <1>2, <1>3, <1>4, <1>5

-----------------------------------------------------------------------------
(***************************************************************************)
(* Types.                                                                  *)
(***************************************************************************)
\* The expressions of the application.
LEMMA Expressions ==
  ASSUME NEW e \in Exprs \cup ListExprs
  PROVE  /\ e.names \in Seq(Names) /\ e.parses \in BOOLEAN /\ e.built \in BOOLEAN
         /\ e.parses => e.built
BY CrudAssumption

\* Every call with an expression that the message keeps: the clauses may
\* change, the values are those of before, with room for the placeholders.
Builds(e) ==
  /\ placeholders' = PlaceholdersAfter(e)
  /\ \/ bound' = bound /\ (kind \in Table \/ ~e.parses)
     \/ \E b \in {bound, << >>} : bound' = resize(b, Len(placeholders'))
  /\ clauses' \in Seq(Clauses)
  /\ awaited' \in SUBSET Names
  /\ Accepted(e)
  /\ UNCHANGED <<kind, limits, rowVars, last_bound>>

LEMMA BuildsTypes ==
  ASSUME Types, NEW e \in Exprs, Builds(e)
  PROVE  Types'
<1> DEFINE names == e.names
<1>1. names \in Seq(Names) /\ e.parses \in BOOLEAN
  BY Expressions
<1>2. /\ placeholders' \in Seq(Names)
      /\ kind \in Table \/ ~e.parses => Len(placeholders) <= Len(placeholders')
      /\ kind \in Collection => IsInjective(placeholders')
  <2> HIDE DEF names
  <2>1. e.names = names /\ placeholders' = PlaceholdersAfter(e)
    BY DEF names, Builds
  <2>2. PICK p : p = placeholders'
    OBVIOUS
  <2>3. p = PlaceholdersAfter(e)
    BY <2>1, <2>2
  <2>4. /\ p \in Seq(Names)
        /\ kind \in Table \/ ~e.parses => Len(placeholders) <= Len(p)
        /\ kind \in Collection => IsInjective(p)
    BY <1>1, <2>1, <2>3, PlaceholdersType
  <2> QED BY <2>2, <2>4
<1>3. bound \in Seq(Values \cup {Unbound}) /\ Len(bound) <= Len(placeholders)
      /\ (kind \in Collection => Len(bound) = Len(placeholders))
      /\ Len(placeholders) \in Nat /\ Len(placeholders') \in Nat /\ Len(bound) \in Nat
  BY <1>2 DEF Types, TypeOK
<1>4. /\ bound' \in Seq(Values \cup {Unbound}) /\ Len(bound') <= Len(placeholders')
      /\ kind \in Collection => Len(bound') = Len(placeholders')
  <2>1. CASE bound' = bound /\ (kind \in Table \/ ~e.parses)
    <3>1. Len(bound') <= Len(placeholders')
      BY <1>2, <1>3, <2>1
    <3>2. kind \in Collection => placeholders' = placeholders
      BY <2>1 DEF Builds, PlaceholdersAfter, Collection, Table
    <3> QED BY <1>3, <2>1, <3>1, <3>2
  <2>2. CASE \E b \in {bound, << >>} : bound' = resize(b, Len(placeholders'))
    <3>0. << >> \in Seq(Values \cup {Unbound})
      OBVIOUS
    <3>1. PICK b \in Seq(Values \cup {Unbound}) : bound' = resize(b, Len(placeholders'))
      BY <1>3, <2>2, <3>0, Zenon
    <3>2. PICK n \in Nat : n = Len(placeholders')
      BY <1>3
    <3>3. resize(b, n) \in Seq(Values \cup {Unbound}) /\ Len(resize(b, n)) = n
      BY Resized
    <3> QED BY <3>1, <3>2, <3>3
  <2> QED BY <2>1, <2>2 DEF Builds
<1>5. given' \in SUBSET Names /\ clean' \in BOOLEAN /\ result' \in Results
  <2>1. ToSet(names) \subseteq Names
    BY <1>1 DEF ToSet
  <2>2. given \in SUBSET Names /\ clean \in BOOLEAN
    BY DEF Types
  <2>3. given' \in SUBSET Names
    BY <2>1, <2>2 DEF Builds, Accepted
  <2>4. clean' \in BOOLEAN
    BY DEF Builds, Accepted
  <2> QED BY <2>3, <2>4 DEF Builds, Accepted, Results
<1>6. awaited' \in SUBSET Names /\ clauses' \in Seq(Clauses)
      /\ kind' = kind /\ limits' = limits /\ docs' = docs /\ op_docs' = op_docs /\ rows' = rows
      /\ last_bound' = last_bound
  BY DEF Builds, rowVars
<1> QED BY <1>2, <1>4, <1>5, <1>6 DEF Types, TypeOK

\* the clause that a parsed expression gives
LEMMA ParsedOf ==
  ASSUME Types, NEW e \in Exprs, NEW slot \in Slots
  PROVE  IsParsed(Parsed(slot, e), slot, e.names, Len(placeholders))
<1>1. PICK names \in Seq(Names) : names = e.names
  BY Expressions
<1>2. PICK n \in Nat : n = Len(placeholders)
  BY DEF Types, TypeOK
<1>3. IsParsed(Clause(slot, conv_placeholder(names, n), TRUE), slot, names, n)
  BY ParsedClause
<1> QED BY <1>1, <1>2, <1>3 DEF Parsed

\* The calls with an expression are of that form.
LEMMA BuildingCalls ==
  ASSUME Types, NEW e \in Exprs,
         where(e) \/ having(e) \/ groupBy(e) \/ (SetOperation(e) /\ add_operation("right", e))
  PROVE  Builds(e)
<1>1. /\ clauses \in Seq(Clauses) /\ bound \in Seq(Values \cup {Unbound})
      /\ awaited \in SUBSET Names /\ given \in SUBSET Names
  BY DEF Types, TypeOK
<1>2. e.names \in Seq(Names) /\ e.parses \in BOOLEAN
  BY Expressions
<1>3. ToSet(e.names) \subseteq Names
  BY <1>2 DEF ToSet
<1>4. given \cup ToSet(e.names) \in SUBSET Names /\ awaited \cup ToSet(e.names) \in SUBSET Names
  BY <1>1, <1>3
<1>5. ASSUME NEW slot \in Slots
      PROVE  ReplaceClause(Parsed(slot, e)) \in Seq(Clauses) /\ Append(clauses, Parsed(slot, e)) \in Seq(Clauses)
  <2>1. PICK c \in Clauses : c = Parsed(slot, e)
    BY ParsedOf DEF IsParsed
  <2>2. ReplaceClause(c) \in Seq(Clauses) /\ Append(clauses, c) \in Seq(Clauses)
    BY <1>1, Replaced
  <2> QED BY <2>1, <2>2
<1>5s. "criteria" \in Slots /\ "having" \in Slots /\ "group" \in Slots /\ "operation" \in Slots
  BY DEF Slots
<1>6. CASE where(e)
  <2>1. clauses' \in Seq(Clauses) /\ awaited' \in SUBSET Names
    BY <1>1, <1>4, <1>5, <1>5s, <1>6 DEF where
  <2> QED BY <1>6, <2>1 DEF where, Builds
<1>7. ASSUME NEW slot \in Slots, NEW after \in Seq(Clauses), Grouped(slot, e, after) PROVE Builds(e)
  <2>1. clauses' \in Seq(Clauses) /\ awaited' \in SUBSET Names
    BY <1>1, <1>4, <1>7 DEF Grouped
  <2> QED BY <1>7, <2>1 DEF Grouped, Builds
<1>8. CASE having(e)
  BY <1>5, <1>5s, <1>7, <1>8, Zenon DEF having
<1>9. CASE groupBy(e)
  BY <1>5, <1>5s, <1>7, <1>9, Zenon DEF groupBy
<1>10. CASE SetOperation(e) /\ add_operation("right", e)
  <2>1. PICK c \in Clauses : c = Clause("operation", << >>, TRUE)
    BY <1>5s, EmptyClause DEF IsEmptyClause
  <2>2. Append(clauses, c) \in Seq(Clauses)
    BY <1>1, <2>1, AppendRange
  <2>3. clauses' \in Seq(Clauses) /\ awaited' \in SUBSET Names
    BY <1>1, <1>4, <1>5, <1>5s, <1>10, <2>1, <2>2 DEF SetOperation
  <2>4. (bound' = bound /\ kind \in Table) \/ bound' = resize(bound, Len(placeholders'))
    BY <1>10 DEF SetOperation, add_operation, Table
  <2> QED BY <1>10, <2>3, <2>4 DEF SetOperation, add_operation, Builds
<1> QED BY <1>6, <1>8, <1>9, <1>10

\* bind() takes the first position of a name.
LEMMA FirstPosition ==
  ASSUME Types, NEW n, Positions(n) # {}
  PROVE  /\ find_variable(n) \in 1..Len(placeholders) /\ placeholders[find_variable(n)] = n
         /\ \A j \in 1..Len(placeholders) : placeholders[j] = n => find_variable(n) <= j
<1>1. DOMAIN placeholders = 1..Len(placeholders)
  BY DEF Types, TypeOK
<1>2. Positions(n) = {i \in 1..Len(placeholders) : placeholders[i] = n}
  BY <1>1 DEF Positions
<1>3. Positions(n) \subseteq Nat
  BY <1>2
<1>4. \E i \in Positions(n) : \A j \in Positions(n) : i <= j
  BY <1>3, LeastNumber
<1>5. /\ find_variable(n) \in Positions(n)
      /\ \A j \in Positions(n) : find_variable(n) <= j
  BY <1>4, Zenon DEF find_variable
<1> QED BY <1>2, <1>5

\* What bind() that has a value's place leaves.
LEMMA BindTypes ==
  ASSUME Types, NEW n \in Names, NEW v \in Values, ~Refuses(n), find_variable(n) <= Len(bound),
         bound' = [bound EXCEPT ![find_variable(n)] = v]
  PROVE  /\ bound' \in Seq(Values \cup {Unbound}) /\ Len(bound') = Len(bound)
         /\ DOMAIN bound' = DOMAIN bound /\ find_variable(n) \in DOMAIN bound
         /\ \A i \in DOMAIN bound : bound'[i] = IF i = find_variable(n) THEN v ELSE bound[i]
<1> DEFINE k == find_variable(n)
<1>1. k \in 1..Len(placeholders)
  BY FirstPosition DEF Refuses
<1>2. bound \in Seq(Values \cup {Unbound}) /\ DOMAIN bound = 1..Len(bound) /\ Len(bound) \in Nat
  BY DEF Types, TypeOK
<1> HIDE DEF k
<1>3. k \in 1..Len(bound)
  BY <1>1, <1>2 DEF k
<1>4. PICK b : b = [bound EXCEPT ![k] = v]
  OBVIOUS
<1>5. b \in Seq(Values \cup {Unbound}) /\ Len(b) = Len(bound)
      /\ \A i \in 1..Len(bound) : b[i] = IF i = k THEN v ELSE bound[i]
  BY <1>2, <1>3, <1>4
<1>6. bound' = b
  BY <1>4 DEF k
<1> QED BY <1>2, <1>3, <1>5, <1>6 DEF k

\* Every step keeps the types, whatever the application does.
LEMMA TypesStep ==
  ASSUME Types, [Next]_vars
  PROVE  Types'
<1>1. /\ TypeOK /\ clauses \in Seq(Clauses)
      /\ docs \in Seq(Docs) /\ op_docs \in Seq(Docs) /\ rows \in Seq(Docs)
      /\ last_bound \in [Names -> Values \cup {Unbound}]
      /\ given \in SUBSET Names /\ awaited \in SUBSET Names /\ clean \in BOOLEAN
  BY DEF Types
<1>2. ASSUME NEW e \in Exprs, where(e) \/ having(e) \/ groupBy(e) PROVE Types'
  BY <1>2, BuildingCalls, BuildsTypes
<1>3. ASSUME NEW e \in Exprs, NEW path \in {"right", "wrong", "placeholder"}, add_operation(path, e)
      PROVE  Types'
  <2>1. CASE path = "right"
    BY <1>3, <2>1, BuildingCalls, BuildsTypes DEF add_operation
  <2>2. CASE path # "right"
    <3>1. PICK c \in Clauses : c = Clause("operation", << >>, FALSE)
      <4>1. "operation" \in Slots
        BY DEF Slots
      <4> QED BY <4>1, EmptyClause DEF IsEmptyClause
    <3>2. PathFails(path) /\ UNCHANGED <<kind, limits, rowVars, last_bound>>
      BY <1>3, <2>2 DEF add_operation
    <3>3. clauses' = Append(clauses, c)
      BY <3>1, <3>2 DEF PathFails
    <3>4. clauses' \in Seq(Clauses)
      BY <1>1, <3>3, AppendRange
    <3>5. clean' \in BOOLEAN /\ result' \in Results
      BY <3>2 DEF PathFails, Results
    <3> QED BY <1>1, <3>2, <3>4, <3>5 DEF PathFails, Types, TypeOK, rowVars
  <2> QED BY <2>1, <2>2
<1>4. ASSUME NEW e \in ListExprs, sort(e) \/ fields(e) PROVE Types'
  <2>1. PICK slot \in Slots : AddListElement(slot, e)
    BY <1>4 DEF sort, fields, Slots
  <2>2. e.names \in Seq(Names) /\ e.parses \in BOOLEAN /\ e.built \in BOOLEAN
    BY Expressions
  <2>3. PICK c \in Clauses : c = Clause(slot, conv_placeholder(e.names, 0), e.built)
    <3>1. PICK names \in Seq(Names) : names = e.names
      BY <2>2
    <3>2. IsParsed(Clause(slot, conv_placeholder(names, 0), TRUE), slot, names, 0)
      BY ParsedClause
    <3>3. Clause(slot, conv_placeholder(names, 0), TRUE) \in Clauses
      BY <3>2 DEF IsParsed
    <3>4. Clause(slot, conv_placeholder(names, 0), e.built) \in Clauses
      BY <2>2, <3>3 DEF Clause, Clauses
    <3> QED BY <3>1, <3>4
  <2>4. clauses' \in Seq(Clauses)
    <3>1. clauses' = Append(clauses, c)
      BY <2>1, <2>3 DEF AddListElement
    <3> QED BY <1>1, <3>1, AppendRange
  <2>5. clean' \in BOOLEAN /\ result' \in Results
    BY <1>1, <2>1, <2>2 DEF AddListElement, Results
  <2> QED BY <1>1, <2>1, <2>4, <2>5 DEF AddListElement, Types, TypeOK, rowVars
<1>5. CASE WrongType
  BY <1>1, <1>5 DEF WrongType, Types, TypeOK, clauseVars, rowVars, Results
<1>6. ASSUME NEW which \in {"rows", "offset"}, limit(which) PROVE Types'
  <2>1. limits' \subseteq {"rows", "offset"}
    BY <1>1, <1>6 DEF limit, TypeOK
  <2> QED BY <1>1, <1>6, <2>1 DEF limit, Types, TypeOK, rowVars, history, Results
<1>7. ASSUME NEW n \in Names, NEW v \in Values, bind(n, v) PROVE Types'
  <2>1. CASE Refuses(n)
    BY <1>1, <1>7, <2>1 DEF bind, BindFails, Types, TypeOK, rowVars, Results
  <2>2. CASE ~Refuses(n) /\ find_variable(n) > Len(bound) /\ UNCHANGED <<bound, last_bound, clean, awaited>>
    BY <1>1, <1>7, <2>2 DEF bind, BindFails, Types, TypeOK, rowVars, Results
  <2>3. CASE ~Refuses(n) /\ find_variable(n) <= Len(bound)
             /\ bound' = [bound EXCEPT ![find_variable(n)] = v]
             /\ last_bound' = [last_bound EXCEPT ![n] = v]
             /\ awaited' = awaited \ {n} /\ result' = "ok" /\ clean' = clean
    <3>1. bound' \in Seq(Values \cup {Unbound}) /\ Len(bound') = Len(bound)
      BY <2>3, BindTypes
    <3>2. last_bound' \in [Names -> Values \cup {Unbound}]
      BY <1>1, <2>3
    <3>3. awaited' \in SUBSET Names
      BY <1>1, <2>3
    <3>4. UNCHANGED <<kind, clauses, limits, placeholders, docs, op_docs, rows, given>>
      BY <1>7 DEF bind, rowVars
    <3> QED BY <1>1, <2>3, <3>1, <3>2, <3>3, <3>4 DEF Types, TypeOK, Results
  <2> QED BY <1>7, <2>1, <2>2, <2>3 DEF bind
<1>8. CASE execute
  BY <1>1, <1>8 DEF execute, Types, TypeOK, clauseVars, rowVars, history, Results
<1>9. ASSUME NEW d \in Docs, add(d) PROVE Types'
  <2>1. docs' \in Seq(Docs)
    BY <1>1, <1>9 DEF add
  <2> QED BY <1>1, <1>9, <2>1 DEF add, Types, TypeOK, clauseVars, history, Results
<1>10. CASE ExecuteAdd
  <2>1. Encoded(BeforeBad(docs)) \in Seq(Docs)
    <3>1. PICK s \in Seq(Docs) : s = BeforeBad(docs)
      BY <1>1, BeforeBadRange
    <3>2. Without(s, Noops) \in Seq(Docs)
      BY WithoutRange
    <3> QED BY <3>1, <3>2 DEF Encoded
  <2>2. op_docs' \in Seq(Docs)
    BY <1>1, <1>10, <2>1 DEF ExecuteAdd
  <2>3. rows' \in Seq(Docs)
    <3>1. PICK more \in Seq(Docs) : more = op_docs'
      BY <2>2
    <3>2. rows' = rows \/ rows' = rows \o more
      BY <1>10, <3>1 DEF ExecuteAdd, SendRows, bind_docs
    <3>3. rows \o more \in Seq(Docs)
      BY <1>1, <3>1
    <3> QED BY <1>1, <3>2, <3>3
  <2>4. result' \in Results
    BY <1>10 DEF ExecuteAdd, SendRows, Results
  <2> QED BY <1>1, <1>10, <2>2, <2>3, <2>4 DEF ExecuteAdd, Types, TypeOK, clauseVars, history
<1>11. CASE ExecuteRows
  <2>1. rows' \in Seq(Docs) /\ result' \in Results
    BY <1>1, <1>11 DEF ExecuteRows, SendRows, bind_docs, Results
  <2> QED BY <1>1, <1>11, <2>1 DEF ExecuteRows, Types, TypeOK, clauseVars, history
<1>12. CASE UNCHANGED vars
  BY <1>1, <1>12 DEF vars, Types, TypeOK, clauseVars, rowVars, history
<1> QED
  BY <1>2, <1>3, <1>4, <1>5, <1>6, <1>7, <1>8, <1>9, <1>10, <1>11, <1>12 DEF Next

\* The clause an operation is created with, if any.
Begins(slot, e) ==
  /\ e.parses
  /\ \/ kind \in Collection /\ slot = "criteria" /\ e \in Exprs
        /\ (MayRepeat \/ IsInjective(e.names))
        /\ Created(slot, e.names, add_placeholders(<< >>, e.names))
     \/ kind = "select" /\ slot = "projection" /\ e \in ListExprs
        /\ Created(slot, e.names, << >>)

LEMMA CreatedTypes ==
  ASSUME NEW e \in Exprs \cup ListExprs, NEW slot \in {"criteria", "projection"}, Begins(slot, e)
  PROVE  /\ clauses = <<clauses[1]>> /\ IsParsed(clauses[1], slot, e.names, 0)
         /\ clauses \in Seq(Clauses) /\ ToSet(clauses) = {clauses[1]}
         /\ placeholders \in Seq(Names) /\ IsInjective(placeholders)
         /\ given = ToSet(placeholders) /\ given \in SUBSET Names
<1>1. PICK names \in Seq(Names) : names = e.names
  BY Expressions
<1>2. PICK c : c = Clause(slot, conv_placeholder(names, 0), TRUE)
  OBVIOUS
<1>3. IsParsed(c, slot, names, 0)
  BY <1>2, ParsedClause DEF Slots
<1>4. c \in Clauses
  BY <1>3 DEF IsParsed
<1>5. clauses = <<c>>
  BY <1>1, <1>2 DEF Begins, Created
<1>6. <<c>> \in Seq(Clauses) /\ <<c>>[1] = c /\ ToSet(<<c>>) = {c}
  <2>1. <<c>> \in Seq(Clauses) /\ <<c>>[1] = c /\ DOMAIN <<c>> = {1}
    BY <1>4
  <2> QED BY <2>1 DEF ToSet
<1>7. << >> \in Seq(Names) /\ IsInjective(<< >>)
  BY DEF IsInjective
<1>8. add_placeholders(<< >>, names) \in Seq(Names) /\ IsInjective(add_placeholders(<< >>, names))
  BY <1>7, AddPlaceholders
<1>9. placeholders \in Seq(Names) /\ IsInjective(placeholders) /\ given = ToSet(placeholders)
  BY <1>1, <1>7, <1>8 DEF Begins, Created
<1>10. given \in SUBSET Names
  BY <1>9 DEF ToSet
<1> QED BY <1>1, <1>3, <1>5, <1>6, <1>9, <1>10

\* A new object has the types: it has no clause, or the one it begins with.
LEMMA InitTypes ==
  ASSUME Init
  PROVE  /\ Types
         /\ \/ CreatedEmpty
            \/ \E e \in Exprs \cup ListExprs, slot \in {"criteria", "projection"} : Begins(slot, e)
<1>1. \/ CreatedEmpty
      \/ \E e \in Exprs \cup ListExprs, slot \in {"criteria", "projection"} : Begins(slot, e)
  BY DEF Init, Begins
<1>2. /\ clauses \in Seq(Clauses) /\ placeholders \in Seq(Names) /\ IsInjective(placeholders)
      /\ given \in SUBSET Names
  <2>1. CASE CreatedEmpty
    <3>1. << >> \in Seq(Clauses) /\ << >> \in Seq(Names) /\ IsInjective(<< >>)
      BY DEF IsInjective
    <3> QED BY <2>1, <3>1 DEF CreatedEmpty
  <2>2. CASE \E e \in Exprs \cup ListExprs, slot \in {"criteria", "projection"} : Begins(slot, e)
    BY <2>2, CreatedTypes
  <2> QED BY <1>1, <2>1, <2>2
<1>3. bound \in Seq(Values \cup {Unbound}) /\ Len(bound) = Len(placeholders)
      /\ Len(placeholders) \in Nat
  <2>1. PICK n \in Nat : n = Len(placeholders)
    BY <1>2
  <2>2. << >> \in Seq(Values \cup {Unbound})
    OBVIOUS
  <2>3. bound = resize(<< >>, n)
    BY <2>1 DEF Init
  <2> QED BY <2>1, <2>2, <2>3, Resized
<1>4. docs \in Seq(Docs) /\ op_docs \in Seq(Docs) /\ rows \in Seq(Docs)
  <2>1. << >> \in Seq(Docs)
    OBVIOUS
  <2> QED BY <2>1 DEF Init
<1>5. last_bound \in [Names -> Values \cup {Unbound}]
  BY DEF Init
<1> QED BY <1>1, <1>2, <1>3, <1>4, <1>5 DEF Init, Types, TypeOK, Results

\* The variables keep their types: in a collection's operation the
\* placeholders stay distinct, one value's place for each, whatever calls fail.
THEOREM TypeCorrect == Spec => []TypeOK
<1>1. Init => Types
  BY InitTypes
<1>2. Types /\ [Next]_vars => Types'
  BY TypesStep
<1>3. Types => TypeOK
  BY DEF Types
<1> QED BY <1>1, <1>2, <1>3, PTL DEF Spec

-----------------------------------------------------------------------------
(***************************************************************************)
(* Calls with an expression.                                               *)
(***************************************************************************)
\* q is p with the names after it.
Grown(p, q, names) ==
  /\ q \in Seq(Names) /\ Len(q) = Len(p) + Len(names)
  /\ \A i \in 1..Len(p) : q[i] = p[i]
  /\ \A j \in 1..Len(names) : q[Len(p) + j] = names[j]
  /\ ToSet(q) = ToSet(p) \cup ToSet(names)
  /\ IsInjective(p) /\ IsInjective(names) /\ ToSet(p) \cap ToSet(names) = {} => IsInjective(q)

LEMMA ConcatGrown ==
  ASSUME NEW p \in Seq(Names), NEW names \in Seq(Names)
  PROVE  Grown(p, p \o names, names)
<1> DEFINE q == p \o names
           m == Len(p)
           n == Len(names)
<1>1. /\ m \in Nat /\ n \in Nat /\ DOMAIN p = 1..m /\ DOMAIN names = 1..n
      /\ q \in Seq(Names) /\ Len(q) = m + n /\ DOMAIN q = 1..m + n
      /\ \A i \in 1..m : q[i] = p[i]
      /\ \A j \in 1..n : q[m + j] = names[j]
  OBVIOUS
<1> HIDE DEF q, m, n
<1>2. ASSUME NEW k \in 1..m + n
      PROVE  k \in 1..m \/ \E j \in 1..n : k = m + j
  <2>1. CASE k \in 1..m
    BY <2>1
  <2>2. CASE k \notin 1..m
    <3>1. k - m \in 1..n /\ k = m + (k - m)
      BY <1>1, <2>2
    <3> QED BY <3>1
  <2> QED BY <2>1, <2>2
<1>3. /\ \A i \in 1..m : i \in 1..m + n
      /\ \A j \in 1..n : m + j \in 1..m + n
  BY <1>1
<1>4. ToSet(q) = ToSet(p) \cup ToSet(names)
  <2>1. ASSUME NEW k \in 1..m + n PROVE q[k] \in ToSet(p) \cup ToSet(names)
    BY <1>1, <1>2 DEF ToSet
  <2>2. ASSUME NEW i \in 1..m PROVE p[i] \in ToSet(q)
    <3>1. p[i] = q[i] /\ i \in DOMAIN q
      BY <1>1, <1>3
    <3> QED BY <3>1 DEF ToSet
  <2>3. ASSUME NEW j \in 1..n PROVE names[j] \in ToSet(q)
    <3>1. names[j] = q[m + j] /\ m + j \in DOMAIN q
      BY <1>1, <1>3
    <3> QED BY <3>1, Zenon DEF ToSet
  <2>4. ToSet(q) \subseteq ToSet(p) \cup ToSet(names)
    <3> SUFFICES ASSUME NEW x \in ToSet(q) PROVE x \in ToSet(p) \cup ToSet(names)
      OBVIOUS
    <3>1. PICK k \in 1..m + n : x = q[k]
      BY <1>1 DEF ToSet
    <3> QED BY <2>1, <3>1
  <2>5. ToSet(p) \subseteq ToSet(q) /\ ToSet(names) \subseteq ToSet(q)
    <3>1. ASSUME NEW x \in ToSet(p) PROVE x \in ToSet(q)
      <4>1. PICK i \in 1..m : x = p[i]
        BY <1>1 DEF ToSet
      <4> QED BY <2>2, <4>1
    <3>2. ASSUME NEW x \in ToSet(names) PROVE x \in ToSet(q)
      <4>1. PICK j \in 1..n : x = names[j]
        BY <1>1 DEF ToSet
      <4> QED BY <2>3, <4>1
    <3> QED BY <3>1, <3>2
  <2> QED BY <2>4, <2>5
<1>5. ASSUME IsInjective(p), IsInjective(names), ToSet(p) \cap ToSet(names) = {}
      PROVE  IsInjective(q)
  <2>1. ASSUME NEW i \in 1..m, NEW j \in 1..n PROVE q[i] # q[m + j]
    <3>1. q[i] \in ToSet(p) /\ q[m + j] \in ToSet(names)
      BY <1>1 DEF ToSet
    <3> QED BY <1>5, <3>1
  <2>2. ASSUME NEW i \in 1..m, NEW j \in 1..m, q[i] = q[j] PROVE i = j
    BY <1>1, <1>5, <2>2 DEF IsInjective
  <2>3. ASSUME NEW i \in 1..n, NEW j \in 1..n, q[m + i] = q[m + j] PROVE i = j
    <3>1. names[i] = names[j]
      BY <1>1, <2>3
    <3> QED BY <1>1, <1>5, <3>1 DEF IsInjective
  <2>4. ASSUME NEW a \in 1..m + n, NEW b \in 1..m + n, q[a] = q[b] PROVE a = b
    <3>1. CASE a \in 1..m /\ b \in 1..m
      BY <2>2, <2>4, <3>1
    <3>2. CASE a \in 1..m /\ b \notin 1..m
      BY <1>2, <2>1, <2>4, <3>2
    <3>3. CASE a \notin 1..m /\ b \in 1..m
      BY <1>2, <2>1, <2>4, <3>3
    <3>4. CASE a \notin 1..m /\ b \notin 1..m
      <4>1. PICK i \in 1..n : a = m + i
        BY <1>2, <3>4
      <4>2. PICK j \in 1..n : b = m + j
        BY <1>2, <3>4
      <4> QED BY <2>3, <2>4, <4>1, <4>2
    <3> QED BY <3>1, <3>2, <3>3, <3>4
  <2> QED BY <1>1, <2>4 DEF IsInjective
<1> QED BY <1>1, <1>4, <1>5 DEF Grown, q, m, n

\* An application that is careful makes the placeholders grow by the names of
\* the expression, in a collection as in a table.
LEMMA Growth ==
  ASSUME Careful, Types, Known, kind \notin Adder, NEW e \in Exprs, Acceptable(e)
  PROVE  /\ ToSet(e.names) \cap given = {} /\ IsInjective(e.names)
         /\ \E names \in Seq(Names) :
              /\ Grown(placeholders, PlaceholdersAfter(e), names)
              /\ ToSet(names) \subseteq ToSet(e.names)
              /\ e.names = << >> => names = << >>
              /\ e.parses => names = e.names
              /\ kind \in Collection /\ ~e.parses => PlaceholdersAfter(e) = placeholders
<1>1. PICK names \in Seq(Names) : names = e.names
  BY Expressions
<1>2. ToSet(names) \cap given = {} /\ IsInjective(names)
  BY <1>1 DEF Acceptable, Careful
<1>3. placeholders \in Seq(Names)
  BY DEF Types, TypeOK
<1>4. kind \in Collection \/ kind \in Table \/ kind \in Adder
  BY CrudAssumption DEF Types, TypeOK
<1>5. kind \in Collection => kind \notin Table
  BY DEF Collection, Table
<1>6. << >> \in Seq(Names) /\ ToSet(<< >>) = {}
  BY DEF ToSet
<1>7. Grown(placeholders, placeholders \o names, names)
  BY <1>3, ConcatGrown
<1>8. Grown(placeholders, placeholders, << >>)
  <2>1. Grown(placeholders, placeholders \o << >>, << >>)
    BY <1>3, <1>6, ConcatGrown
  <2>2. placeholders \o << >> = placeholders
    BY <1>3
  <2> QED BY <2>1, <2>2
<1>9. CASE kind \in Table
  BY <1>1, <1>2, <1>5, <1>7, <1>9 DEF PlaceholdersAfter
<1>10. CASE kind \notin Table /\ ~e.parses
  <2>1. PlaceholdersAfter(e) = placeholders
    BY <1>10 DEF PlaceholdersAfter
  <2> QED BY <1>1, <1>2, <1>6, <1>8, <1>10, <2>1
<1>11. CASE kind \notin Table /\ e.parses
  <2>1. ToSet(placeholders) \cap ToSet(names) = {}
    BY <1>2, <1>4, <1>11 DEF Known
  <2>2. add_placeholders(placeholders, names) = placeholders \o names
    BY <1>2, <1>3, <2>1, AddPlaceholders
  <2>3. PlaceholdersAfter(e) = placeholders \o names
    BY <1>1, <1>11, <2>2 DEF PlaceholdersAfter
  <2> QED BY <1>1, <1>2, <1>7, <1>11, <2>3
<1> QED BY <1>9, <1>10, <1>11

LEMMA CriteriaIs == HasCriteria <=> \E c \in ToSet(clauses) : c.slot = "criteria"
BY DEF HasCriteria, ToSet

\* The calls of Builds, more closely: which clauses they leave, and what
\* becomes of the values and of the placeholders to bind.
Adds(e) ==
  /\ Builds(e) /\ Acceptable(e) /\ kind \notin Adder
  /\ \A c \in ToSet(clauses') :
       \/ c \in ToSet(clauses)
       \/ e.parses /\ \E slot \in Slots : c = Parsed(slot, e)
       \/ DOMAIN c.refs = {} /\ c.built
  /\ \/ e.parses /\ bound' = resize(<< >>, Len(placeholders'))
        /\ awaited' = given \cup ToSet(e.names)
     \/ /\ HasCriteria' <=> HasCriteria
        /\ e.parses => awaited' = awaited \cup ToSet(e.names)
        /\ \/ bound' = resize(bound, Len(placeholders'))
           \/ bound' = bound /\ clauses' = clauses /\ ~e.parses
           \/ bound' = bound /\ kind = "update" /\ (HasCriteria => e.names = << >>)

LEMMA AddingCalls ==
  ASSUME Types, NEW e \in Exprs,
         where(e) \/ having(e) \/ groupBy(e) \/ (SetOperation(e) /\ add_operation("right", e))
  PROVE  Adds(e)
<1>1. Builds(e)
  BY BuildingCalls
<1>2. clauses \in Seq(Clauses)
  BY DEF Types
<1>3. Acceptable(e) /\ kind \notin Adder
  BY DEF where, having, groupBy, Grouped, add_operation, MayAdd
<1>4. ASSUME NEW slot \in Slots
      PROVE  /\ ToSet(ReplaceClause(Parsed(slot, e)))
                  = {d \in ToSet(clauses) : d.slot # slot} \cup {Parsed(slot, e)}
             /\ ToSet(Append(clauses, Parsed(slot, e))) = ToSet(clauses) \cup {Parsed(slot, e)}
             /\ Parsed(slot, e).slot = slot
  <2>1. PICK c : c = Parsed(slot, e)
    OBVIOUS
  <2>2. c \in Clauses /\ c.slot = slot
    BY <2>1, ParsedOf DEF IsParsed
  <2>3. ToSet(ReplaceClause(c)) = {d \in ToSet(clauses) : d.slot # slot} \cup {c}
    BY <1>2, <2>2, Replaced
  <2>4. ToSet(Append(clauses, c)) = ToSet(clauses) \cup {c}
    BY <1>2, <2>2, AppendRange
  <2> QED BY <2>1, <2>2, <2>3, <2>4
<1>5. /\ "criteria" \in Slots /\ "having" \in Slots /\ "group" \in Slots /\ "operation" \in Slots
  BY DEF Slots
<1>6. HasCriteria' <=> \E c \in ToSet(clauses') : c.slot = "criteria"
  BY DEF HasCriteria, ToSet
<1>7. ASSUME NEW slot \in {"having", "group", "operation"},
             \/ ToSet(clauses') = {d \in ToSet(clauses) : d.slot # slot} \cup {Parsed(slot, e)}
             \/ ToSet(clauses') = ToSet(clauses) \cup {Parsed(slot, e)}
      PROVE  HasCriteria' <=> HasCriteria
  <2>1. Parsed(slot, e).slot = slot /\ slot # "criteria"
    BY <1>4, <1>5
  <2> QED BY <1>6, <1>7, <2>1, CriteriaIs
<1>8. CASE where(e)
  <2>1. CASE e.parses
    <3>1. ToSet(clauses') = {d \in ToSet(clauses) : d.slot # "criteria"} \cup {Parsed("criteria", e)}
      BY <1>4, <1>5, <1>8, <2>1 DEF where
    <3>2. bound' = resize(<< >>, Len(placeholders')) /\ awaited' = given \cup ToSet(e.names)
      BY <1>8, <2>1 DEF where
    <3> QED BY <1>1, <1>3, <1>5, <2>1, <3>1, <3>2 DEF Adds
  <2>2. CASE ~e.parses
    <3>1. clauses' = clauses /\ bound' = bound
      BY <1>8, <2>2 DEF where
    <3>2. HasCriteria' <=> HasCriteria
      BY <1>6, <3>1, CriteriaIs
    <3> QED BY <1>1, <1>3, <2>2, <3>1, <3>2 DEF Adds
  <2> QED BY <2>1, <2>2
<1>9. ASSUME NEW slot \in {"having", "group"}, NEW after, Grouped(slot, e, after),
             \/ ToSet(after) = {d \in ToSet(clauses) : d.slot # slot} \cup {Parsed(slot, e)}
             \/ ToSet(after) = ToSet(clauses) \cup {Parsed(slot, e)}
      PROVE  Adds(e)
  <2>1. CASE e.parses
    <3>1. /\ clauses' = after /\ bound' = resize(bound, Len(placeholders'))
          /\ awaited' = awaited \cup ToSet(e.names)
      BY <1>9, <2>1 DEF Grouped
    <3>2. HasCriteria' <=> HasCriteria
      BY <1>7, <1>9, <3>1
    <3>3. slot \in Slots
      BY <1>5
    <3>4. \A c \in ToSet(clauses') : c \in ToSet(clauses) \/ c = Parsed(slot, e)
      BY <1>9, <3>1
    <3> QED BY <1>1, <1>3, <2>1, <3>1, <3>2, <3>3, <3>4 DEF Adds
  <2>2. CASE ~e.parses
    <3>1. clauses' = clauses /\ bound' = bound
      BY <1>9, <2>2 DEF Grouped
    <3>2. HasCriteria' <=> HasCriteria
      BY <1>6, <3>1, CriteriaIs
    <3> QED BY <1>1, <1>3, <2>2, <3>1, <3>2 DEF Adds
  <2> QED BY <2>1, <2>2
<1>10. CASE having(e)
  BY <1>4, <1>5, <1>9, <1>10 DEF having
<1>11. CASE groupBy(e)
  BY <1>4, <1>5, <1>9, <1>11 DEF groupBy
<1>12. CASE SetOperation(e) /\ add_operation("right", e)
  <2>1. PICK c \in Clauses : /\ c = Clause("operation", << >>, TRUE)
                             /\ c.slot = "operation" /\ c.built /\ DOMAIN c.refs = {}
    <3>1. IsEmptyClause(Clause("operation", << >>, TRUE), "operation", TRUE)
      BY <1>5, EmptyClause
    <3> QED BY <3>1 DEF IsEmptyClause
  <2>2. ToSet(Append(clauses, c)) = ToSet(clauses) \cup {c}
    BY <1>2, AppendRange
  <2>3. ToSet(clauses') = ToSet(clauses) \cup {IF e.parses THEN Parsed("operation", e) ELSE c}
    <3>1. clauses' = Append(clauses, IF e.parses THEN Parsed("operation", e) ELSE c)
      BY <1>12, <2>1 DEF SetOperation
    <3> QED BY <1>4, <1>5, <2>2, <3>1
  <2>4. HasCriteria' <=> HasCriteria
    <3>1. CASE e.parses
      BY <1>7, <2>3, <3>1
    <3>2. CASE ~e.parses
      BY <1>6, <2>1, <2>3, <3>2, CriteriaIs
    <3> QED BY <3>1, <3>2
  <2>5. \A d \in ToSet(clauses') :
          \/ d \in ToSet(clauses)
          \/ e.parses /\ \E slot \in Slots : d = Parsed(slot, e)
          \/ DOMAIN d.refs = {} /\ d.built
    BY <1>5, <2>1, <2>3
  <2>6. /\ e.parses => awaited' = awaited \cup ToSet(e.names)
        /\ \/ bound' = resize(bound, Len(placeholders'))
           \/ bound' = bound /\ kind = "update" /\ (HasCriteria => e.names = << >>)
    BY <1>12 DEF SetOperation, add_operation
  <2> QED BY <1>1, <1>3, <2>4, <2>5, <2>6 DEF Adds
<1> QED BY <1>8, <1>10, <1>11, <1>12

\* What such a call leaves of the values: each is one of before, or none.
LEMMA ValuesAfter ==
  ASSUME Types, Types', NEW e \in Exprs, Adds(e)
  PROVE  /\ \A i \in DOMAIN bound' :
              bound'[i] # Unbound => i \in DOMAIN bound /\ bound'[i] = bound[i]
         /\ \/ e.parses /\ DOMAIN bound' = DOMAIN placeholders'
               /\ awaited' = given \cup ToSet(e.names)
            \/ /\ HasCriteria' <=> HasCriteria
               /\ e.parses => awaited' = awaited \cup ToSet(e.names)
               /\ \A i \in DOMAIN bound : i \in DOMAIN bound' /\ i \in DOMAIN placeholders'
                                          => bound'[i] = bound[i]
               /\ \/ DOMAIN bound' = DOMAIN placeholders'
                  \/ bound' = bound /\ clauses' = clauses /\ ~e.parses
                  \/ bound' = bound /\ kind = "update" /\ (HasCriteria => e.names = << >>)
<1>1. PICK n \in Nat : n = Len(placeholders') /\ DOMAIN placeholders' = 1..n
  BY DEF Types, TypeOK
<1>2. bound \in Seq(Values \cup {Unbound}) /\ DOMAIN bound = 1..Len(bound) /\ Len(bound) \in Nat
  BY DEF Types, TypeOK
<1>3. << >> \in Seq(Values \cup {Unbound}) /\ Len(<< >>) = 0
  OBVIOUS
<1>4. ASSUME bound' = resize(<< >>, n)
      PROVE  DOMAIN bound' = 1..n /\ \A i \in DOMAIN bound' : bound'[i] = Unbound
  <2>1. PICK b : b = << >> /\ b \in Seq(Values \cup {Unbound}) /\ Len(b) = 0
    BY <1>3
  <2>2. DOMAIN resize(b, n) = 1..n
        /\ \A i \in 1..n : resize(b, n)[i] = IF i <= Len(b) THEN b[i] ELSE Unbound
    BY <2>1, Resized
  <2>3. \A i \in 1..n : ~(i <= Len(b))
    BY <2>1
  <2> QED BY <1>4, <2>1, <2>2, <2>3
<1>5. ASSUME bound' = resize(bound, n)
      PROVE  /\ DOMAIN bound' = 1..n
             /\ \A i \in DOMAIN bound' : bound'[i] = IF i \in DOMAIN bound THEN bound[i] ELSE Unbound
  <2>1. PICK b : b = bound
    OBVIOUS
  <2>2. DOMAIN resize(b, n) = 1..n
        /\ \A i \in 1..n : resize(b, n)[i] = IF i <= Len(b) THEN b[i] ELSE Unbound
    BY <1>2, <2>1, Resized
  <2>3. \A i \in 1..n : i <= Len(b) <=> i \in DOMAIN b
    BY <1>2, <2>1
  <2> QED BY <1>5, <2>1, <2>2, <2>3
<1>6. CASE e.parses /\ bound' = resize(<< >>, n) /\ awaited' = given \cup ToSet(e.names)
  BY <1>1, <1>4, <1>6
<1>7. CASE /\ HasCriteria' <=> HasCriteria
           /\ e.parses => awaited' = awaited \cup ToSet(e.names)
           /\ bound' = resize(bound, n)
  BY <1>1, <1>5, <1>7
<1>8. CASE /\ HasCriteria' <=> HasCriteria
           /\ e.parses => awaited' = awaited \cup ToSet(e.names)
           /\ \/ bound' = bound /\ clauses' = clauses /\ ~e.parses
              \/ bound' = bound /\ kind = "update" /\ (HasCriteria => e.names = << >>)
  BY <1>8
<1> QED BY <1>1, <1>6, <1>7, <1>8 DEF Adds

\* Clauses, values and names stay together.
LEMMA AddsKeeps ==
  ASSUME Careful, Types, Types', RefsFit, FirstBound, Known, Waiting, NEW e \in Exprs, Adds(e)
  PROVE  RefsFit' /\ FirstBound' /\ Known' /\ Waiting'
<1> DEFINE q == placeholders'
<1>1. PICK names \in Seq(Names) :
        /\ Grown(placeholders, q, names) /\ ToSet(names) \subseteq ToSet(e.names)
        /\ e.names = << >> => names = << >>
        /\ e.parses => names = e.names
        /\ kind \in Collection /\ ~e.parses => q = placeholders
  BY Growth DEF Adds, Builds
<1>2. ToSet(e.names) \cap given = {} /\ IsInjective(e.names)
  BY Growth DEF Adds
<1>3. PICK m \in Nat, n \in Nat :
        /\ m = Len(placeholders) /\ n = Len(names) /\ Len(q) = m + n
        /\ DOMAIN placeholders = 1..m /\ DOMAIN q = 1..m + n /\ DOMAIN names = 1..n
  BY <1>1 DEF Types, TypeOK, Grown
<1>4. /\ \A i \in 1..m : q[i] = placeholders[i]
      /\ \A j \in 1..n : q[m + j] = names[j]
  BY <1>1, <1>3 DEF Grown
<1>5. \A i \in 1..m + n : i \in 1..m \/ i > m
  BY <1>3
<1>6. \A i \in 1..m + n : i > m => i - m \in 1..n /\ i = m + (i - m)
  BY <1>3
<1>7. kind' = kind /\ last_bound' = last_bound
      /\ clean' = (clean /\ e.parses)
      /\ given' = IF e.parses THEN given \cup ToSet(e.names) ELSE given
  BY DEF Adds, Builds, Accepted
<1>8. DOMAIN bound = 1..Len(bound) /\ Len(bound) <= m /\ Len(bound) \in Nat
      /\ DOMAIN bound' = 1..Len(bound') /\ Len(bound') \in Nat
  BY <1>3 DEF Types, TypeOK
<1>9. \A i \in DOMAIN bound : i \in 1..m
  BY <1>3, <1>8
<1>10. ASSUME PlainLists PROVE \A c \in ToSet(clauses') : Fits(c, q)
  <2> SUFFICES ASSUME NEW c \in ToSet(clauses') PROVE Fits(c, q)
    OBVIOUS
  <2>1. CASE c \in ToSet(clauses)
    <3>1. Fits(c, placeholders)
      BY <1>10, <2>1 DEF RefsFit
    <3>2. \A i \in 1..m : i \in 1..m + n
      BY <1>3
    <3> QED BY <1>3, <1>4, <3>1, <3>2 DEF Fits
  <2>2. CASE e.parses /\ \E slot \in Slots : c = Parsed(slot, e)
    <3>1. PICK slot \in Slots : c = Parsed(slot, e)
      BY <2>2
    <3>2. IsParsed(c, slot, names, m)
      BY <1>1, <1>3, <2>2, <3>1, ParsedOf
    <3>3. /\ DOMAIN c.refs = 1..n
          /\ \A j \in 1..n : c.refs[j].name = names[j] /\ c.refs[j].pos = m + j
      BY <1>3, <3>2 DEF IsParsed
    <3>4. \A j \in 1..n : m + j \in 1..m + n
      BY <1>3
    <3> QED BY <1>3, <1>4, <3>3, <3>4 DEF Fits
  <2>3. CASE DOMAIN c.refs = {}
    BY <2>3 DEF Fits
  <2> QED BY <2>1, <2>2, <2>3 DEF Adds
<1>11. ASSUME PlainLists, kind = "update" => HasCriteria', NEW c \in ToSet(clauses')
       PROVE  Covered(c, Len(bound'))
  <2>1. CASE DOMAIN bound' = DOMAIN q
    BY <1>8, <1>10, <1>11, <2>1 DEF Covered, Fits
  <2>2. CASE bound' = bound /\ clauses' = clauses /\ (HasCriteria' <=> HasCriteria)
    BY <1>11, <2>2 DEF RefsFit
  <2>3. CASE /\ bound' = bound /\ kind = "update" /\ (HasCriteria => e.names = << >>)
             /\ HasCriteria' <=> HasCriteria
    <3>1. HasCriteria /\ e.names = << >>
      BY <1>11, <2>3
    <3>2. CASE c \in ToSet(clauses)
      BY <1>11, <2>3, <3>1, <3>2 DEF RefsFit
    <3>3. CASE e.parses /\ \E slot \in Slots : c = Parsed(slot, e)
      <4>1. PICK slot \in Slots : c = Parsed(slot, e)
        BY <3>3
      <4>2. IsParsed(c, slot, << >>, m)
        BY <1>3, <3>1, <4>1, ParsedOf
      <4>3. DOMAIN c.refs = {}
        BY <4>2 DEF IsParsed
      <4> QED BY <4>3 DEF Covered
    <3>4. CASE DOMAIN c.refs = {}
      BY <3>4 DEF Covered
    <3> QED BY <3>2, <3>3, <3>4 DEF Adds
  <2> QED BY <2>1, <2>2, <2>3, ValuesAfter
<1>12. RefsFit'
  BY <1>7, <1>10, <1>11 DEF RefsFit
<1>13. ASSUME NEW i \in DOMAIN bound', bound'[i] # Unbound
       PROVE  /\ bound'[i] = last_bound[q[i]]
              /\ \A j \in DOMAIN q : q[j] = q[i] => i <= j
  <2>1. i \in DOMAIN bound /\ bound'[i] = bound[i]
    BY <1>13, ValuesAfter
  <2>2. i \in 1..m /\ q[i] = placeholders[i] /\ i <= m /\ i \in Nat
    BY <1>4, <1>9, <2>1
  <2>3. bound[i] = last_bound[placeholders[i]]
    BY <1>13, <2>1 DEF FirstBound
  <2>4. ASSUME NEW j \in 1..m + n, q[j] = q[i] PROVE i <= j
    <3>1. CASE j \in 1..m
      BY <1>3, <1>4, <1>13, <2>1, <2>2, <2>4, <3>1 DEF FirstBound
    <3>2. CASE j > m
      BY <1>3, <2>2, <3>2
    <3> QED BY <1>5, <3>1, <3>2
  <2> QED BY <1>3, <2>1, <2>2, <2>3, <2>4
<1>14. FirstBound'
  BY <1>7, <1>13 DEF FirstBound
<1>15. Known'
  <2> SUFFICES ASSUME kind \in Collection \/ clean' PROVE ToSet(q) \subseteq given' /\ IsInjective(q)
    BY <1>7 DEF Known
  <2>1. ToSet(placeholders) \subseteq given /\ IsInjective(placeholders)
    BY <1>7 DEF Known
  <2>2. CASE e.parses
    <3>1. ToSet(placeholders) \cap ToSet(names) = {} /\ IsInjective(names)
      BY <1>1, <1>2, <2>1, <2>2
    <3> QED BY <1>1, <1>7, <2>1, <2>2, <3>1 DEF Grown
  <2>3. CASE ~e.parses
    BY <1>1, <1>7, <2>1, <2>3
  <2> QED BY <2>2, <2>3
<1>16. Waiting'
  <2> SUFFICES ASSUME clean'
               PROVE  /\ \A i \in DOMAIN q : i \notin DOMAIN bound' \/ bound'[i] = Unbound
                                             => q[i] \in awaited'
                      /\ kind \in Table /\ ~HasCriteria' => ToSet(q) \subseteq awaited'
                      /\ \A c \in ToSet(clauses') : c.built
    BY <1>7 DEF Waiting
  <2>1. clean /\ e.parses /\ names = e.names
    BY <1>1, <1>7
  <2>2. ToSet(placeholders) \subseteq given
    BY <2>1 DEF Known
  <2>3. ToSet(q) = ToSet(placeholders) \cup ToSet(names)
    BY <1>1 DEF Grown
  <2>4. \A c \in ToSet(clauses') : c.built
    <3> SUFFICES ASSUME NEW c \in ToSet(clauses'), c \notin ToSet(clauses),
                        NEW slot \in Slots, c = Parsed(slot, e) PROVE c.built
      BY <2>1 DEF Waiting, Adds
    <3> QED BY ParsedOf DEF IsParsed
  <2>5. CASE awaited' = given \cup ToSet(e.names)
    <3>1. ToSet(q) \subseteq awaited'
      BY <2>1, <2>2, <2>3, <2>5
    <3>2. \A i \in DOMAIN q : q[i] \in ToSet(q)
      BY DEF ToSet
    <3> QED BY <2>4, <3>1, <3>2
  <2>6. CASE /\ HasCriteria' <=> HasCriteria
             /\ awaited' = awaited \cup ToSet(e.names)
             /\ \A i \in DOMAIN bound : i \in DOMAIN bound' /\ i \in DOMAIN q => bound'[i] = bound[i]
             /\ DOMAIN bound' = DOMAIN q \/ bound' = bound
    <3>1. kind \in Table /\ ~HasCriteria' => ToSet(q) \subseteq awaited'
      BY <2>1, <2>3, <2>6 DEF Waiting
    <3>2. ASSUME NEW i \in 1..m + n, i \notin DOMAIN bound' \/ bound'[i] = Unbound
          PROVE  q[i] \in awaited'
      <4>1. CASE i \in 1..m
        <5>1. i \notin DOMAIN bound \/ bound[i] = Unbound
          BY <1>3, <2>6, <3>2
        <5>2. placeholders[i] \in awaited
          BY <1>3, <2>1, <4>1, <5>1 DEF Waiting
        <5> QED BY <1>4, <2>6, <4>1, <5>2
      <4>2. CASE i > m
        <5>1. PICK j \in 1..n : i = m + j
          BY <1>6, <4>2
        <5>2. q[i] = names[j] /\ names[j] \in ToSet(names)
          BY <1>3, <1>4, <5>1 DEF ToSet
        <5> QED BY <2>1, <2>6, <5>2
      <4> QED BY <1>5, <4>1, <4>2
    <3> QED BY <1>3, <2>4, <3>1, <3>2
  <2> QED BY <2>1, <2>5, <2>6, ValuesAfter
<1> QED BY <1>12, <1>14, <1>15, <1>16

-----------------------------------------------------------------------------
(***************************************************************************)
(* The other calls.                                                        *)
(***************************************************************************)
\* Calls that add at most a clause of a list, or one without placeholders.
LEMMA QuietKeeps ==
  ASSUME Types, RefsFit, FirstBound, Known, Waiting,
         UNCHANGED <<kind, placeholders, bound, given, last_bound, awaited>>,
         HasCriteria' <=> HasCriteria, clean' => clean,
         \A c \in ToSet(clauses') :
           c \in ToSet(clauses) \/ ((PlainLists => DOMAIN c.refs = {}) /\ (clean' => c.built))
  PROVE  RefsFit' /\ FirstBound' /\ Known' /\ Waiting'
<1>1. RefsFit'
  BY DEF RefsFit, Fits, Covered
<1>2. FirstBound'
  BY DEF FirstBound
<1>3. Known'
  BY DEF Known
<1>4. Waiting'
  BY DEF Waiting
<1> QED BY <1>1, <1>2, <1>3, <1>4

\* ... in particular those that leave the clauses alone.
LEMMA SameKeeps ==
  ASSUME Types, RefsFit, FirstBound, Known, Waiting, UNCHANGED clauseVars,
         UNCHANGED <<given, last_bound, awaited>>, clean' => clean
  PROVE  RefsFit' /\ FirstBound' /\ Known' /\ Waiting'
<1>1. HasCriteria' <=> HasCriteria
  BY DEF HasCriteria, clauseVars
<1>2. UNCHANGED <<kind, clauses, placeholders, bound>>
  BY DEF clauseVars
<1> QED BY <1>1, <1>2, QuietKeeps

\* Such a clause, at the end of the message.
LEMMA AppendedKeeps ==
  ASSUME Types, RefsFit, FirstBound, Known, Waiting,
         UNCHANGED <<kind, placeholders, bound, given, last_bound, awaited>>,
         NEW c \in Clauses, clauses' = Append(clauses, c), PlainLists => DOMAIN c.refs = {},
         c.slot # "criteria", clean' => clean /\ c.built
  PROVE  RefsFit' /\ FirstBound' /\ Known' /\ Waiting'
<1>1. ToSet(clauses') = ToSet(clauses) \cup {c}
  BY AppendRange DEF Types
<1>2. HasCriteria' <=> \E d \in ToSet(clauses') : d.slot = "criteria"
  BY DEF HasCriteria, ToSet
<1>3. HasCriteria' <=> HasCriteria
  BY <1>1, <1>2, CriteriaIs
<1> QED BY <1>1, <1>3, QuietKeeps

\* bind() gives a name its value.
LEMMA BindKeeps ==
  ASSUME Types, RefsFit, FirstBound, Known, Waiting, NEW n \in Names, NEW v \in Values,
         ~Refuses(n), find_variable(n) <= Len(bound),
         bound' = [bound EXCEPT ![find_variable(n)] = v],
         last_bound' = [last_bound EXCEPT ![n] = v], awaited' = awaited \ {n},
         UNCHANGED <<kind, clauses, placeholders, given, clean>>
  PROVE  RefsFit' /\ FirstBound' /\ Known' /\ Waiting'
<1>1. PICK k \in DOMAIN bound :
        /\ k = find_variable(n) /\ k \in 1..Len(placeholders) /\ placeholders[k] = n
        /\ \A j \in 1..Len(placeholders) : placeholders[j] = n => k <= j
  BY BindTypes, FirstPosition DEF Refuses
<1>2. /\ Len(bound') = Len(bound) /\ DOMAIN bound' = DOMAIN bound
      /\ \A i \in DOMAIN bound : bound'[i] = IF i = k THEN v ELSE bound[i]
  BY <1>1, BindTypes
<1>3. last_bound \in [Names -> Values \cup {Unbound}]
  BY DEF Types
<1>4. last_bound'[n] = v /\ \A x \in Names : x # n => last_bound'[x] = last_bound[x]
  BY <1>3
<1>5. /\ DOMAIN placeholders = 1..Len(placeholders) /\ DOMAIN bound = 1..Len(bound)
      /\ Len(bound) <= Len(placeholders) /\ Len(bound) \in Nat /\ Len(placeholders) \in Nat
      /\ \A i \in 1..Len(placeholders) : placeholders[i] \in Names
  BY DEF Types, TypeOK
<1>6. \A i \in DOMAIN bound : i \in DOMAIN placeholders
  BY <1>5
<1>7. HasCriteria' <=> HasCriteria
  BY DEF HasCriteria
<1>8. RefsFit'
  BY <1>2, <1>7 DEF RefsFit, Fits, Covered
<1>9. FirstBound'
  <2> SUFFICES ASSUME NEW i \in DOMAIN bound, bound'[i] # Unbound
               PROVE  /\ bound'[i] = last_bound'[placeholders[i]]
                      /\ \A j \in DOMAIN placeholders : placeholders[j] = placeholders[i] => i <= j
    BY <1>2 DEF FirstBound
  <2>1. CASE i = k
    BY <1>1, <1>2, <1>4, <1>5, <2>1
  <2>2. CASE i # k
    <3>1. bound[i] # Unbound /\ bound'[i] = bound[i]
      BY <1>2, <2>2
    <3>2. /\ bound[i] = last_bound[placeholders[i]]
          /\ \A j \in DOMAIN placeholders : placeholders[j] = placeholders[i] => i <= j
      BY <3>1 DEF FirstBound
    <3>3. placeholders[i] # n
      <4> SUFFICES ASSUME placeholders[i] = n PROVE FALSE
        OBVIOUS
      <4>1. i <= k /\ k <= i
        BY <1>1, <1>5, <1>6, <3>2
      <4> QED BY <1>5, <2>2, <4>1
    <3> QED BY <1>4, <1>5, <1>6, <3>1, <3>2, <3>3
  <2> QED BY <2>1, <2>2
<1>10. Known'
  BY DEF Known
<1>11. Waiting'
  <2> SUFFICES ASSUME clean
               PROVE  /\ \A i \in DOMAIN placeholders :
                           i \notin DOMAIN bound \/ bound'[i] = Unbound => placeholders[i] \in awaited'
                      /\ kind \in Table /\ ~HasCriteria => ToSet(placeholders) \subseteq awaited'
                      /\ \A c \in ToSet(clauses) : c.built
    BY <1>2, <1>7 DEF Waiting
  <2>1. ~(kind \in Table /\ ~HasCriteria)
    BY DEF Refuses
  <2>2. ASSUME NEW i \in DOMAIN placeholders, i \notin DOMAIN bound \/ bound'[i] = Unbound
        PROVE  placeholders[i] \in awaited'
    <3>1. i # k
      BY <1>1, <1>2, <2>2, CrudAssumption
    <3>2. i \notin DOMAIN bound \/ bound[i] = Unbound
      BY <1>2, <2>2, <3>1
    <3>3. placeholders[i] \in awaited
      BY <2>2, <3>2 DEF Waiting
    <3>4. placeholders[i] # n
      BY <1>1, <1>5, <3>1 DEF Known, IsInjective
    <3> QED BY <3>3, <3>4
  <2> QED BY <2>1, <2>2 DEF Waiting
<1> QED BY <1>8, <1>9, <1>10, <1>11

\* What execute() sends is complete, and has each placeholder's value at its
\* position.
LEMMA SentClauses ==
  ASSUME PlainLists, Types, RefsFit, FirstBound, is_initialized, CanFinalize, NEW c \in ToSet(clauses)
  PROVE  /\ c.built
         /\ \A j \in DOMAIN c.refs : /\ c.refs[j].pos \in DOMAIN Arguments
                                     /\ Arguments[c.refs[j].pos] = last_bound[c.refs[j].name]
<1>1. c.built
  BY DEF is_initialized, ToSet
<1>2. ASSUME NEW j \in DOMAIN c.refs
      PROVE  /\ c.refs[j].pos \in DOMAIN Arguments
             /\ Arguments[c.refs[j].pos] = last_bound[c.refs[j].name]
  <2> DEFINE pos == c.refs[j].pos
  <2>1. pos \in DOMAIN placeholders /\ placeholders[pos] = c.refs[j].name
    BY DEF RefsFit, Fits
  <2>2. kind = "update" => HasCriteria
    <3>1. placeholders # << >>
      BY <2>1
    <3> QED BY <3>1 DEF CanFinalize, Table
  <2>3. pos \in 1..Len(bound)
    BY <2>2 DEF RefsFit, Covered
  <2>4. bound \in Seq(Values \cup {Unbound}) /\ DOMAIN bound = 1..Len(bound) /\ Len(bound) \in Nat
    BY DEF Types, TypeOK
  <2>5. bound[pos] # Unbound
    BY <2>3, <2>4 DEF CanFinalize, AllBound
  <2>6. bound[pos] = last_bound[c.refs[j].name]
    BY <2>1, <2>3, <2>4, <2>5 DEF FirstBound
  <2> HIDE DEF pos
  <2>7. pos \in DOMAIN Arguments /\ Arguments[pos] = bound[pos]
    <3> DEFINE A == Values \cup {Unbound, Limit}
    <3>1. PICK s \in Seq(A), t \in Seq(A) : Arguments = bound \o s \o t
      <4>1. <<Limit>> \in Seq(A) /\ << >> \in Seq(A)
        OBVIOUS
      <4> HIDE DEF A
      <4> QED BY <4>1 DEF Arguments
    <3>2. bound \in Seq(A)
      BY <2>4
    <3> HIDE DEF A
    <3>3. bound \o s \in Seq(A) /\ Len(bound \o s) = Len(bound) + Len(s) /\ Len(s) \in Nat
          /\ (bound \o s)[pos] = bound[pos]
      BY <2>3, <2>4, <3>1, <3>2
    <3> DEFINE b == bound \o s
    <3> HIDE DEF b
    <3>4. b \in Seq(A) /\ pos \in 1..Len(b) /\ b[pos] = bound[pos]
      BY <2>3, <2>4, <3>3 DEF b
    <3>5. pos \in DOMAIN (b \o t) /\ (b \o t)[pos] = b[pos]
      BY <3>1, <3>4
    <3> QED BY <3>1, <3>4, <3>5 DEF b
  <2> QED BY <2>6, <2>7 DEF pos
<1> QED BY <1>1, <1>2

\* add, insert and SQL send what was given last.
LEMMA SentRows ==
  ASSUME Types, Rows, ExecuteAdd \/ ExecuteRows, result' = "sent"
  PROVE  SentAsGiven'
<1>1. docs \in Seq(Docs) /\ op_docs \in Seq(Docs) /\ rows \in Seq(Docs)
  BY DEF Types
<1>2. docs' = docs
  BY DEF ExecuteAdd, ExecuteRows
<1>3. /\ Encoded(docs) \in Seq(Docs)
      /\ ToSet(docs) \cap Noops = {} => Encoded(docs) = docs
  BY <1>1, WithoutRange DEF Encoded
<1>4. PICK before \in Seq(Docs) : rows' = before \o Encoded(docs)
  <2>1. CASE ExecuteAdd
    <3>1. BeforeBad(docs) = docs
      BY <1>1, <2>1, BeforeBadRange DEF ExecuteAdd
    <3>2. rows' = rows \o (op_docs \o Encoded(docs))
      BY <2>1, <3>1 DEF ExecuteAdd, SendRows, bind_docs
    <3>3. rows \o op_docs \in Seq(Docs)
      BY <1>1
    <3>4. rows \o (op_docs \o Encoded(docs)) = (rows \o op_docs) \o Encoded(docs)
      <4>1. PICK more \in Seq(Docs) : more = Encoded(docs)
        BY <1>3
      <4>2. rows \o (op_docs \o more) = (rows \o op_docs) \o more
        BY <1>1, <4>1
      <4> QED BY <4>1, <4>2
    <3> QED BY <3>2, <3>3, <3>4
  <2>2. CASE ExecuteRows
    <3>1. Encoded(docs) = docs
      BY <1>3, <2>2 DEF Rows, ExecuteRows
    <3> QED BY <1>1, <2>2, <3>1 DEF ExecuteRows, SendRows, bind_docs
  <2> QED BY <2>1, <2>2
<1>5. IsSuffix(Encoded(docs), before \o Encoded(docs))
  BY <1>3, <1>4, SuffixOfAppended
<1>6. sent' = [clauses |-> << >>, args |-> << >>, rows |-> rows']
  BY DEF ExecuteAdd, ExecuteRows, SendRows
<1>7. DOMAIN sent'.clauses = {} /\ sent'.rows = rows'
  BY <1>6
<1>8. Encoded(docs)' = Encoded(docs)
  BY <1>2 DEF Encoded, Without
<1> QED BY <1>4, <1>5, <1>7, <1>8 DEF SentAsGiven

\* Every step of a careful application keeps the invariant.
LEMMA Step ==
  ASSUME Careful, IInv, [Next]_vars
  PROVE  IInv'
<1>1. Types /\ RefsFit /\ FirstBound /\ Known /\ Waiting /\ Rows /\ (PlainLists => SentAsGiven)
  BY DEF IInv
<1>2. Types'
  BY <1>1, TypesStep
<1>3. ASSUME result' # "sent" PROVE SentAsGiven'
  BY <1>3 DEF SentAsGiven
<1>4. ASSUME docs' = docs, kind' = kind PROVE Rows'
  BY <1>1, <1>4 DEF Rows
<1>5. ASSUME NEW e \in Exprs,
             where(e) \/ having(e) \/ groupBy(e) \/ (SetOperation(e) /\ add_operation("right", e))
      PROVE  IInv'
  <2>1. Adds(e)
    BY <1>1, <1>5, AddingCalls
  <2>2. RefsFit' /\ FirstBound' /\ Known' /\ Waiting'
    BY <1>1, <1>2, <2>1, AddsKeeps
  <2>3. docs' = docs /\ kind' = kind /\ result' # "sent"
    BY <2>1 DEF Adds, Builds, Accepted, rowVars
  <2> QED BY <1>2, <1>3, <1>4, <2>2, <2>3 DEF IInv
<1>6. ASSUME NEW e \in Exprs, NEW path \in {"right", "wrong", "placeholder"}, add_operation(path, e)
      PROVE  IInv'
  <2>1. CASE path = "right"
    BY <1>5, <1>6, <2>1 DEF add_operation
  <2>2. CASE path # "right"
    <3>1. PICK c : c = Clause("operation", << >>, FALSE)
      OBVIOUS
    <3>2. IsEmptyClause(c, "operation", FALSE)
      <4>1. "operation" \in Slots
        BY DEF Slots
      <4> QED BY <3>1, <4>1, EmptyClause
    <3>3. c \in Clauses /\ DOMAIN c.refs = {} /\ c.slot # "criteria"
      BY <3>2 DEF IsEmptyClause
    <3>4. PathFails(path) /\ UNCHANGED <<kind, limits, rowVars, last_bound>>
      BY <1>6, <2>2 DEF add_operation
    <3>5. /\ clauses' = Append(clauses, c) /\ ~clean' /\ result' # "sent" /\ docs' = docs
          /\ UNCHANGED <<kind, placeholders, bound, given, last_bound, awaited>>
      BY <3>1, <3>4 DEF PathFails, rowVars
    <3>6. RefsFit' /\ FirstBound' /\ Known' /\ Waiting'
      BY <1>1, <3>3, <3>5, AppendedKeeps
    <3> QED BY <1>2, <1>3, <1>4, <3>5, <3>6 DEF IInv
  <2> QED BY <2>1, <2>2
<1>7. ASSUME NEW e \in ListExprs, sort(e) \/ fields(e) PROVE IInv'
  <2>1. PICK slot \in {"sort", "projection"} : AddListElement(slot, e)
    BY <1>7 DEF sort, fields
  <2>2. e.parses \in BOOLEAN /\ e.built \in BOOLEAN /\ (e.parses => e.built)
    BY Expressions
  <2>3. PICK names \in Seq(Names) : names = e.names
    BY Expressions
  <2>4. PICK d : d = Clause(slot, conv_placeholder(names, 0), TRUE)
    OBVIOUS
  <2>5. IsParsed(d, slot, names, 0)
    <3>1. slot \in Slots
      BY DEF Slots
    <3> QED BY <2>4, <3>1, ParsedClause
  <2>6. PICK c \in Clauses :
          /\ c = Clause(slot, conv_placeholder(names, 0), e.built)
          /\ PlainLists => DOMAIN c.refs = {}
          /\ c.slot # "criteria" /\ c.built = e.built
    <3>1. /\ d \in Clauses /\ DOMAIN d.refs = 1..Len(names)
      BY <2>5 DEF IsParsed
    <3>2. PICK c : c = Clause(slot, conv_placeholder(names, 0), e.built)
      OBVIOUS
    <3>3. c.slot = slot /\ c.refs = d.refs
      BY <2>4, <3>2 DEF Clause
    <3>4. c.built = e.built
      BY <3>2 DEF Clause
    <3>5. c \in Clauses
      BY <2>2, <2>4, <3>1, <3>2 DEF Clause, Clauses
    <3>6. PlainLists => names = << >>
      BY <2>3 DEF PlainLists
    <3>7. PlainLists => DOMAIN c.refs = {}
      BY <3>1, <3>3, <3>6
    <3> QED BY <3>2, <3>3, <3>4, <3>5, <3>7
  <2>7. clauses' = Append(clauses, c)
    BY <2>1, <2>3, <2>6 DEF AddListElement
  <2>8. /\ clean' = (clean /\ e.parses) /\ result' # "sent" /\ docs' = docs
        /\ UNCHANGED <<kind, placeholders, bound, given, last_bound, awaited>>
    BY <2>1 DEF AddListElement, rowVars
  <2>9. clean' => clean /\ c.built
    BY <2>2, <2>6, <2>8
  <2>10. RefsFit' /\ FirstBound' /\ Known' /\ Waiting'
    BY <1>1, <2>6, <2>7, <2>8, <2>9, AppendedKeeps
  <2> QED BY <1>2, <1>3, <1>4, <2>8, <2>10 DEF IInv
<1>8. ASSUME UNCHANGED clauseVars, UNCHANGED <<given, last_bound, awaited>>, clean' => clean,
             Rows', PlainLists => SentAsGiven'
      PROVE  IInv'
  BY <1>1, <1>2, <1>8, SameKeeps DEF IInv
<1>9. CASE WrongType
  BY <1>3, <1>4, <1>8, <1>9 DEF WrongType, clauseVars, rowVars
<1>10. ASSUME NEW which \in {"rows", "offset"}, limit(which) PROVE IInv'
  <2>1. /\ UNCHANGED <<kind, clauses, placeholders, bound, given, last_bound, awaited, clean, docs>>
        /\ result' # "sent"
    BY <1>10 DEF limit, rowVars, history
  <2>2. HasCriteria' <=> HasCriteria
    BY <2>1 DEF HasCriteria
  <2>3. RefsFit' /\ FirstBound' /\ Known' /\ Waiting'
    BY <1>1, <2>1, <2>2, QuietKeeps
  <2> QED BY <1>2, <1>3, <1>4, <2>1, <2>3 DEF IInv
<1>11. ASSUME NEW n \in Names, NEW v \in Values, bind(n, v) PROVE IInv'
  <2>1. /\ UNCHANGED <<kind, clauses, limits, placeholders, docs, given>>
        /\ result' # "sent"
    BY <1>11 DEF bind, BindFails, rowVars
  <2>2. CASE UNCHANGED <<bound, last_bound, awaited>> /\ (clean' => clean)
    BY <1>3, <1>4, <1>8, <2>1, <2>2 DEF clauseVars
  <2>3. CASE ~Refuses(n) /\ find_variable(n) <= Len(bound)
             /\ bound' = [bound EXCEPT ![find_variable(n)] = v]
             /\ last_bound' = [last_bound EXCEPT ![n] = v]
             /\ awaited' = awaited \ {n} /\ clean' = clean
    <3>1. RefsFit' /\ FirstBound' /\ Known' /\ Waiting'
      BY <1>1, <2>1, <2>3, BindKeeps
    <3> QED BY <1>2, <1>3, <1>4, <2>1, <3>1 DEF IInv
  <2> QED BY <1>11, <2>2, <2>3 DEF bind, BindFails
<1>12. CASE execute
  <2>1. UNCHANGED clauseVars /\ UNCHANGED <<given, last_bound, awaited, clean, docs, kind>>
        /\ kind \notin Adder
    BY <1>12 DEF execute, clauseVars, rowVars, history
  <2>2. CASE result' # "sent"
    BY <1>3, <1>4, <1>8, <2>1, <2>2
  <2>3. CASE result' = "sent"
    <3>1. is_initialized /\ CanFinalize
      BY <1>12, <2>3 DEF execute
    <3>2. sent' = [clauses |-> clauses, args |-> Arguments, rows |-> << >>]
      BY <1>12, <3>1 DEF execute
    <3>3. sent'.clauses = clauses /\ sent'.args = Arguments
      BY <3>2
    <3>4. \A i \in DOMAIN clauses : clauses[i] \in ToSet(clauses)
      BY DEF ToSet
    <3>5. ASSUME PlainLists, NEW i \in DOMAIN clauses
          PROVE  /\ clauses[i].built
                 /\ \A j \in DOMAIN clauses[i].refs :
                      /\ clauses[i].refs[j].pos \in DOMAIN Arguments
                      /\ Arguments[clauses[i].refs[j].pos] = last_bound[clauses[i].refs[j].name]
      BY <1>1, <3>1, <3>4, <3>5, SentClauses
    <3>6. PlainLists => SentAsGiven'
      BY <2>1, <3>3, <3>5 DEF SentAsGiven
    <3> QED BY <1>4, <1>8, <2>1, <3>6
  <2> QED BY <2>2, <2>3
<1>13. ASSUME NEW d \in Docs, add(d) PROVE IInv'
  <2>1. UNCHANGED clauseVars /\ UNCHANGED <<given, last_bound, awaited, clean, kind>>
        /\ result' # "sent"
    BY <1>13 DEF add, clauseVars, history
  <2>2. ToSet(docs') = ToSet(docs) \cup {d}
    BY <1>1, <1>13, AppendRange DEF add, Types
  <2>3. Rows'
    BY <1>1, <1>13, <2>1, <2>2 DEF add, Rows
  <2> QED BY <1>3, <1>8, <2>1, <2>3
<1>14. CASE ExecuteAdd \/ ExecuteRows
  <2>1. UNCHANGED clauseVars /\ UNCHANGED <<given, last_bound, awaited, clean, kind, docs>>
    BY <1>14 DEF ExecuteAdd, ExecuteRows, clauseVars, history
  <2>2. SentAsGiven'
    BY <1>1, <1>3, <1>14, SentRows
  <2> QED BY <1>4, <1>8, <2>1, <2>2
<1>15. CASE UNCHANGED vars
  <2>1. UNCHANGED <<clauseVars, given, last_bound, awaited, clean, kind, docs, result, sent>>
    BY <1>15 DEF vars, clauseVars, rowVars, history
  <2>2. Encoded(docs)' = Encoded(docs)
    BY <2>1 DEF Encoded, Without
  <2>3. PlainLists => SentAsGiven'
    BY <1>1, <2>1, <2>2 DEF SentAsGiven
  <2> QED BY <1>4, <1>8, <2>1, <2>3
<1> QED
  BY <1>5, <1>6, <1>7, <1>9, <1>10, <1>11, <1>12, <1>13, <1>14, <1>15 DEF Next

\* A new object satisfies it.
LEMMA Start ==
  ASSUME Careful, Init
  PROVE  IInv
<1>1. Types
  BY InitTypes
<1>2. DOMAIN bound = 1..Len(placeholders) /\ \A i \in DOMAIN bound : bound[i] = Unbound
  <2>1. PICK n \in Nat : n = Len(placeholders)
    BY <1>1 DEF Types, TypeOK
  <2>2. PICK b : b = << >> /\ b \in Seq(Values \cup {Unbound}) /\ Len(b) = 0
    <3>1. << >> \in Seq(Values \cup {Unbound}) /\ Len(<< >>) = 0
      OBVIOUS
    <3> QED BY <3>1
  <2>3. DOMAIN resize(b, n) = 1..n
        /\ \A i \in 1..n : resize(b, n)[i] = IF i <= Len(b) THEN b[i] ELSE Unbound
    BY <2>2, Resized
  <2>4. \A i \in 1..n : ~(i <= Len(b))
    BY <2>2
  <2> QED BY <2>1, <2>2, <2>3, <2>4 DEF Init
<1>3. DOMAIN placeholders = 1..Len(placeholders) /\ Len(bound) = Len(placeholders)
  BY <1>1, <1>2 DEF Types, TypeOK
<1>4. FirstBound
  BY <1>2 DEF FirstBound
<1>5. Rows /\ SentAsGiven /\ awaited = given
  BY DEF Init, Rows, SentAsGiven, ToSet
<1>6. given = ToSet(placeholders) /\ IsInjective(placeholders)
  <2>1. CASE CreatedEmpty
    BY <2>1 DEF CreatedEmpty, ToSet, IsInjective
  <2>2. CASE \E e \in Exprs \cup ListExprs, slot \in {"criteria", "projection"} : Begins(slot, e)
    BY <2>2, CreatedTypes
  <2> QED BY <2>1, <2>2, InitTypes
<1>7. Known
  BY <1>6 DEF Known
<1>8. \A c \in ToSet(clauses) : c.built /\ (PlainLists => Fits(c, placeholders))
  <2>1. CASE CreatedEmpty
    BY <2>1 DEF CreatedEmpty, ToSet
  <2>2. ASSUME NEW e \in Exprs \cup ListExprs, NEW slot \in {"criteria", "projection"}, Begins(slot, e)
        PROVE  \A c \in ToSet(clauses) : c.built /\ (PlainLists => Fits(c, placeholders))
    <3>1. IsParsed(clauses[1], slot, e.names, 0) /\ ToSet(clauses) = {clauses[1]}
      BY <2>2, CreatedTypes
    <3>2. PICK names \in Seq(Names) : names = e.names
      BY Expressions
    <3>3. ASSUME PlainLists PROVE placeholders = names
      <4>1. CASE kind = "select" /\ e \in ListExprs /\ placeholders = << >>
        BY <3>2, <3>3, <4>1 DEF PlainLists
      <4>2. CASE IsInjective(names) /\ placeholders = add_placeholders(<< >>, names)
        <5>1. << >> \in Seq(Names) /\ ToSet(<< >>) \cap ToSet(names) = {}
          BY DEF ToSet
        <5>2. add_placeholders(<< >>, names) = << >> \o names
          BY <4>2, <5>1, AddPlaceholders
        <5> QED BY <4>2, <5>2
      <4> QED BY <2>2, <3>2, <4>1, <4>2 DEF Begins, Created, Careful
    <3>4. PICK c : c = clauses[1]
      OBVIOUS
    <3>5. /\ c.built /\ DOMAIN c.refs = 1..Len(names)
          /\ \A j \in 1..Len(names) : c.refs[j].name = names[j] /\ c.refs[j].pos = 0 + j
      BY <3>1, <3>2, <3>4 DEF IsParsed
    <3>6. ASSUME PlainLists PROVE Fits(c, placeholders)
      BY <3>2, <3>3, <3>5, <3>6 DEF Fits
    <3> QED BY <3>1, <3>4, <3>5, <3>6
  <2> QED BY <2>1, <2>2, InitTypes
<1>9. RefsFit
  BY <1>3, <1>8 DEF RefsFit, Fits, Covered
<1>10. Waiting
  <2>1. \A i \in DOMAIN placeholders : placeholders[i] \in ToSet(placeholders)
    BY DEF ToSet
  <2> QED BY <1>5, <1>6, <1>8, <2>1 DEF Waiting
<1> QED BY <1>1, <1>4, <1>5, <1>7, <1>9, <1>10 DEF IInv
-----------------------------------------------------------------------------
(***************************************************************************)
(* Theorems.                                                               *)
(***************************************************************************)
LEMMA Inductive ==
  ASSUME Careful
  PROVE  Spec => []IInv
<1>1. Init => IInv
  BY Start
<1>2. IInv /\ [Next]_vars => IInv'
  BY Step
<1> QED BY <1>1, <1>2, PTL DEF Spec

\* What execute() sends has, at the position that the parser gave each
\* placeholder, the value that bind() last gave its name, through all orders
\* of the calls that add or replace clauses, resize or forget the values, and
\* fail; the rows of add, insert and SQL end with all that was given.
THEOREM SentAsGivenHolds ==
  ASSUME Careful, PlainLists
  PROVE  Spec => []SentAsGiven
<1>1. IInv => SentAsGiven
  BY DEF IInv
<1> QED BY Inductive, <1>1, PTL

\* execute() sends the operation once all that it awaits is bound and no call
\* has failed: no clause is incomplete, no value is missing.
THEOREM UsableWhenBoundHolds ==
  ASSUME Careful
  PROVE  Spec => UsableWhenBound
<1>1. ASSUME IInv, execute, clean, awaited = {}, "offset" \in limits => "rows" \in limits
      PROVE  result' = "sent"
  <2>1. Types /\ Waiting
    BY <1>1 DEF IInv
  <2>2. is_initialized
    <3>1. \A i \in DOMAIN clauses : clauses[i] \in ToSet(clauses)
      BY DEF ToSet
    <3> QED BY <1>1, <2>1, <3>1 DEF is_initialized, Waiting
  <2>3. AllBound
    <3>1. \A i \in DOMAIN bound : i \in DOMAIN placeholders
      BY <2>1 DEF Types, TypeOK
    <3> QED BY <1>1, <2>1, <3>1 DEF AllBound, Waiting
  <2>4. kind \in Table /\ placeholders # << >> => HasCriteria
    <3> SUFFICES ASSUME kind \in Table, placeholders # << >>, ~HasCriteria PROVE FALSE
      OBVIOUS
    <3>1. ToSet(placeholders) = {}
      BY <1>1, <2>1 DEF Waiting
    <3>2. placeholders \in Seq(Names)
      BY <2>1 DEF Types, TypeOK
    <3>3. 1 \in DOMAIN placeholders
      BY <3>2
    <3> QED BY <3>1, <3>3 DEF ToSet
  <2> QED BY <1>1, <2>2, <2>3, <2>4 DEF execute, CanFinalize
<1>2. IInv /\ [Next]_vars
      => [execute /\ clean /\ awaited = {} /\ ("offset" \in limits => "rows" \in limits)
            => result' = "sent"]_vars
  BY <1>1
<1> QED BY Inductive, <1>2, PTL DEF Spec, UsableWhenBound

=============================================================================
