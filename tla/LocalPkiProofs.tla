---------------------------- MODULE LocalPkiProofs ----------------------------
(***************************************************************************)
(* Proofs about LocalPki: its type invariant, that keys belong to their    *)
(* certificates and links to signatures, what a verified chain means, and  *)
(* what bundles and the audit keep, for any number of certificates.        *)
(***************************************************************************)
EXTENDS LocalPki, FunctionTheorems, SequenceTheorems, FiniteSetTheorems, WellFoundedInduction, TLAPS

(***************************************************************************)
(* Recursive functions: an argument by a least counterexample.             *)
(***************************************************************************)

LEMMA LeastNatural ==
    ASSUME NEW S \in SUBSET Nat, S # {}
    PROVE  \E m \in S : \A n \in S : m <= n
<1>1. IsWellFoundedOn({ss \in Nat \X Nat : ss[1] < ss[2]}, Nat)
  BY NatLessThanWellFounded DEF OpToRel
<1>2. PICK m \in S : \A n \in S : ~ (<<n, m>> \in {ss \in Nat \X Nat : ss[1] < ss[2]})
  BY <1>1, WFMin
<1>3. ASSUME NEW n \in S PROVE m <= n
  <2>1. <<n, m>> \in Nat \X Nat /\ <<n, m>>[1] = n /\ <<n, m>>[2] = m
    OBVIOUS
  <2>2. ~ (n < m)
    BY <1>2, <2>1
  <2>. QED
    BY <2>2
<1>. QED
  BY <1>3

\* What holds wherever it holds of everything smaller holds everywhere.
LEMMA ByMeasure ==
    ASSUME NEW D, NEW m \in [D -> Nat], NEW G,
           \A x \in D : (\A y \in D : m[y] < m[x] => y \in G) => x \in G
    PROVE  \A x \in D : x \in G
<1> DEFINE Bad == {m[x] : x \in D \ G}
<1> SUFFICES ASSUME NEW z \in D, z \notin G PROVE FALSE
  OBVIOUS
<1>1. Bad \in SUBSET Nat /\ m[z] \in Bad
  OBVIOUS
<1>2. PICK k \in Bad : \A n \in Bad : k <= n
  <2> HIDE DEF Bad
  <2>. QED
    BY <1>1, LeastNatural
<1>3. PICK x \in D \ G : k = m[x]
  BY <1>2
<1>4. ASSUME NEW y \in D, m[y] < m[x] PROVE y \in G
  <2> SUFFICES ASSUME y \notin G PROVE FALSE
    OBVIOUS
  <2>1. m[y] \in Bad
    OBVIOUS
  <2>2. m[x] <= m[y] /\ m[x] \in Nat /\ m[y] \in Nat
    BY <1>2, <1>3, <2>1
  <2>. QED
    BY <1>4, <2>2
<1>. QED
  BY <1>3, <1>4

\* The equation f[x] = IF x \in Stop THEN b[x] ELSE g[<<x, f[nxt[x]]>>] comes to a smaller
\* argument each time, and each step leads from values in T to values in T.
Descends(D, N, m, Stop, nxt, T, b, g) ==
    /\ N \in Nat /\ m \in [D -> 0..N]
    /\ \A x \in D : x \in Stop => b[x] \in T[x]
    /\ \A x \in D : x \notin Stop =>
           nxt[x] \in D /\ m[nxt[x]] < m[x] /\ \A t \in T[nxt[x]] : g[<<x, t>>] \in T[x]

Solves(f, D, Stop, nxt, T, b, g) ==
    /\ f = [x \in D |-> f[x]]
    /\ \A x \in D : f[x] \in T[x]
    /\ \A x \in D : f[x] = IF x \in Stop THEN b[x] ELSE g[<<x, f[nxt[x]]>>]

\* Such a recursive function exists.
LEMMA Solution ==
    ASSUME NEW D, NEW N, NEW m, NEW Stop, NEW nxt, NEW T, NEW b, NEW g,
           Descends(D, N, m, Stop, nxt, T, b, g)
    PROVE  \E f : Solves(f, D, Stop, nxt, T, b, g)
<1> USE DEF Descends
<1> DEFINE Fits(f, x) == f[x] \in T[x] /\ f[x] = IF x \in Stop THEN b[x] ELSE g[<<x, f[nxt[x]]>>]
           Good(n) == \E f : f = [x \in D |-> f[x]] /\ \A x \in D : m[x] < n => Fits(f, x)
           Step(f) == [x \in D |-> IF x \in Stop THEN b[x] ELSE g[<<x, f[nxt[x]]>>]]
           Bad == {n \in Nat : ~Good(n)}
<1>1. ASSUME NEW n \in Nat, Good(n) PROVE Good(n + 1)
  <2>1. PICK f : f = [x \in D |-> f[x]] /\ \A x \in D : m[x] < n => Fits(f, x)
    BY <1>1
  <2>2. Step(f) = [x \in D |-> Step(f)[x]]
    OBVIOUS
  <2>3. ASSUME NEW x \in D, m[x] < n + 1 PROVE Fits(Step(f), x)
    <3>1. CASE x \in Stop
      BY <3>1
    <3>2. CASE x \notin Stop
      <4>1. nxt[x] \in D /\ m[nxt[x]] < n
        <5>1. nxt[x] \in D /\ m[nxt[x]] < m[x]
          BY <3>2
        <5>2. m[x] \in Nat /\ m[nxt[x]] \in Nat
          BY <5>1
        <5>. QED
          BY <2>3, <5>1, <5>2
      <4>2. Fits(f, nxt[x])
        BY <2>1, <4>1
      <4>3. Step(f)[nxt[x]] = f[nxt[x]]
        BY <4>1, <4>2
      <4>4. Step(f)[x] = g[<<x, f[nxt[x]]>>]
        BY <3>2
      <4>. QED
        BY <3>2, <4>2, <4>3, <4>4
    <3>. QED
      BY <3>1, <3>2
  <2>. QED
    BY <2>2, <2>3
<1>2. Good(0)
  <2>1. \A x \in D : ~(m[x] < 0)
    OBVIOUS
  <2>2. [x \in D |-> 0] = [x \in D |-> [y \in D |-> 0][x]]
    OBVIOUS
  <2>. QED
    BY <2>1, <2>2
<1>3. Bad = {}
  <2> SUFFICES ASSUME Bad # {} PROVE FALSE
    OBVIOUS
  <2>1. PICK k \in Bad : \A n \in Bad : k <= n
    <3>1. Bad \in SUBSET Nat
      OBVIOUS
    <3> HIDE DEF Bad
    <3>. QED
      BY <3>1, LeastNatural
  <2>2. k \in Nat /\ ~Good(k)
    OBVIOUS
  <2> HIDE DEF Good
  <2>3. k # 0
    BY <1>2, <2>2
  <2>4. k - 1 \in Nat /\ k = (k - 1) + 1 /\ ~(k <= k - 1)
    BY <2>2, <2>3
  <2>5. Good(k - 1)
    BY <2>1, <2>4
  <2>6. Good((k - 1) + 1)
    BY <1>1, <2>4, <2>5
  <2>. QED
    BY <2>2, <2>4, <2>6
<1>4. Good(N + 1)
  <2>1. N + 1 \in Nat
    OBVIOUS
  <2> HIDE DEF Good
  <2>. QED
    BY <1>3, <2>1
<1>5. \A x \in D : m[x] < N + 1
  OBVIOUS
<1>. QED
  BY <1>4, <1>5 DEF Solves

LEMMA Fewer ==
    ASSUME NEW R, IsFiniteSet(R), NEW S \in SUBSET R
    PROVE  /\ IsFiniteSet(R \ S) /\ Cardinality(R) \in Nat /\ Cardinality(R \ S) \in 0..Cardinality(R)
           /\ \A X \in SUBSET R : X # {} /\ X \cap S = {} => Cardinality(R \ (S \cup X)) < Cardinality(R \ S)
<1>1. /\ IsFiniteSet(R \ S) /\ Cardinality(R) \in Nat /\ Cardinality(R \ S) \in Nat
      /\ Cardinality(R \ S) <= Cardinality(R)
  BY FS_Subset, FS_CardinalityType
<1>2. ASSUME NEW X \in SUBSET R, X # {}, X \cap S = {}
      PROVE  Cardinality(R \ (S \cup X)) < Cardinality(R \ S)
  <2>1. (R \ (S \cup X)) \subseteq R \ S /\ R \ (S \cup X) # R \ S
    BY <1>2
  <2>2. /\ IsFiniteSet(R \ (S \cup X)) /\ Cardinality(R \ (S \cup X)) <= Cardinality(R \ S)
        /\ Cardinality(R \ (S \cup X)) # Cardinality(R \ S)
    BY <1>1, <2>1, FS_Subset
  <2>3. Cardinality(R \ (S \cup X)) \in Nat
    BY <2>2, FS_CardinalityType
  <2>. QED
    BY <1>1, <2>2, <2>3
<1>. QED
  BY <1>1, <1>2

\* The way from i along `to`, to one where it halts or would come to one it has seen;
\* it repeats itself only if the first one was not seen.
IsTrail(s, R, Halt, to, seen, i) ==
    /\ s \in Seq(R) /\ s # <<>> /\ s[1] = i
    /\ \A n \in 1..(Len(s) - 1) : s[n] \notin Halt /\ s[n + 1] = to[s[n]] /\ s[n + 1] \notin seen
    /\ \/ s[Len(s)] \in Halt
       \/ to[s[Len(s)]] \in seen
       \/ \E n \in 2..Len(s) : s[n] = to[s[Len(s)]]
    /\ i \in seen => \A n, m \in 1..Len(s) : s[n] = s[m] => n = m

LEMMA TrailEnds ==
    ASSUME NEW R, NEW Halt, NEW to, NEW seen, NEW i \in R, i \in Halt \/ to[i] \in seen
    PROVE  IsTrail(<<i>>, R, Halt, to, seen, i)
  BY DEF IsTrail

LEMMA TrailGoesOn ==
    ASSUME NEW R, NEW Halt, NEW to, NEW seen, NEW i \in R, i \notin Halt, to[i] \notin seen,
           NEW t, IsTrail(t, R, Halt, to, seen \cup {to[i]}, to[i])
    PROVE  IsTrail(<<i>> \o t, R, Halt, to, seen, i)
<1> DEFINE u == <<i>> \o t
<1>1. t \in Seq(R) /\ Len(t) \in Nat \ {0}
  BY EmptySeq, LenProperties DEF IsTrail
<1>2. /\ u \in Seq(R) /\ Len(u) = Len(t) + 1 /\ u[1] = i
      /\ \A n \in 1..Len(t) : u[n + 1] = t[n]
  <2>1. <<i>> \in Seq(R) /\ Len(<<i>>) = 1 /\ <<i>>[1] = i
    OBVIOUS
  <2>2. u \in Seq(R) /\ Len(u) = 1 + Len(t)
    BY <1>1, <2>1, ConcatProperties
  <2>3. \A n \in 1..(1 + Len(t)) : u[n] = IF n <= 1 THEN <<i>>[n] ELSE t[n - 1]
    BY <1>1, <2>1, ConcatProperties
  <2> HIDE DEF u
  <2>4. u[1] = i
    BY <1>1, <2>1, <2>3
  <2>5. ASSUME NEW n \in 1..Len(t) PROVE u[n + 1] = t[n]
    BY <1>1, <2>3
  <2>. QED
    BY <1>1, <2>2, <2>4, <2>5
<1> HIDE DEF u
<1>3. u # <<>>
  BY <1>1, <1>2, EmptySeq
<1>4. ASSUME NEW n \in 1..(Len(u) - 1)
      PROVE  u[n] \notin Halt /\ u[n + 1] = to[u[n]] /\ u[n + 1] \notin seen
  <2>1. CASE n = 1
    <3>1. u[2] = t[1] /\ t[1] = to[i]
      BY <1>1, <1>2 DEF IsTrail
    <3>. QED
      BY <1>2, <2>1, <3>1
  <2>2. CASE n # 1
    <3>1. n - 1 \in 1..(Len(t) - 1) /\ n - 1 \in 1..Len(t) /\ n \in 1..Len(t) /\ (n - 1) + 1 = n
      BY <1>1, <1>2, <2>2
    <3>2. u[n] = t[n - 1] /\ u[n + 1] = t[n]
      BY <1>2, <3>1
    <3>3. t[n - 1] \notin Halt /\ t[n] = to[t[n - 1]] /\ t[n] \notin seen
      BY <3>1 DEF IsTrail
    <3>. QED
      BY <3>2, <3>3
  <2>. QED
    BY <2>1, <2>2
<1>5. u[Len(u)] = t[Len(t)]
  BY <1>1, <1>2
<1>6. \/ u[Len(u)] \in Halt
      \/ to[u[Len(u)]] \in seen
      \/ \E n \in 2..Len(u) : u[n] = to[u[Len(u)]]
  <2>1. CASE to[t[Len(t)]] = to[i]
    <3>1. u[2] = to[i] /\ 2 \in 2..Len(u)
      BY <1>1, <1>2 DEF IsTrail
    <3>. QED
      BY <1>5, <2>1, <3>1
  <2>2. CASE \E n \in 2..Len(t) : t[n] = to[t[Len(t)]]
    <3>1. PICK n \in 2..Len(t) : t[n] = to[t[Len(t)]]
      BY <2>2
    <3>2. n + 1 \in 2..Len(u) /\ u[n + 1] = t[n]
      BY <1>1, <1>2
    <3>. QED
      BY <1>5, <3>1, <3>2
  <2>. QED
    BY <1>5, <2>1, <2>2 DEF IsTrail
<1>7. ASSUME i \in seen, NEW n \in 1..Len(u), NEW m \in 1..Len(u), n < m
      PROVE  u[n] # u[m]
  <2>1. m - 1 \in 1..(Len(u) - 1) /\ m - 1 \in 1..Len(t) /\ (m - 1) + 1 = m
    BY <1>1, <1>2, <1>7
  <2>2. u[m] \notin seen /\ u[m] = t[m - 1]
    BY <1>2, <1>4, <2>1
  <2>3. CASE n = 1
    BY <1>2, <1>7, <2>2, <2>3
  <2>4. CASE n # 1
    <3>1. n - 1 \in 1..Len(t) /\ (n - 1) + 1 = n /\ n - 1 # m - 1
      BY <1>1, <1>2, <1>7, <2>4
    <3>2. u[n] = t[n - 1]
      BY <1>2, <3>1
    <3>3. t[n - 1] # t[m - 1]
      BY <2>1, <3>1 DEF IsTrail
    <3>. QED
      BY <2>2, <3>2, <3>3
  <2>. QED
    BY <2>3, <2>4
<1>8. i \in seen => \A n, m \in 1..Len(u) : u[n] = u[m] => n = m
  <2> SUFFICES ASSUME i \in seen, NEW n \in 1..Len(u), NEW m \in 1..Len(u), u[n] = u[m]
               PROVE  n = m
    OBVIOUS
  <2>1. ~(n < m) /\ ~(m < n)
    BY <1>7
  <2>2. n \in Nat /\ m \in Nat
    OBVIOUS
  <2>. QED
    BY <2>1, <2>2
<1>. QED
  BY <1>2, <1>3, <1>4, <1>6, <1>8 DEF IsTrail, u

\* A function that collects such ways.
Walks(f, R, Halt, to) ==
    /\ f = [at \in (SUBSET R) \X R |-> f[at]]
    /\ \A at \in (SUBSET R) \X R :
           f[at] = IF at[2] \in Halt \/ to[at[2]] \in at[1] THEN <<at[2]>>
                   ELSE <<at[2]>> \o f[<<at[1] \cup {to[at[2]]}, to[at[2]]>>]

LEMMA Trails ==
    ASSUME NEW R, IsFiniteSet(R), NEW Halt, NEW to, \A i \in R : i \notin Halt => to[i] \in R
    PROVE  /\ \E f : Walks(f, R, Halt, to)
           /\ \A f : Walks(f, R, Halt, to) =>
                  \A at \in (SUBSET R) \X R : IsTrail(f[at], R, Halt, to, at[1], at[2])
<1> DEFINE D == (SUBSET R) \X R
           Stop == {at \in D : at[2] \in Halt \/ to[at[2]] \in at[1]}
           nxt == [at \in D |-> <<at[1] \cup {to[at[2]]}, to[at[2]]>>]
           m == [at \in D |-> Cardinality(R \ at[1])]
           T == [at \in D |-> {s \in Seq(R) : IsTrail(s, R, Halt, to, at[1], at[2])}]
           b == [at \in D |-> <<at[2]>>]
           g == [x \in D \X Seq(R) |-> <<x[1][2]>> \o x[2]]
           N == Cardinality(R)
<1>1. N \in Nat /\ m \in [D -> 0..N] /\ m \in [D -> Nat]
  <2>1. \A at \in D : Cardinality(R \ at[1]) \in 0..N
    BY Fewer
  <2>2. N \in Nat
    BY FS_CardinalityType
  <2>. QED
    BY <2>1, <2>2
<1>2. ASSUME NEW at \in D, at \notin Stop
      PROVE  /\ nxt[at] \in D /\ nxt[at] = <<at[1] \cup {to[at[2]]}, to[at[2]]>>
             /\ m[nxt[at]] < m[at]
  <2>1. at[1] \in SUBSET R /\ at[2] \in R /\ at[2] \notin Halt /\ to[at[2]] \in R /\ to[at[2]] \notin at[1]
    BY <1>2
  <2>2. Cardinality(R \ (at[1] \cup {to[at[2]]})) < Cardinality(R \ at[1])
    BY <2>1, Fewer
  <2>. QED
    BY <2>1, <2>2
<1>3. ASSUME NEW at \in D, at \in Stop PROVE b[at] \in T[at]
  <2>1. at[2] \in R /\ (at[2] \in Halt \/ to[at[2]] \in at[1])
    BY <1>3
  <2>2. IsTrail(<<at[2]>>, R, Halt, to, at[1], at[2])
    BY <2>1, TrailEnds
  <2>. QED
    BY <2>2 DEF IsTrail
<1>4. ASSUME NEW at \in D, at \notin Stop, NEW t \in T[nxt[at]]
      PROVE  g[<<at, t>>] = <<at[2]>> \o t /\ g[<<at, t>>] \in T[at]
  <2>1. at[2] \in R /\ at[2] \notin Halt /\ to[at[2]] \notin at[1]
    BY <1>4
  <2>2. nxt[at] \in D /\ nxt[at] = <<at[1] \cup {to[at[2]]}, to[at[2]]>>
    BY <1>2, <1>4
  <2>3. t \in Seq(R) /\ IsTrail(t, R, Halt, to, at[1] \cup {to[at[2]]}, to[at[2]])
    BY <2>2
  <2>4. IsTrail(<<at[2]>> \o t, R, Halt, to, at[1], at[2])
    BY <2>1, <2>3, TrailGoesOn
  <2>5. g[<<at, t>>] = <<at[2]>> \o t
    BY <2>3
  <2>6. <<at[2]>> \o t \in Seq(R)
    BY <2>4 DEF IsTrail
  <2>7. T[at] = {s \in Seq(R) : IsTrail(s, R, Halt, to, at[1], at[2])}
    OBVIOUS
  <2>. QED
    BY <2>4, <2>5, <2>6, <2>7
<1>5. Descends(D, N, m, Stop, nxt, T, b, g)
  <2>1. \A at \in D : at \notin Stop =>
            nxt[at] \in D /\ m[nxt[at]] < m[at] /\ \A t \in T[nxt[at]] : g[<<at, t>>] \in T[at]
    BY <1>2, <1>4
  <2>2. \A at \in D : at \in Stop => b[at] \in T[at]
    BY <1>3
  <2> HIDE DEF D, Stop, nxt, m, T, b, g, N
  <2>. QED
    BY <1>1, <2>1, <2>2 DEF Descends
<1>6. PICK f : Solves(f, D, Stop, nxt, T, b, g)
  <2> HIDE DEF D, Stop, nxt, m, T, b, g, N
  <2>. QED
    BY <1>5, Solution
<1>7. ASSUME NEW at \in D
      PROVE  f[at] = IF at[2] \in Halt \/ to[at[2]] \in at[1] THEN <<at[2]>>
                     ELSE <<at[2]>> \o f[<<at[1] \cup {to[at[2]]}, to[at[2]]>>]
  <2>1. CASE at \in Stop
    BY <1>6, <2>1 DEF Solves
  <2>2. CASE at \notin Stop
    <3>1. f[nxt[at]] \in T[nxt[at]] /\ nxt[at] = <<at[1] \cup {to[at[2]]}, to[at[2]]>>
      BY <1>2, <1>6, <2>2 DEF Solves
    <3>2. g[<<at, f[nxt[at]]>>] = <<at[2]>> \o f[nxt[at]]
      <4> HIDE DEF D, Stop, nxt, m, T, b, g, N
      <4>. QED
        BY <1>4, <2>2, <3>1
    <3>3. ~(at[2] \in Halt \/ to[at[2]] \in at[1])
      BY <2>2
    <3>4. f[at] = g[<<at, f[nxt[at]]>>]
      BY <1>6, <2>2 DEF Solves
    <3> HIDE DEF nxt, g, T, Stop
    <3>. QED
      BY <3>1, <3>2, <3>3, <3>4
  <2>. QED
    BY <2>1, <2>2
<1>8. ASSUME NEW h, Walks(h, R, Halt, to)
      PROVE  \A at \in D : IsTrail(h[at], R, Halt, to, at[1], at[2])
  <2> DEFINE G == {at \in D : IsTrail(h[at], R, Halt, to, at[1], at[2])}
  <2>1. ASSUME NEW at \in D, \A y \in D : m[y] < m[at] => y \in G PROVE at \in G
    <3>1. CASE at \in Stop
      <4>1. at[2] \in R /\ (at[2] \in Halt \/ to[at[2]] \in at[1]) /\ h[at] = <<at[2]>>
        BY <1>8, <3>1 DEF Walks
      <4>. QED
        BY <4>1, TrailEnds
    <3>2. CASE at \notin Stop
      <4>1. at[2] \in R /\ at[2] \notin Halt /\ to[at[2]] \notin at[1]
        BY <3>2
      <4>2. nxt[at] \in G /\ nxt[at] = <<at[1] \cup {to[at[2]]}, to[at[2]]>>
        <5> HIDE DEF G, D, Stop, m
        <5>. QED
          BY <1>2, <2>1, <3>2 DEF nxt
      <4>3. h[at] = <<at[2]>> \o h[nxt[at]]
        BY <1>8, <4>1, <4>2 DEF Walks
      <4>4. IsTrail(h[nxt[at]], R, Halt, to, at[1] \cup {to[at[2]]}, to[at[2]])
        <5>1. nxt[at][1] = at[1] \cup {to[at[2]]} /\ nxt[at][2] = to[at[2]]
          BY <4>2
        <5>. QED
          BY <4>2, <5>1
      <4>5. IsTrail(<<at[2]>> \o h[nxt[at]], R, Halt, to, at[1], at[2])
        <5> HIDE DEF nxt
        <5>. QED
          BY <4>1, <4>4, TrailGoesOn
      <4>. QED
        BY <4>3, <4>5
    <3>. QED
      BY <3>1, <3>2
  <2>2. \A at \in D : at \in G
    <3> HIDE DEF D, G, m
    <3>. QED
      BY <1>1, <2>1, ByMeasure
  <2>. QED
    BY <2>2
<1>9. f = [at \in D |-> f[at]]
  BY <1>6 DEF Solves
<1>10. Walks(f, R, Halt, to)
  BY <1>7, <1>9 DEF Walks
<1>. QED
  BY <1>8, <1>10

\* The function that adds to a set what belongs to it, until that is nothing, gives the
\* least set that holds it and all that belongs to it.
Closes(f, R, more) ==
    /\ f = [S \in SUBSET R |-> f[S]]
    /\ \A S \in SUBSET R : f[S] = IF more[S] = {} THEN S ELSE f[S \cup more[S]]

Closed(C, more) == \A A \in SUBSET C : more[A] \subseteq C

IsClosure(A, R, more, S) ==
    /\ A \in SUBSET R /\ S \subseteq A /\ more[A] = {}
    /\ \A C \in SUBSET R : S \subseteq C /\ Closed(C, more) => A \subseteq C

LEMMA Closures ==
    ASSUME NEW R, IsFiniteSet(R), NEW more, \A S \in SUBSET R : more[S] \in SUBSET R /\ more[S] \cap S = {}
    PROVE  /\ \E f : Closes(f, R, more)
           /\ \A f : Closes(f, R, more) => \A S \in SUBSET R : IsClosure(f[S], R, more, S)
<1> DEFINE D == SUBSET R
           Stop == {S \in D : more[S] = {}}
           nxt == [S \in D |-> S \cup more[S]]
           m == [S \in D |-> Cardinality(R \ S)]
           T == [S \in D |-> {A \in D : IsClosure(A, R, more, S)}]
           b == [S \in D |-> S]
           g == [x \in D \X D |-> x[2]]
           N == Cardinality(R)
<1>1. N \in Nat /\ m \in [D -> 0..N] /\ m \in [D -> Nat]
  <2>1. \A S \in D : Cardinality(R \ S) \in 0..N
    BY Fewer
  <2>2. N \in Nat
    BY FS_CardinalityType
  <2> HIDE DEF D, N
  <2>. QED
    BY <2>1, <2>2
<1>2. ASSUME NEW S \in D, S \notin Stop
      PROVE  /\ nxt[S] \in D /\ nxt[S] = S \cup more[S]
             /\ m[nxt[S]] < m[S]
  <2>1. more[S] \in SUBSET R /\ more[S] # {} /\ more[S] \cap S = {}
    BY <1>2
  <2>2. Cardinality(R \ (S \cup more[S])) < Cardinality(R \ S)
    BY <2>1, Fewer
  <2>. QED
    BY <2>1, <2>2
<1>3. ASSUME NEW S \in D, more[S] = {} PROVE IsClosure(S, R, more, S)
  BY <1>3 DEF IsClosure
<1>4. ASSUME NEW S \in D, NEW A, IsClosure(A, R, more, S \cup more[S]) PROVE IsClosure(A, R, more, S)
  <2>1. ASSUME NEW C \in SUBSET R, S \subseteq C, Closed(C, more) PROVE A \subseteq C
    <3>1. more[S] \subseteq C
      BY <2>1 DEF Closed
    <3>. QED
      BY <1>4, <2>1, <3>1 DEF IsClosure
  <2>. QED
    BY <1>4, <2>1 DEF IsClosure
<1>5. Descends(D, N, m, Stop, nxt, T, b, g)
  <2>1. ASSUME NEW S \in D, S \notin Stop
        PROVE  nxt[S] \in D /\ m[nxt[S]] < m[S] /\ \A A \in T[nxt[S]] : g[<<S, A>>] \in T[S]
    <3>1. ASSUME NEW A \in T[nxt[S]] PROVE g[<<S, A>>] \in T[S]
      <4>1. A \in D /\ IsClosure(A, R, more, S \cup more[S])
        BY <1>2, <2>1, <3>1
      <4>2. g[<<S, A>>] = A
        BY <4>1
      <4>. QED
        BY <1>4, <4>1, <4>2
    <3>. QED
      BY <1>2, <2>1, <3>1
  <2>2. ASSUME NEW S \in D, S \in Stop PROVE b[S] \in T[S]
    BY <1>3, <2>2
  <2> HIDE DEF D, Stop, nxt, m, T, b, g, N
  <2>. QED
    BY <1>1, <2>1, <2>2 DEF Descends
<1>6. PICK f : Solves(f, D, Stop, nxt, T, b, g)
  <2> HIDE DEF D, Stop, nxt, m, T, b, g, N
  <2>. QED
    BY <1>5, Solution
<1>7. ASSUME NEW S \in D PROVE f[S] = IF more[S] = {} THEN S ELSE f[S \cup more[S]]
  <2>1. CASE S \in Stop
    BY <1>6, <2>1 DEF Solves
  <2>2. CASE S \notin Stop
    <3>1. f[nxt[S]] \in D /\ nxt[S] = S \cup more[S] /\ f[S] = g[<<S, f[nxt[S]]>>]
      BY <1>2, <1>6, <2>2 DEF Solves
    <3>2. g[<<S, f[nxt[S]]>>] = f[nxt[S]]
      BY <3>1
    <3>3. more[S] # {}
      BY <2>2
    <3> HIDE DEF nxt, g, Stop
    <3>. QED
      BY <3>1, <3>2, <3>3
  <2>. QED
    BY <2>1, <2>2
<1>8. ASSUME NEW h, Closes(h, R, more) PROVE \A S \in D : IsClosure(h[S], R, more, S)
  <2> DEFINE G == {S \in D : IsClosure(h[S], R, more, S)}
  <2>1. ASSUME NEW S \in D, \A y \in D : m[y] < m[S] => y \in G PROVE S \in G
    <3>1. CASE S \in Stop
      <4>1. h[S] = S /\ more[S] = {}
        BY <1>8, <3>1 DEF Closes
      <4>. QED
        BY <1>3, <4>1
    <3>2. CASE S \notin Stop
      <4>1. nxt[S] \in G /\ nxt[S] = S \cup more[S]
        <5> HIDE DEF G, D, Stop, m
        <5>. QED
          BY <1>2, <2>1, <3>2 DEF nxt
      <4>2. h[S] = h[S \cup more[S]]
        BY <1>8, <3>2 DEF Closes
      <4>3. IsClosure(h[S], R, more, S \cup more[S])
        BY <4>1, <4>2
      <4>. QED
        BY <1>4, <4>3
    <3>. QED
      BY <3>1, <3>2
  <2>2. \A S \in D : S \in G
    <3> HIDE DEF D, G, m
    <3>. QED
      BY <1>1, <2>1, ByMeasure
  <2>. QED
    BY <2>2
<1>9. Closes(f, R, more)
  BY <1>6, <1>7 DEF Closes, Solves
<1>. QED
  BY <1>8, <1>9

(***************************************************************************)
(* The inductive invariant.                                                *)
(***************************************************************************)

Link == Id \cup {NoId}

\* A table of certificates: every link leads to a row, and no certificate has two rows.
TableOK(table, n) ==
    /\ DOMAIN table \subseteq Id
    /\ \A i \in DOMAIN table :
           table[i] \in Row /\ table[i].issuer \in DOMAIN table \cup {NoId} /\ table[i].cert.serial <= n
    /\ \A i, j \in DOMAIN table : table[i].cert = table[j].cert => i = j

Belongs(c, key, stray) == key \in {NoKey, c.pub} \/ <<c.pub, key>> \in stray

Linked(c, p, guess, stray) == WrongLinks(c, p) \subseteq guess \/ <<p.pub, c.by>> \in stray

KeysOK(table, stray) == \A i \in DOMAIN table : Belongs(table[i].cert, table[i].key, stray)

LinksOK(table, guess, stray) ==
    \A i \in DOMAIN table : table[i].issuer # NoId =>
        Linked(table[i].cert, table[table[i].issuer].cert, guess, stray)

\* What a bundle carries was so in its context; no certificate is in it twice.
ItemOK(it, n, guess, stray) ==
    /\ it \in Item /\ it.cert.serial <= n
    /\ Belongs(it.cert, it.key, stray)
    /\ it.issuer # NoCert => Linked(it.cert, it.issuer, guess, stray)

FileOK(f, n, guess, stray) ==
    \/ f = NoFile
    \/ f.is = "pem" /\ f.certs \in Seq(Certificate) /\ f.certs # <<>>
       /\ \A k \in 1..Len(f.certs) : f.certs[k].serial <= n
    \/ /\ f.is = "bundle" /\ IsFiniteSet(f.items)
       /\ \A it \in f.items : ItemOK(it, n, guess, stray)
       /\ \A a, b \in f.items : a.cert = b.cert => a = b

IInv ==
    /\ TableOK(rows, serials) /\ KeysOK(rows, strayed) /\ LinksOK(rows, guessed, strayed)
    /\ FileOK(file, serials, guessed, strayed)
    /\ files \in 0..MaxFiles /\ pairs \in 0..MaxPairs /\ serials \in 0..MaxSerial

\* A table has finitely many rows.
LEMMA FiniteTable ==
    ASSUME NEW R, R \subseteq Id
    PROVE  IsFiniteSet(R) /\ Cardinality(R) \in Nat /\ Cardinality(R) <= MaxRows
           /\ IsFiniteSet(Id \ R) /\ (Cardinality(R) < MaxRows => Id \ R # {})
           /\ Cardinality(Id \ R) = MaxRows - Cardinality(R) /\ MaxRows \in Nat
<1>1. IsFiniteSet(Id) /\ Cardinality(Id) = MaxRows /\ MaxRows \in Nat
  <2>1. MaxRows \in Nat
    BY PkiAssumption
  <2>2. IsFiniteSet(1..MaxRows) /\ Cardinality(1..MaxRows) = MaxRows
    BY <2>1, FS_Interval
  <2>. QED
    BY <2>1, <2>2 DEF Id
<1>2. IsFiniteSet(R) /\ Cardinality(R) \in Nat /\ Cardinality(R) <= MaxRows
  BY <1>1, FS_Subset, FS_CardinalityType
<1>3. Id \cap R = R
  OBVIOUS
<1>4. IsFiniteSet(Id \ R) /\ Cardinality(Id \ R) = MaxRows - Cardinality(R)
  BY <1>1, <1>3, FS_Difference
<1>5. Id \ R = {} => Cardinality(R) = MaxRows
  <2> SUFFICES ASSUME Id \ R = {} PROVE Cardinality(R) = MaxRows
    OBVIOUS
  <2>1. R = Id
    OBVIOUS
  <2>. QED
    BY <1>1, <2>1
<1>. QED
  BY <1>1, <1>2, <1>4, <1>5

(***************************************************************************)
(* Chains of issuers.                                                      *)
(***************************************************************************)

Roots == {i \in DOMAIN rows : rows[i].issuer = NoId}

IssuerOf == [i \in DOMAIN rows |-> rows[i].issuer]

LEMMA AboveTrail ==
    ASSUME TableOK(rows, serials), NEW met \in SUBSET DOMAIN rows, NEW start \in DOMAIN rows
    PROVE  IsTrail(Above(start, met), DOMAIN rows, Roots, IssuerOf, met, start)
<1> DEFINE R == DOMAIN rows
           D == (SUBSET R) \X R
           Body(f, at) == IF rows[at[2]].issuer = NoId \/ rows[at[2]].issuer \in at[1] THEN <<at[2]>>
                          ELSE <<at[2]>> \o f[<<at[1] \cup {rows[at[2]].issuer}, rows[at[2]].issuer>>]
           E(f) == f = [at \in D |-> Body(f, at)]
           F == CHOOSE f : E(f)
<1>1. Above(start, met) = F[<<met, start>>]
  BY DEF Above
<1>2. \A at \in D : (at[2] \in Roots <=> rows[at[2]].issuer = NoId) /\ IssuerOf[at[2]] = rows[at[2]].issuer
  BY DEF Roots, IssuerOf
<1>3. ASSUME NEW f, Walks(f, R, Roots, IssuerOf) PROVE E(f)
  <2>1. \A at \in D : f[at] = Body(f, at)
    BY <1>2, <1>3 DEF Walks
  <2>2. f = [at \in D |-> f[at]]
    BY <1>3 DEF Walks
  <2> HIDE DEF D, Body
  <2>. QED
    BY <2>1, <2>2
<1>4. ASSUME NEW f, E(f) PROVE Walks(f, R, Roots, IssuerOf)
  <2>1. \A at \in D : f[at] = Body(f, at)
    <3> HIDE DEF D, Body
    <3>. QED
      BY <1>4
  <2>2. f = [at \in D |-> f[at]]
    <3> HIDE DEF D, Body
    <3>. QED
      BY <1>4
  <2>. QED
    BY <1>2, <2>1, <2>2 DEF Walks
<1>5. /\ \E f : Walks(f, R, Roots, IssuerOf)
      /\ \A f : Walks(f, R, Roots, IssuerOf) =>
             \A at \in D : IsTrail(f[at], R, Roots, IssuerOf, at[1], at[2])
  <2>1. IsFiniteSet(R)
    BY FiniteTable DEF TableOK
  <2>2. \A i \in R : i \notin Roots => IssuerOf[i] \in R
    BY DEF TableOK, Roots, IssuerOf
  <2> HIDE DEF R
  <2>. QED
    BY <2>1, <2>2, Trails
<1>6. E(F)
  <2> HIDE DEF E
  <2>. QED
    BY <1>3, <1>5
<1>7. \A at \in D : IsTrail(F[at], R, Roots, IssuerOf, at[1], at[2])
  <2> HIDE DEF E, F
  <2>. QED
    BY <1>4, <1>5, <1>6
<1>8. <<met, start>> \in D /\ <<met, start>>[1] = met /\ <<met, start>>[2] = start
  OBVIOUS
<1>. QED
  <2> HIDE DEF D, F
  <2>. QED
    BY <1>1, <1>7, <1>8

\* A chain is of rows, each the issuer of the one before; one that ends at a row without
\* an issuer passes no revoked row unseen and no cycle.
LEMMA ChainFacts ==
    ASSUME TableOK(rows, serials), NEW met \in SUBSET DOMAIN rows, NEW start \in DOMAIN rows
    PROVE  /\ Above(start, met) \in Seq(DOMAIN rows) /\ Len(Above(start, met)) \in Nat \ {0}
           /\ Above(start, met)[1] = start
           /\ \A n \in 1..(Len(Above(start, met)) - 1) :
                  /\ rows[Above(start, met)[n]].issuer = Above(start, met)[n + 1]
                  /\ Above(start, met)[n + 1] \notin met
<1> DEFINE s == Above(start, met)
<1>1. IsTrail(s, DOMAIN rows, Roots, IssuerOf, met, start)
  BY AboveTrail
<1> HIDE DEF s
<1>2. s \in Seq(DOMAIN rows) /\ Len(s) \in Nat \ {0} /\ s[1] = start
  BY <1>1, EmptySeq, LenProperties DEF IsTrail
<1>3. ASSUME NEW n \in 1..(Len(s) - 1) PROVE rows[s[n]].issuer = s[n + 1] /\ s[n + 1] \notin met
  <2>1. n \in 1..Len(s) /\ s[n] \in DOMAIN rows
    BY <1>2, ElementOfSeq
  <2>2. s[n + 1] = IssuerOf[s[n]] /\ s[n + 1] \notin met
    BY <1>1 DEF IsTrail
  <2>. QED
    BY <2>1, <2>2 DEF IssuerOf
<1>. QED
  BY <1>2, <1>3 DEF s

LEMMA ParentsFacts ==
    ASSUME TableOK(rows, serials), NEW i \in DOMAIN rows
    PROVE  \A n \in DOMAIN ParentsOf(i) : ParentsOf(i)[n] \in DOMAIN rows \ {i}
<1> DEFINE s == Above(i, {i})
<1>1. /\ s \in Seq(DOMAIN rows) /\ Len(s) \in Nat \ {0}
      /\ \A n \in 1..(Len(s) - 1) : s[n + 1] \notin {i}
  BY ChainFacts
<1> HIDE DEF s
<1>2. /\ Tail(s) \in Seq(DOMAIN rows) /\ Len(Tail(s)) = Len(s) - 1
      /\ \A n \in 1..Len(Tail(s)) : Tail(s)[n] = s[n + 1]
  BY <1>1, HeadTailProperties, EmptySeq
<1>3. DOMAIN Tail(s) = 1..(Len(s) - 1)
  BY <1>1, <1>2, LenProperties
<1>4. ASSUME NEW n \in 1..(Len(s) - 1) PROVE Tail(s)[n] \in DOMAIN rows \ {i}
  <2>1. Tail(s)[n] = s[n + 1] /\ s[n + 1] \notin {i}
    BY <1>1, <1>2
  <2>2. s[n + 1] \in DOMAIN rows
    BY <1>1, ElementOfSeq
  <2>. QED
    BY <2>1, <2>2
<1>. QED
  BY <1>3, <1>4 DEF ParentsOf, s

LEMMA DescendantsFacts ==
    ASSUME TableOK(rows, serials), NEW i \in DOMAIN rows
    PROVE  DescendantsOf(i) \subseteq DOMAIN rows \ {i}
<1> DEFINE R == DOMAIN rows
           more == [S \in SUBSET R |-> {k \in R : rows[k].issuer \in S} \ S]
           E(f) == f = [S \in SUBSET R |->
                            IF {k \in R : rows[k].issuer \in S} \ S = {} THEN S
                            ELSE f[S \cup ({k \in R : rows[k].issuer \in S} \ S)]]
           F == CHOOSE f : E(f)
<1>1. DescendantsOf(i) = F[{i}] \ {i}
  BY DEF DescendantsOf
<1>2. \A S \in SUBSET R : /\ more[S] = {k \in R : rows[k].issuer \in S} \ S
                          /\ more[S] \in SUBSET R /\ more[S] \cap S = {}
  OBVIOUS
<1>3. ASSUME NEW f PROVE E(f) <=> Closes(f, R, more)
  BY <1>2 DEF Closes
<1>4. /\ \E f : Closes(f, R, more)
      /\ \A f : Closes(f, R, more) => \A S \in SUBSET R : IsClosure(f[S], R, more, S)
  <2>1. IsFiniteSet(R)
    BY FiniteTable DEF TableOK
  <2> HIDE DEF R, more
  <2>. QED
    BY <1>2, <2>1, Closures
<1>5. IsClosure(F[{i}], R, more, {i})
  <2>1. {i} \in SUBSET R
    OBVIOUS
  <2> HIDE DEF E, R, more
  <2>. QED
    BY <1>3, <1>4, <2>1
<1>. QED
  <2> HIDE DEF F, more
  <2>. QED
    BY <1>1, <1>5 DEF IsClosure

\* The rows above a row are those of its chain, if that comes to an end.
LEMMA ChainIsAll ==
    ASSUME TableOK(rows, serials), NEW i \in DOMAIN rows, NEW A, NEW more,
           more = [S \in SUBSET DOMAIN rows |-> {rows[j].issuer : j \in S} \ (S \cup {NoId})],
           IsClosure(A, DOMAIN rows, more, {i}),
           NEW s, s = Above(i, {}), rows[s[Len(s)]].issuer = NoId
    PROVE  /\ \A j \in A : \E n \in 1..Len(s) : j = s[n] /\ (n = Len(s) <=> rows[j].issuer = NoId)
           /\ \A n \in 1..Len(s) : s[n] \in A
<1> DEFINE R == DOMAIN rows
           L == Len(s)
           C == {s[n] : n \in 1..L}
<1>1. /\ s \in Seq(R) /\ L \in Nat \ {0} /\ s[1] = i
      /\ \A n \in 1..(L - 1) : rows[s[n]].issuer = s[n + 1]
  BY ChainFacts
<1>2. \A n \in 1..L : s[n] \in R
  BY <1>1, ElementOfSeq
<1>3. R \subseteq Id /\ NoId \notin R
  BY PkiAssumption DEF TableOK, Id, NoId
<1>4. \A S \in SUBSET R : \A x : x \in more[S] <=> (\E j \in S : x = rows[j].issuer) /\ x \notin S /\ x # NoId
  OBVIOUS
<1>5. \A n \in 1..L : n # L => n \in 1..(L - 1) /\ n + 1 \in 1..L
  BY <1>1
<1> HIDE DEF L
<1>6. \A n \in 1..L : n = L <=> rows[s[n]].issuer = NoId
  BY <1>1, <1>2, <1>3, <1>5 DEF L
<1>7. Closed(C, more)
  <2>1. ASSUME NEW S \in SUBSET C, NEW x \in more[S] PROVE x \in C
    <3>1. S \in SUBSET R
      BY <1>2
    <3>2. PICK j \in S : x = rows[j].issuer /\ x # NoId
      BY <1>4, <3>1
    <3>3. PICK n \in 1..L : j = s[n]
      BY <3>2
    <3>4. n # L
      BY <1>6, <3>2, <3>3
    <3>5. x = s[n + 1] /\ n + 1 \in 1..L
      BY <1>1, <1>5, <3>2, <3>3, <3>4
    <3>. QED
      BY <3>5
  <2>. QED
    BY <2>1 DEF Closed
<1>8. A \in SUBSET R /\ i \in A /\ more[A] = {} /\ A \subseteq C
  <2>1. C \in SUBSET R
    BY <1>2
  <2>2. i \in C
    BY <1>1
  <2>. QED
    BY <1>7, <2>1, <2>2 DEF IsClosure
<1>9. \A n \in 1..L : s[n] \in A
  <2> DEFINE D == 1..L
             m == [n \in D |-> n]
             G == {n \in D : s[n] \in A}
  <2>1. ASSUME NEW n \in D, \A k \in D : m[k] < m[n] => k \in G PROVE n \in G
    <3>1. CASE n = 1
      BY <1>1, <1>8, <3>1
    <3>2. CASE n # 1
      <4>1. n - 1 \in 1..(L - 1) /\ n - 1 \in D /\ n - 1 < n /\ (n - 1) + 1 = n
        BY <1>1, <3>2
      <4>2. s[n - 1] \in A
        BY <2>1, <4>1
      <4>3. rows[s[n - 1]].issuer = s[n]
        BY <1>1, <4>1
      <4>4. s[n] # NoId
        BY <1>2, <1>3
      <4>. QED
        BY <1>4, <1>8, <4>2, <4>3, <4>4
    <3>. QED
      BY <3>1, <3>2
  <2>2. m \in [D -> Nat]
    BY <1>1
  <2>3. \A n \in D : n \in G
    <3> HIDE DEF D, m, G
    <3>. QED
      BY <2>1, <2>2, ByMeasure
  <2>. QED
    BY <2>3
<1>10. ASSUME NEW j \in A PROVE \E n \in 1..L : j = s[n] /\ (n = L <=> rows[j].issuer = NoId)
  <2>1. PICK n \in 1..L : j = s[n]
    BY <1>8
  <2>. QED
    BY <1>6, <2>1
<1>. QED
  BY <1>9, <1>10 DEF L

LEMMA VerifiedSound == TableOK(rows, serials) => VerifiedMeansSound
<1> SUFFICES ASSUME TableOK(rows, serials), NEW i \in DOMAIN rows, VerifyCert(i)
             PROVE  LET up[S \in SUBSET DOMAIN rows] ==
                            LET more == {rows[j].issuer : j \in S} \ (S \cup {NoId})
                            IN  IF more = {} THEN S ELSE up[S \cup more]
                        above == up[{i}]
                    IN  /\ \A j \in above : ~rows[j].revoked
                        /\ \A j \in above : rows[j].issuer # NoId =>
                                Verifies(rows[rows[j].issuer].cert, rows[j].cert)
                        /\ \E j \in above : rows[j].issuer = NoId
  BY DEF VerifiedMeansSound
<1> DEFINE R == DOMAIN rows
           more == [S \in SUBSET R |-> {rows[j].issuer : j \in S} \ (S \cup {NoId})]
           E(f) == f = [S \in SUBSET R |->
                            IF {rows[j].issuer : j \in S} \ (S \cup {NoId}) = {} THEN S
                            ELSE f[S \cup ({rows[j].issuer : j \in S} \ (S \cup {NoId}))]]
           F == CHOOSE f : E(f)
           A == F[{i}]
           s == Above(i, {})
<1>1. SUFFICES /\ \A j \in A : ~rows[j].revoked
               /\ \A j \in A : rows[j].issuer # NoId => Verifies(rows[rows[j].issuer].cert, rows[j].cert)
               /\ \E j \in A : rows[j].issuer = NoId
  OBVIOUS
<1>2. ASSUME NEW S \in SUBSET R
      PROVE  /\ more[S] = {rows[j].issuer : j \in S} \ (S \cup {NoId})
             /\ more[S] \in SUBSET R /\ more[S] \cap S = {}
  <2>1. \A j \in S : rows[j].issuer \in R \cup {NoId}
    BY DEF TableOK
  <2>. QED
    BY <2>1
<1>3. ASSUME NEW f PROVE E(f) <=> Closes(f, R, more)
  BY <1>2 DEF Closes
<1>4. /\ \E f : Closes(f, R, more)
      /\ \A f : Closes(f, R, more) => \A S \in SUBSET R : IsClosure(f[S], R, more, S)
  <2>1. IsFiniteSet(R)
    BY FiniteTable DEF TableOK
  <2> HIDE DEF R, more
  <2>. QED
    BY <1>2, <2>1, Closures
<1>5. IsClosure(A, R, more, {i})
  <2>1. {i} \in SUBSET R
    OBVIOUS
  <2> HIDE DEF E, R, more
  <2>. QED
    BY <1>3, <1>4, <2>1
<1>6. more = [S \in SUBSET R |-> {rows[j].issuer : j \in S} \ (S \cup {NoId})]
  OBVIOUS
<1> HIDE DEF more, F, s
<1>7. /\ s \in Seq(R) /\ Len(s) \in Nat \ {0} /\ s[1] = i
      /\ \A n \in 1..(Len(s) - 1) : rows[s[n]].issuer = s[n + 1]
  BY ChainFacts DEF s
<1>8. \A n \in 1..Len(s) : s[n] \in R /\ s[n] # NoId
  BY <1>7, ElementOfSeq, PkiAssumption DEF TableOK, Id, NoId
<1>9. /\ rows[s[Len(s)]].issuer = NoId
      /\ \A n \in 1..(Len(s) - 1) : Verifies(rows[s[n + 1]].cert, rows[s[n]].cert)
      /\ \A n \in 1..Len(s) : ~rows[s[n]].revoked
  <2>1. \A n \in 1..Len(s) : ~rows[s[n]].revoked
    BY DEF VerifyCert, BuildChain, s
  <2>2. CASE rows[i].issuer = NoId
    <3>1. 1 \notin 1..(Len(s) - 1)
      <4> SUFFICES ASSUME 1 \in 1..(Len(s) - 1) PROVE FALSE
        OBVIOUS
      <4>1. rows[s[1]].issuer = s[2] /\ 2 \in 1..Len(s)
        BY <1>7
      <4>. QED
        BY <1>7, <1>8, <2>2, <4>1
    <3>2. Len(s) = 1
      <4>1. \A k \in Nat \ {0} : 1 \notin 1..(k - 1) => k = 1
        OBVIOUS
      <4>. QED
        BY <1>7, <3>1, <4>1
    <3>. QED
      BY <1>7, <2>1, <2>2, <3>2
  <2>3. CASE rows[i].issuer # NoId
    BY <2>1, <2>3 DEF VerifyCert, BuildChain, s
  <2>. QED
    BY <2>2, <2>3
<1>10. /\ \A j \in A : \E n \in 1..Len(s) : j = s[n] /\ (n = Len(s) <=> rows[j].issuer = NoId)
       /\ \A n \in 1..Len(s) : s[n] \in A
  <2> HIDE DEF A
  <2>. QED
    BY <1>5, <1>6, <1>9, ChainIsAll DEF s
<1> HIDE DEF A
<1>11. ASSUME NEW j \in A
       PROVE  ~rows[j].revoked /\ (rows[j].issuer # NoId => Verifies(rows[rows[j].issuer].cert, rows[j].cert))
  <2>1. PICK n \in 1..Len(s) : j = s[n] /\ (n = Len(s) <=> rows[j].issuer = NoId)
    BY <1>10
  <2>2. n # Len(s) => n \in 1..(Len(s) - 1)
    BY <1>7, <2>1
  <2>. QED
    BY <1>7, <1>9, <2>1, <2>2
<1>12. s[Len(s)] \in A /\ rows[s[Len(s)]].issuer = NoId
  BY <1>7, <1>9, <1>10
<1>. QED
  BY <1>11, <1>12

(***************************************************************************)
(* Tables.                                                                 *)
(***************************************************************************)

\* More certificates, guesses and stray keys excuse no less.
LEMMA Monotone ==
    ASSUME NEW n \in Nat, NEW n2 \in Nat, n <= n2, NEW guess, NEW guess2, guess \subseteq guess2,
           NEW stray, NEW stray2, stray \subseteq stray2
    PROVE  /\ \A table : TableOK(table, n) => TableOK(table, n2)
           /\ \A table : KeysOK(table, stray) => KeysOK(table, stray2)
           /\ \A table : LinksOK(table, guess, stray) => LinksOK(table, guess2, stray2)
           /\ \A f : FileOK(f, n, guess, stray) => FileOK(f, n2, guess2, stray2)
<1>1. \A c, key : Belongs(c, key, stray) => Belongs(c, key, stray2)
  BY DEF Belongs
<1>2. \A c, p : Linked(c, p, guess, stray) => Linked(c, p, guess2, stray2)
  BY DEF Linked
<1>3. \A c \in Certificate : c.serial <= n => c.serial <= n2
  <2>1. \A c \in Certificate : c.serial \in Nat
    BY PkiAssumption DEF Certificate
  <2>. QED
    BY <2>1
<1>4. ASSUME NEW table, TableOK(table, n) PROVE TableOK(table, n2)
  <2>1. \A i \in DOMAIN table : table[i].cert \in Certificate
    BY <1>4 DEF TableOK, Row
  <2>. QED
    BY <1>3, <1>4, <2>1 DEF TableOK
<1>5. ASSUME NEW table, KeysOK(table, stray) PROVE KeysOK(table, stray2)
  BY <1>1, <1>5 DEF KeysOK
<1>6. ASSUME NEW table, LinksOK(table, guess, stray) PROVE LinksOK(table, guess2, stray2)
  BY <1>2, <1>6 DEF LinksOK
<1>7. ASSUME NEW f, FileOK(f, n, guess, stray) PROVE FileOK(f, n2, guess2, stray2)
  <2>1. CASE f = NoFile
    BY <2>1 DEF FileOK
  <2>2. CASE /\ f.is = "pem" /\ f.certs \in Seq(Certificate) /\ f.certs # <<>>
             /\ \A k \in 1..Len(f.certs) : f.certs[k].serial <= n
    <3>1. \A k \in 1..Len(f.certs) : f.certs[k] \in Certificate
      BY <2>2, ElementOfSeq
    <3>. QED
      BY <1>3, <2>2, <3>1 DEF FileOK
  <2>3. CASE /\ f.is = "bundle" /\ IsFiniteSet(f.items)
             /\ \A it \in f.items : ItemOK(it, n, guess, stray)
             /\ \A a, b \in f.items : a.cert = b.cert => a = b
    <3>1. ASSUME NEW it, ItemOK(it, n, guess, stray) PROVE ItemOK(it, n2, guess2, stray2)
      <4>1. it.cert \in Certificate
        BY <3>1 DEF ItemOK, Item
      <4>. QED
        BY <1>1, <1>2, <1>3, <3>1, <4>1 DEF ItemOK
    <3>. QED
      BY <2>3, <3>1 DEF FileOK
  <2>. QED
    BY <1>7, <2>1, <2>2, <2>3 DEF FileOK
<1>. QED
  BY <1>4, <1>5, <1>6, <1>7

LEMMA Fresh ==
    ASSUME NEW table, DOMAIN table \subseteq Id, Cardinality(DOMAIN table) < MaxRows
    PROVE  FreshId(table) \in Id \ DOMAIN table
<1>1. Id \ DOMAIN table # {} /\ Id \ DOMAIN table \in SUBSET Nat
  <2>1. Id \ DOMAIN table # {}
    BY FiniteTable
  <2>2. Id \in SUBSET Nat
    BY PkiAssumption DEF Id
  <2>. QED
    BY <2>1, <2>2
<1>2. \E x \in Id \ DOMAIN table : \A y \in Id \ DOMAIN table : x <= y
  BY <1>1, LeastNatural
<1>. QED
  BY <1>2 DEF FreshId, Min

LEMMA NewRowFacts ==
    ASSUME NEW type \in {"ca", "leaf"}, NEW c \in Certificate, NEW key \in Pair \cup {NoKey}, NEW issuer \in Link
    PROVE  /\ NewRow(type, c, key, issuer) \in Row
           /\ NewRow(type, c, key, issuer).type = type /\ NewRow(type, c, key, issuer).cert = c
           /\ NewRow(type, c, key, issuer).key = key /\ NewRow(type, c, key, issuer).issuer = issuer
           /\ ~NewRow(type, c, key, issuer).revoked
  BY DEF NewRow, Row, Link

\* A row that can be added to a table.
Addable(table, n, row, n2) ==
    /\ n \in Nat /\ TableOK(table, n) /\ Cardinality(DOMAIN table) < MaxRows
    /\ n2 \in Nat /\ n <= n2 /\ row \in Row /\ row.issuer \in DOMAIN table \cup {NoId}
    /\ row.cert.serial <= n2 /\ ~HasCert(table, row.cert)

Added(table, row, n2, T, id) ==
    /\ id \in Id \ DOMAIN table /\ DOMAIN T = DOMAIN table \cup {id} /\ T[id] = row
    /\ \A i \in DOMAIN table : T[i] = table[i]
    /\ TableOK(T, n2) /\ Cardinality(DOMAIN T) = Cardinality(DOMAIN table) + 1

LEMMA AddFacts ==
    ASSUME NEW n, NEW table, NEW n2, NEW row, Addable(table, n, row, n2)
    PROVE  Added(table, row, n2, Add(table, row), FreshId(table))
<1> USE DEF Addable
<1> DEFINE id == FreshId(table)
           T == Add(table, row)
<1>1. id \in Id \ DOMAIN table
  BY Fresh DEF TableOK
<1>2. /\ DOMAIN T = DOMAIN table \cup {id} /\ T[id] = row
      /\ \A i \in DOMAIN table : T[i] = table[i]
  BY <1>1 DEF Add
<1> HIDE DEF id, T
<1>3. TableOK(table, n2)
  BY Monotone
<1>4. TableOK(T, n2)
  <2>1. DOMAIN T \subseteq Id
    BY <1>1, <1>2 DEF TableOK
  <2>2. \A i \in DOMAIN T : T[i] \in Row /\ T[i].issuer \in DOMAIN T \cup {NoId} /\ T[i].cert.serial <= n2
    BY <1>2, <1>3 DEF TableOK
  <2>3. \A i, j \in DOMAIN T : T[i].cert = T[j].cert => i = j
    BY <1>2, <1>3 DEF TableOK, HasCert
  <2>. QED
    BY <2>1, <2>2, <2>3 DEF TableOK
<1>5. Cardinality(DOMAIN T) = Cardinality(DOMAIN table) + 1
  <2>1. IsFiniteSet(DOMAIN table)
    BY FiniteTable DEF TableOK
  <2>. QED
    BY <1>1, <1>2, <2>1, FS_AddElement
<1>. QED
  BY <1>1, <1>2, <1>4, <1>5 DEF id, T, Added

LEMMA AddKeeps ==
    ASSUME NEW n \in Nat, NEW table, TableOK(table, n), NEW T, NEW id, id \notin DOMAIN table, 
           DOMAIN T = DOMAIN table \cup {id}, \A i \in DOMAIN table : T[i] = table[i],
           NEW guess, NEW stray, KeysOK(table, stray), LinksOK(table, guess, stray),
           Belongs(T[id].cert, T[id].key, stray), T[id].issuer \in DOMAIN table \cup {NoId},
           T[id].issuer # NoId => Linked(T[id].cert, table[T[id].issuer].cert, guess, stray)
    PROVE  KeysOK(T, stray) /\ LinksOK(T, guess, stray)
<1>1. KeysOK(T, stray)
  BY DEF KeysOK
<1>2. ASSUME NEW i \in DOMAIN T, T[i].issuer # NoId
      PROVE  Linked(T[i].cert, T[T[i].issuer].cert, guess, stray)
  <2>1. CASE i \in DOMAIN table
    <3>1. T[i] = table[i] /\ table[i].issuer \in DOMAIN table
      BY <1>2, <2>1 DEF TableOK
    <3>2. Linked(table[i].cert, table[table[i].issuer].cert, guess, stray)
      BY <1>2, <2>1, <3>1 DEF LinksOK
    <3>. QED
      BY <3>1, <3>2
  <2>2. CASE i = id
    <3>1. T[i].issuer \in DOMAIN table
      BY <1>2, <2>2
    <3>. QED
      BY <1>2, <2>2, <3>1
  <2>. QED
    BY <2>1, <2>2
<1>. QED
  BY <1>1, <1>2 DEF LinksOK

\* What a signature depends on.
LEMMA LinkedByName ==
    ASSUME NEW c, NEW p, NEW p2, p2.subject = p.subject, p2.pub = p.pub, NEW guess, NEW stray,
           Linked(c, p, guess, stray)
    PROVE  Linked(c, p2, guess, stray)
  BY DEF Linked, WrongLinks, Verifies

LEMMA LinkedBySignature ==
    ASSUME NEW c, NEW p, NEW key, c.issuer = p.subject, c.by = key, key # NoKey,
           NEW guess, NEW stray, Belongs(p, key, stray)
    PROVE  Linked(c, p, guess, stray)
  BY DEF Linked, WrongLinks, Verifies, Belongs

LEMMA LinkedOnce ==
    ASSUME NEW c, NEW p, NEW guess, NEW stray, WrongLinks(c, p) \subseteq guess
    PROVE  Linked(c, p, guess, stray)
  BY DEF Linked

\* Certificates are signed with new serial numbers.
LEMMA SignFacts ==
    ASSUME IInv, CountSerial, NEW subject \in DN, NEW pub \in Pair, NEW issuer \in DN, NEW key \in Pair
    PROVE  /\ Sign(subject, pub, issuer, key) \in Certificate
           /\ Sign(subject, pub, issuer, key).subject = subject /\ Sign(subject, pub, issuer, key).pub = pub
           /\ Sign(subject, pub, issuer, key).issuer = issuer /\ Sign(subject, pub, issuer, key).by = key
           /\ Sign(subject, pub, issuer, key).serial = serials'
           /\ serials' = serials + 1 /\ serials' \in 0..MaxSerial /\ serials \in Nat /\ serials' \in Nat
           /\ serials <= serials'
           /\ \A i \in DOMAIN rows : rows[i].cert # Sign(subject, pub, issuer, key)
<1> DEFINE c == Sign(subject, pub, issuer, key)
<1>1. /\ serials \in Nat /\ serials' = serials + 1 /\ serials' \in 1..MaxSerial /\ serials' \in 0..MaxSerial
      /\ serials <= serials' /\ serials' \in Nat
  BY PkiAssumption DEF IInv, CountSerial
<1>2. /\ c \in Certificate /\ c.subject = subject /\ c.pub = pub /\ c.issuer = issuer /\ c.by = key
      /\ c.serial = serials'
  BY <1>1 DEF Sign, Certificate
<1> HIDE DEF c
<1>3. \A i \in DOMAIN rows : rows[i].cert.serial <= serials /\ rows[i].cert.serial \in Nat
  BY PkiAssumption DEF IInv, TableOK, Row, Certificate
<1>4. \A i \in DOMAIN rows : rows[i].cert # c
  BY <1>1, <1>2, <1>3
<1>. QED
  BY <1>1, <1>2, <1>4 DEF c

(***************************************************************************)
(* Steps.                                                                  *)
(***************************************************************************)

LEMMA InitIInv == Init => IInv
<1> SUFFICES ASSUME Init PROVE IInv
  OBVIOUS
<1>1. DOMAIN rows = {}
  BY DEF Init
<1>2. files \in 0..MaxFiles /\ pairs \in 0..MaxPairs /\ serials \in 0..MaxSerial
  BY PkiAssumption DEF Init
<1>3. TableOK(rows, serials) /\ KeysOK(rows, strayed) /\ LinksOK(rows, guessed, strayed)
  BY <1>1 DEF TableOK, KeysOK, LinksOK
<1>4. FileOK(file, serials, guessed, strayed)
  BY DEF Init, FileOK
<1>. QED
  BY <1>2, <1>3, <1>4 DEF IInv

\* A new certificate in a new row.
LEMMA NewCertKeeps ==
    ASSUME IInv, HasRoom(1), CountPair, CountSerial, NEW type \in {"ca", "leaf"}, NEW subject \in DN,
           NEW issuer \in DN, NEW key \in Pair, NEW ca \in DOMAIN rows \cup {NoId},
           ca # NoId => issuer = rows[ca].cert.subject /\ key = rows[ca].key,
           rows' = Add(rows, NewRow(type, Sign(subject, pairs + 1, issuer, key), pairs + 1, ca)),
           UNCHANGED <<file, files, history>>
    PROVE  IInv'
<1> DEFINE c == Sign(subject, pairs + 1, issuer, key)
           row == NewRow(type, c, pairs + 1, ca)
<1>1. pairs + 1 \in Pair /\ pairs' \in 0..MaxPairs
  BY PkiAssumption DEF IInv, CountPair, Pair
<1>2. /\ c \in Certificate /\ c.subject = subject /\ c.pub = pairs + 1 /\ c.issuer = issuer /\ c.by = key
      /\ c.serial = serials' /\ serials' \in 0..MaxSerial /\ serials \in Nat /\ serials' \in Nat
      /\ serials <= serials' /\ \A i \in DOMAIN rows : rows[i].cert # c
  BY <1>1, SignFacts
<1> HIDE DEF c
<1>3. ca \in Link
  BY DEF IInv, TableOK, Link
<1>4. /\ row \in Row /\ row.cert = c /\ row.key = pairs + 1 /\ row.issuer = ca
  BY <1>1, <1>2, <1>3, NewRowFacts
<1>5. rows' = Add(rows, row)
  BY DEF c
<1> HIDE DEF row
<1>6. TableOK(rows, serials) /\ Cardinality(DOMAIN rows) < MaxRows
  <2>1. DOMAIN rows \subseteq Id
    BY DEF IInv, TableOK
  <2>2. Cardinality(DOMAIN rows) \in Nat /\ MaxRows \in Nat
    BY <2>1, FiniteTable
  <2>. QED
    BY <2>2 DEF HasRoom, IInv
<1>7. ~HasCert(rows, row.cert)
  BY <1>2, <1>4 DEF HasCert
<1>8. /\ FreshId(rows) \in Id \ DOMAIN rows /\ DOMAIN rows' = DOMAIN rows \cup {FreshId(rows)}
      /\ rows'[FreshId(rows)] = row /\ \A i \in DOMAIN rows : rows'[i] = rows[i]
      /\ TableOK(rows', serials')
  <2> DEFINE n == serials
             n2 == serials'
             T == rows'
  <2>1. /\ n \in Nat /\ n2 \in Nat /\ n <= n2 /\ row \in Row /\ row.issuer \in DOMAIN rows \cup {NoId}
        /\ row.cert.serial <= n2 /\ TableOK(rows, n) /\ Cardinality(DOMAIN rows) < MaxRows
        /\ ~HasCert(rows, row.cert) /\ T = Add(rows, row)
    BY <1>2, <1>4, <1>5, <1>6, <1>7
  <2> HIDE DEF n, n2, T
  <2>2. /\ FreshId(rows) \in Id \ DOMAIN rows /\ DOMAIN T = DOMAIN rows \cup {FreshId(rows)}
        /\ T[FreshId(rows)] = row /\ \A i \in DOMAIN rows : T[i] = rows[i]
        /\ TableOK(T, n2)
    <3>1. Addable(rows, n, row, n2)
      BY <2>1 DEF Addable
    <3>. QED
      <4>1. Added(rows, row, n2, T, FreshId(rows))
        BY <2>1, <3>1, AddFacts
      <4>. QED
        BY <4>1 DEF Added
  <2>. QED
    BY <2>2 DEF n2, T
<1>9. KeysOK(rows, strayed) /\ LinksOK(rows, guessed, strayed) /\ strayed' = strayed /\ guessed' = guessed
  BY DEF IInv, history
<1>10. Belongs(c, pairs + 1, strayed)
  BY <1>2 DEF Belongs
<1>11. ca # NoId => Linked(c, rows[ca].cert, guessed, strayed)
  <2> SUFFICES ASSUME ca # NoId PROVE Linked(c, rows[ca].cert, guessed, strayed)
    OBVIOUS
  <2>1. c.issuer = rows[ca].cert.subject /\ c.by = key /\ key # NoKey /\ Belongs(rows[ca].cert, key, strayed)
    BY <1>2, <1>9, PkiAssumption DEF KeysOK, Pair, NoKey
  <2>. QED
    BY <2>1, LinkedBySignature
<1>12. KeysOK(rows', strayed') /\ LinksOK(rows', guessed', strayed')
  <2>1. \A i \in DOMAIN rows : rows[i].issuer # NoId => rows[i].issuer \in DOMAIN rows
    BY <1>6 DEF TableOK
  <2>2. /\ Belongs(rows'[FreshId(rows)].cert, rows'[FreshId(rows)].key, strayed)
        /\ rows'[FreshId(rows)].issuer \in DOMAIN rows \cup {NoId}
        /\ rows'[FreshId(rows)].issuer # NoId =>
               Linked(rows'[FreshId(rows)].cert, rows[rows'[FreshId(rows)].issuer].cert, guessed, strayed)
    BY <1>4, <1>8, <1>10, <1>11
  <2>3. KeysOK(rows', strayed) /\ LinksOK(rows', guessed, strayed)
    BY <1>2, <1>6, <1>8, <1>9, <2>2, AddKeeps
  <2>. QED
    BY <1>9, <2>3
<1>13. FileOK(file', serials', guessed', strayed') /\ files' \in 0..MaxFiles
  <2>1. file' = file /\ files' = files /\ FileOK(file, serials, guessed, strayed) /\ files \in 0..MaxFiles
    BY DEF IInv
  <2>2. FileOK(file, serials', guessed, strayed)
    BY <1>2, <2>1, Monotone
  <2>. QED
    BY <1>9, <2>1, <2>2
<1>. QED
  BY <1>1, <1>2, <1>8, <1>12, <1>13 DEF IInv

LEMMA CreateCaKeeps == ASSUME IInv, NEW name \in DN, CreateCa(name) PROVE IInv'
<1>1. pairs + 1 \in Pair
  BY PkiAssumption DEF IInv, CreateCa, CountPair, Pair
<1>2. NoId \in DOMAIN rows \cup {NoId} /\ "ca" \in {"ca", "leaf"}
  OBVIOUS
<1>3. /\ HasRoom(1) /\ CountPair /\ CountSerial /\ UNCHANGED <<file, files, history>>
      /\ rows' = Add(rows, NewRow("ca", Sign(name, pairs + 1, name, pairs + 1), pairs + 1, NoId))
  BY DEF CreateCa, SelfSigned
<1>. QED
  BY <1>1, <1>2, <1>3, NewCertKeeps

LEMMA IssuerFacts ==
    ASSUME IInv, NEW ca \in DOMAIN rows
    PROVE  /\ rows[ca] \in Row /\ rows[ca].cert \in Certificate /\ rows[ca].cert.subject \in DN
           /\ rows[ca].cert.issuer \in DN /\ rows[ca].cert.pub \in Pair /\ rows[ca].key \in Pair \cup {NoKey}
           /\ rows[ca].issuer \in DOMAIN rows \cup {NoId} /\ ca \in Id /\ ca # NoId
<1>1. rows[ca] \in Row /\ rows[ca].issuer \in DOMAIN rows \cup {NoId} /\ ca \in Id
  BY DEF IInv, TableOK
<1>. QED
  BY <1>1, PkiAssumption DEF Row, Certificate, Id, NoId

LEMMA IssueKeeps ==
    ASSUME IInv, NEW ca \in DOMAIN rows, NEW name \in DN, IssueIntermediate(ca, name) \/ IssueCert(ca, name)
    PROVE  IInv'
<1>1. /\ rows[ca].cert.subject \in DN /\ rows[ca].key \in Pair /\ ca \in DOMAIN rows \cup {NoId}
      /\ HasRoom(1) /\ CountPair /\ CountSerial /\ UNCHANGED <<file, files, history>>
  BY IssuerFacts DEF IssueIntermediate, IssueCert, CanIssue
<1>2. PICK type \in {"ca", "leaf"} :
          rows' = Add(rows, NewRow(type, Sign(name, pairs + 1, rows[ca].cert.subject, rows[ca].key), pairs + 1, ca))
  BY DEF IssueIntermediate, IssueCert, IntermediateCert, LeafCert
<1>. QED
  BY <1>1, <1>2, NewCertKeeps

\* Steps that only sign again.
LEMMA ReplaceKeeps ==
    ASSUME IInv, NEW i \in DOMAIN rows, NEW ca \in DOMAIN rows, NEW issuer \in {ca, NoId},
           ReplaceCert(i, ca, issuer)
    PROVE  IInv'
<1> DEFINE c == Resigned(rows[i].cert, ca)
<1>1. rows[ca].key \in Pair /\ CountSerial /\ UNCHANGED <<file, files, pairs, history>>
  BY IssuerFacts DEF ReplaceCert, CanResign
<1>2. /\ c \in Certificate /\ c.subject = rows[i].cert.subject /\ c.pub = rows[i].cert.pub
      /\ c.issuer = rows[ca].cert.subject /\ c.by = rows[ca].key
      /\ c.serial = serials' /\ serials' \in 0..MaxSerial /\ serials \in Nat /\ serials' \in Nat
      /\ serials <= serials' /\ \A j \in DOMAIN rows : rows[j].cert # c
  <2>1. rows[i].cert.subject \in DN /\ rows[i].cert.pub \in Pair /\ rows[ca].cert.subject \in DN
    BY IssuerFacts
  <2>. QED
    BY <1>1, <2>1, SignFacts DEF Resigned
<1>3. /\ DOMAIN rows' = DOMAIN rows
      /\ \A j \in DOMAIN rows : j # i => rows'[j] = rows[j]
      /\ rows'[i] = [rows[i] EXCEPT !.cert = c, !.issuer = issuer, !.revoked = FALSE]
  BY DEF ReplaceCert
<1> HIDE DEF c
<1>4. /\ rows'[i] \in Row /\ rows'[i].cert = c /\ rows'[i].issuer = issuer /\ rows'[i].key = rows[i].key
  <2>1. rows[i] \in Row /\ issuer \in Id \cup {NoId}
    BY IssuerFacts
  <2>. QED
    BY <1>2, <1>3, <2>1 DEF Row
<1>5. TableOK(rows, serials) /\ KeysOK(rows, strayed) /\ LinksOK(rows, guessed, strayed)
  BY DEF IInv
<1>6. TableOK(rows, serials')
  BY <1>2, <1>5, Monotone
<1>7. TableOK(rows', serials')
  <2>1. ASSUME NEW j \in DOMAIN rows
        PROVE  rows'[j] \in Row /\ rows'[j].issuer \in DOMAIN rows \cup {NoId} /\ rows'[j].cert.serial <= serials'
    <3>1. CASE j = i
      BY <1>2, <1>4, <3>1
    <3>2. CASE j # i
      BY <1>3, <1>6, <3>2 DEF TableOK
    <3>. QED
      BY <3>1, <3>2
  <2>2. ASSUME NEW j \in DOMAIN rows, NEW k \in DOMAIN rows, rows'[j].cert = rows'[k].cert PROVE j = k
    <3>1. CASE j = i /\ k # i
      BY <1>2, <1>3, <1>4, <2>2, <3>1
    <3>2. CASE j # i /\ k = i
      BY <1>2, <1>3, <1>4, <2>2, <3>2
    <3>3. CASE j # i /\ k # i
      <4>1. rows[j].cert = rows[k].cert
        BY <1>3, <2>2, <3>3
      <4>. QED
        BY <1>6, <4>1 DEF TableOK
    <3>. QED
      BY <3>1, <3>2, <3>3
  <2>. QED
    BY <1>3, <1>6, <2>1, <2>2 DEF TableOK
<1>8. \A j \in DOMAIN rows : /\ rows'[j].cert.subject = rows[j].cert.subject
                             /\ rows'[j].cert.pub = rows[j].cert.pub /\ rows'[j].key = rows[j].key
  BY <1>2, <1>3, <1>4
<1>9. KeysOK(rows', strayed)
  BY <1>3, <1>5, <1>8 DEF KeysOK, Belongs
<1>10. LinksOK(rows', guessed, strayed)
  <2>1. ASSUME NEW j \in DOMAIN rows, rows'[j].issuer # NoId
        PROVE  Linked(rows'[j].cert, rows'[rows'[j].issuer].cert, guessed, strayed)
    <3>1. CASE j # i
      <4>1. rows'[j] = rows[j] /\ rows[j].issuer \in DOMAIN rows
        BY <1>3, <1>5, <2>1, <3>1 DEF TableOK
      <4>2. Linked(rows[j].cert, rows[rows[j].issuer].cert, guessed, strayed)
        BY <1>5, <2>1, <4>1 DEF LinksOK
      <4>. QED
        BY <1>8, <4>1, <4>2, LinkedByName
    <3>2. CASE j = i
      <4>1. rows'[j].cert = c /\ rows'[j].issuer = ca
        BY <1>4, <2>1, <3>2
      <4>2. Belongs(rows[ca].cert, rows[ca].key, strayed) /\ rows[ca].key # NoKey
        BY <1>1, <1>5, PkiAssumption DEF KeysOK, Pair, NoKey
      <4>3. Linked(c, rows[ca].cert, guessed, strayed)
        BY <1>2, <4>2, LinkedBySignature
      <4>. QED
        BY <1>8, <4>1, <4>3, LinkedByName
    <3>. QED
      BY <3>1, <3>2
  <2>. QED
    BY <1>3, <2>1 DEF LinksOK
<1>11. /\ file' = file /\ files' = files /\ pairs' = pairs /\ guessed' = guessed /\ strayed' = strayed
       /\ FileOK(file, serials', guessed, strayed) /\ files \in 0..MaxFiles /\ pairs \in 0..MaxPairs
  BY <1>1, <1>2, Monotone DEF IInv, history
<1>. QED
  BY <1>2, <1>7, <1>9, <1>10, <1>11 DEF IInv

LEMMA SignAgainKeeps ==
    ASSUME IInv, NEW i \in DOMAIN rows,
           RenewRoot(i) \/ RenewIssued(i) \/ \E ca \in Cas : Resign(i, ca)
    PROVE  IInv'
<1>1. CASE RenewRoot(i)
  BY <1>1, ReplaceKeeps DEF RenewRoot
<1>2. CASE RenewIssued(i)
  <2>1. rows[i].issuer \in DOMAIN rows
    BY <1>2, IssuerFacts DEF RenewIssued
  <2>. QED
    BY <1>2, <2>1, ReplaceKeeps DEF RenewIssued
<1>3. CASE \E ca \in Cas : Resign(i, ca)
  BY <1>3, ReplaceKeeps DEF Resign, Cas
<1>. QED
  BY <1>1, <1>2, <1>3

\* Steps that leave the file and the counters alone.
LEMMA StepKeeps ==
    ASSUME IInv, UNCHANGED <<file, files, pairs, serials>>,
           guessed \subseteq guessed', strayed \subseteq strayed',
           TableOK(rows', serials), KeysOK(rows', strayed'), LinksOK(rows', guessed', strayed')
    PROVE  IInv'
<1>1. serials \in Nat /\ serials <= serials
  BY PkiAssumption DEF IInv
<1>2. FileOK(file, serials, guessed, strayed)
  BY DEF IInv
<1>3. FileOK(file, serials, guessed', strayed')
  BY <1>1, <1>2, Monotone
<1>. QED
  BY <1>3 DEF IInv

\* Rows that keep their certificates.
SameRows(table, T, guess, stray) ==
    /\ DOMAIN T = DOMAIN table
    /\ \A i \in DOMAIN table :
           /\ T[i] \in Row /\ T[i].cert = table[i].cert
           /\ T[i].key = table[i].key \/ Belongs(table[i].cert, T[i].key, stray)
           /\ \/ T[i].issuer \in {table[i].issuer, NoId}
              \/ T[i].issuer \in DOMAIN table /\ Linked(table[i].cert, table[T[i].issuer].cert, guess, stray)

LEMMA SameRowsKeep ==
    ASSUME NEW n \in Nat, NEW table, TableOK(table, n), NEW guess, NEW guess2, guess \subseteq guess2, NEW stray,
           KeysOK(table, stray), LinksOK(table, guess, stray), NEW T, SameRows(table, T, guess2, stray)
    PROVE  TableOK(T, n) /\ KeysOK(T, stray) /\ LinksOK(T, guess2, stray)
<1>1. ASSUME NEW i \in DOMAIN table
      PROVE  /\ T[i] \in Row /\ T[i].cert = table[i].cert /\ T[i].issuer \in DOMAIN table \cup {NoId}
             /\ table[i].cert.serial <= n
  BY DEF SameRows, TableOK
<1>2. DOMAIN T = DOMAIN table
  BY DEF SameRows
<1>3. TableOK(T, n)
  <2>1. \A i, j \in DOMAIN T : T[i].cert = T[j].cert => i = j
    BY <1>1, <1>2 DEF TableOK
  <2>2. DOMAIN T \subseteq Id
    BY <1>2 DEF TableOK
  <2>3. \A i \in DOMAIN T : T[i] \in Row /\ T[i].issuer \in DOMAIN T \cup {NoId} /\ T[i].cert.serial <= n
    BY <1>1, <1>2
  <2>. QED
    BY <2>1, <2>2, <2>3 DEF TableOK
<1>4. KeysOK(T, stray)
  <2>1. ASSUME NEW i \in DOMAIN table PROVE Belongs(T[i].cert, T[i].key, stray)
    <3>1. Belongs(table[i].cert, table[i].key, stray)
      BY DEF KeysOK
    <3>2. T[i].key = table[i].key \/ Belongs(table[i].cert, T[i].key, stray)
      BY DEF SameRows
    <3>. QED
      BY <1>1, <3>1, <3>2
  <2>. QED
    BY <1>2, <2>1 DEF KeysOK
<1>5. ASSUME NEW i \in DOMAIN table, T[i].issuer # NoId
      PROVE  Linked(T[i].cert, T[T[i].issuer].cert, guess2, stray)
  <2>1. T[i].cert = table[i].cert /\ T[T[i].issuer].cert = table[T[i].issuer].cert
    BY <1>1, <1>5
  <2>2. CASE T[i].issuer = table[i].issuer
    <3>1. Linked(table[i].cert, table[T[i].issuer].cert, guess, stray)
      BY <1>5, <2>2 DEF LinksOK
    <3>. QED
      BY <2>1, <3>1 DEF Linked
  <2>3. CASE Linked(table[i].cert, table[T[i].issuer].cert, guess2, stray)
    BY <2>1, <2>3
  <2>. QED
    BY <1>5, <2>2, <2>3 DEF SameRows
<1>6. LinksOK(T, guess2, stray)
  BY <1>2, <1>5 DEF LinksOK
<1>. QED
  BY <1>3, <1>4, <1>6

LEMMA LinksKeep ==
    ASSUME IInv, UNCHANGED <<file, files, pairs, serials, strayed>>, guessed \subseteq guessed',
           SameRows(rows, rows', guessed', strayed)
    PROVE  IInv'
<1> DEFINE n == serials
           T == rows'
           guess2 == guessed'
<1>1. /\ TableOK(rows, n) /\ KeysOK(rows, strayed) /\ LinksOK(rows, guessed, strayed)
      /\ guessed \subseteq guess2 /\ SameRows(rows, T, guess2, strayed) /\ n \in Nat
  BY PkiAssumption DEF IInv
<1> HIDE DEF n, T, guess2
<1>2. TableOK(T, n) /\ KeysOK(T, strayed) /\ LinksOK(T, guess2, strayed)
  BY <1>1, SameRowsKeep
<1>3. TableOK(rows', serials) /\ KeysOK(rows', strayed') /\ LinksOK(rows', guessed', strayed')
  BY <1>2 DEF n, T, guess2
<1>. QED
  BY <1>3, StepKeeps

LEMMA AttachKeeps ==
    ASSUME IInv, NEW i \in DOMAIN rows, NEW ca \in Cas, Attach(i, ca) PROVE IInv'
<1>1. /\ UNCHANGED <<file, files, pairs, serials, strayed>>
      /\ guessed' = guessed \cup WrongLinks(rows[i].cert, rows[ca].cert)
      /\ ca \in DOMAIN rows /\ rows' = [rows EXCEPT ![i].issuer = ca]
  BY DEF Attach, Cas
<1>2. Linked(rows[i].cert, rows[ca].cert, guessed', strayed)
  BY <1>1, LinkedOnce
<1>3. SameRows(rows, rows', guessed', strayed)
  <2>1. ASSUME NEW j \in DOMAIN rows
        PROVE  /\ rows'[j] \in Row /\ rows'[j].cert = rows[j].cert /\ rows'[j].key = rows[j].key
               /\ \/ rows'[j].issuer \in {rows[j].issuer, NoId}
                  \/ rows'[j].issuer \in DOMAIN rows /\ Linked(rows[j].cert, rows[rows'[j].issuer].cert, guessed', strayed)
    <3>1. rows[j] \in Row /\ rows[ca] \in Row /\ ca \in Id
      BY <1>1, IssuerFacts
    <3>2. CASE j = i
      <4>1. rows'[j] = [rows[j] EXCEPT !.issuer = ca]
        BY <1>1, <3>2
      <4>2. rows'[j] \in Row /\ rows'[j].cert = rows[j].cert /\ rows'[j].key = rows[j].key /\ rows'[j].issuer = ca
        BY <3>1, <4>1 DEF Row
      <4>. QED
        BY <1>1, <1>2, <3>2, <4>2
    <3>3. CASE j # i
      <4>1. rows'[j] = rows[j]
        BY <1>1, <3>3
      <4>. QED
        BY <3>1, <4>1
    <3>. QED
      BY <3>2, <3>3
  <2>2. DOMAIN rows' = DOMAIN rows
    BY <1>1
  <2>. QED
    BY <2>1, <2>2 DEF SameRows
<1>. QED
  BY <1>1, <1>3, LinksKeep

LEMMA ToggleKeeps ==
    ASSUME IInv, NEW i \in DOMAIN rows, ToggleRevoked(i) PROVE IInv'
<1>1. /\ UNCHANGED <<file, files, pairs, serials, strayed>> /\ guessed' = guessed
      /\ rows' = [rows EXCEPT ![i].revoked = ~@]
  BY DEF ToggleRevoked, history
<1>2. SameRows(rows, rows', guessed', strayed)
  <2>1. ASSUME NEW j \in DOMAIN rows
        PROVE  /\ rows'[j] \in Row /\ rows'[j].cert = rows[j].cert /\ rows'[j].key = rows[j].key
               /\ rows'[j].issuer = rows[j].issuer
    <3>1. rows[j] \in Row
      BY IssuerFacts
    <3> DEFINE b == ~rows[j].revoked
    <3>2. b \in BOOLEAN
      OBVIOUS
    <3>3. rows'[j] = IF j = i THEN [rows[j] EXCEPT !.revoked = b] ELSE rows[j]
      BY <1>1
    <3> HIDE DEF b
    <3>. QED
      BY <3>1, <3>2, <3>3 DEF Row
  <2>2. DOMAIN rows' = DOMAIN rows
    BY <1>1
  <2>. QED
    BY <2>1, <2>2 DEF SameRows
<1>. QED
  BY <1>1, <1>2, LinksKeep

LEMMA DeleteKeeps ==
    ASSUME IInv, NEW i \in DOMAIN rows, Delete(i) PROVE IInv'
<1>1. /\ UNCHANGED <<file, files, pairs, serials>> /\ guessed' = guessed /\ strayed' = strayed
  BY DEF Delete, history
<1>2. TableOK(rows, serials) /\ KeysOK(rows, strayed) /\ LinksOK(rows, guessed, strayed)
  BY DEF IInv
<1>3. DOMAIN rows' = DOMAIN rows \ {i}
  BY DEF Delete
<1>4. ASSUME NEW j \in DOMAIN rows \ {i}
      PROVE  /\ rows'[j] \in Row /\ rows'[j].cert = rows[j].cert /\ rows'[j].key = rows[j].key
             /\ rows'[j].issuer = IF rows[j].issuer = i THEN NoId ELSE rows[j].issuer
  <2>1. rows'[j] = IF rows[j].issuer = i THEN [rows[j] EXCEPT !.issuer = NoId] ELSE rows[j]
    BY DEF Delete
  <2>2. rows[j] \in Row
    BY IssuerFacts
  <2>. QED
    BY <2>1, <2>2 DEF Row
<1>5. TableOK(rows', serials)
  <2>1. ASSUME NEW j \in DOMAIN rows'
        PROVE  rows'[j] \in Row /\ rows'[j].issuer \in DOMAIN rows' \cup {NoId} /\ rows'[j].cert.serial <= serials
    BY <1>2, <1>3, <1>4 DEF TableOK
  <2>2. \A j, k \in DOMAIN rows' : rows'[j].cert = rows'[k].cert => j = k
    BY <1>2, <1>3, <1>4 DEF TableOK
  <2>. QED
    BY <1>2, <1>3, <2>1, <2>2 DEF TableOK
<1>6. KeysOK(rows', strayed)
  BY <1>2, <1>3, <1>4 DEF KeysOK
<1>7. LinksOK(rows', guessed, strayed)
  <2>1. ASSUME NEW j \in DOMAIN rows', rows'[j].issuer # NoId
        PROVE  Linked(rows'[j].cert, rows'[rows'[j].issuer].cert, guessed, strayed)
    <3>1. /\ rows'[j].issuer = rows[j].issuer /\ rows[j].issuer \in DOMAIN rows \ {i} /\ rows[j].issuer # NoId
          /\ j \in DOMAIN rows \ {i}
      BY <1>2, <1>3, <1>4, <2>1 DEF TableOK
    <3>2. Linked(rows[j].cert, rows[rows[j].issuer].cert, guessed, strayed)
      BY <1>2, <3>1 DEF LinksOK
    <3>. QED
      BY <1>4, <3>1, <3>2
  <2>. QED
    BY <2>1 DEF LinksOK
<1>. QED
  BY <1>1, <1>5, <1>6, <1>7, StepKeeps

LEMMA EmptyKeeps == ASSUME IInv, OpenEmptyContext PROVE IInv'
<1>1. UNCHANGED <<file, files, pairs, serials>> /\ guessed' = guessed /\ strayed' = strayed /\ DOMAIN rows' = {}
  BY DEF OpenEmptyContext, history
<1>2. TableOK(rows', serials) /\ KeysOK(rows', strayed) /\ LinksOK(rows', guessed, strayed)
  BY <1>1 DEF TableOK, KeysOK, LinksOK
<1>. QED
  BY <1>1, <1>2, StepKeeps

\* What a fix chooses signed the certificate.
LEMMA CandidateFacts ==
    ASSUME NEW i \in DOMAIN rows, NEW ca \in FindCandidateIssuer(i)
    PROVE  /\ ca \in Cas /\ ca \in DOMAIN rows /\ ca # i /\ WrongLinks(rows[i].cert, rows[ca].cert) = {}
           /\ Verifies(rows[ca].cert, rows[i].cert) /\ rows[ca].cert.subject = rows[i].cert.issuer
  BY DEF FindCandidateIssuer, Cas, WrongLinks

LEMMA FixKeeps ==
    ASSUME IInv, NEW S, FixIssuers(S) PROVE IInv'
<1>1. /\ UNCHANGED <<file, files, pairs, serials, strayed>> /\ guessed' = guessed /\ S \subseteq DOMAIN rows
  BY DEF FixIssuers, Fixable, history
<1>2. PICK to \in [S -> Cas] :
          /\ \A i \in S : to[i] \in FindCandidateIssuer(i)
          /\ rows' = [i \in DOMAIN rows |-> IF i \in S THEN [rows[i] EXCEPT !.issuer = to[i]] ELSE rows[i]]
  BY DEF FixIssuers
<1>3. SameRows(rows, rows', guessed', strayed)
  <2>1. ASSUME NEW j \in DOMAIN rows
        PROVE  /\ rows'[j] \in Row /\ rows'[j].cert = rows[j].cert /\ rows'[j].key = rows[j].key
               /\ \/ rows'[j].issuer \in {rows[j].issuer, NoId}
                  \/ rows'[j].issuer \in DOMAIN rows /\ Linked(rows[j].cert, rows[rows'[j].issuer].cert, guessed', strayed)
    <3>1. rows[j] \in Row
      BY IssuerFacts
    <3>2. CASE j \in S
      <4>1. rows'[j] = [rows[j] EXCEPT !.issuer = to[j]]
        BY <1>2, <3>2
      <4>2. to[j] \in DOMAIN rows /\ WrongLinks(rows[j].cert, rows[to[j]].cert) = {}
        BY <1>2, <3>2, CandidateFacts
      <4>3. to[j] \in Id
        BY <4>2, IssuerFacts
      <4>4. rows'[j] \in Row /\ rows'[j].cert = rows[j].cert /\ rows'[j].key = rows[j].key /\ rows'[j].issuer = to[j]
        BY <3>1, <4>1, <4>3 DEF Row
      <4>5. Linked(rows[j].cert, rows[to[j]].cert, guessed', strayed)
        BY <4>2, LinkedOnce
      <4>. QED
        BY <4>2, <4>4, <4>5
    <3>3. CASE j \notin S
      <4>1. rows'[j] = rows[j]
        BY <1>2, <3>3
      <4>. QED
        BY <3>1, <4>1
    <3>. QED
      BY <3>2, <3>3
  <2>2. DOMAIN rows' = DOMAIN rows
    BY <1>2
  <2>. QED
    BY <2>1, <2>2 DEF SameRows
<1>. QED
  BY <1>1, <1>3, LinksKeep

\* Steps that only write a file.
LEMMA FileKeeps ==
    ASSUME IInv, CountFile, UNCHANGED <<rows, pairs, serials, history>>,
           FileOK(file', serials, guessed, strayed)
    PROVE  IInv'
<1>1. files' \in 0..MaxFiles
  BY PkiAssumption DEF IInv, CountFile
<1>2. rows' = rows /\ pairs' = pairs /\ serials' = serials /\ guessed' = guessed /\ strayed' = strayed
  BY DEF history
<1>. QED
  BY <1>1, <1>2 DEF IInv

LEMMA ExportChainKeeps ==
    ASSUME IInv, NEW i \in DOMAIN rows, ExportChain(i) PROVE IInv'
<1> DEFINE s == BuildChain(i)
           certs == [n \in DOMAIN s |-> rows[s[n]].cert]
           L == Len(s)
<1>1. s \in Seq(DOMAIN rows) /\ L \in Nat \ {0}
  <2>1. TableOK(rows, serials) /\ {} \in SUBSET DOMAIN rows
    BY DEF IInv
  <2>. QED
    BY <2>1, ChainFacts DEF BuildChain
<1>2. DOMAIN s = 1..L /\ \A n \in 1..L : s[n] \in DOMAIN rows
  BY <1>1, ElementOfSeq, LenProperties
<1>3. file' = [is |-> "pem", certs |-> certs] /\ CountFile /\ UNCHANGED <<rows, pairs, serials, history>>
  BY DEF ExportChain
<1>4. ASSUME NEW n \in 1..L PROVE certs[n] \in Certificate /\ certs[n].serial <= serials
  <2>1. s[n] \in DOMAIN rows /\ certs[n] = rows[s[n]].cert
    BY <1>2
  <2>. QED
    BY <2>1, IssuerFacts DEF IInv, TableOK
<1>5. certs \in [1..L -> Certificate]
  BY <1>2, <1>4
<1> HIDE DEF s, certs, L
<1>6. certs \in Seq(Certificate) /\ Len(certs) = L /\ certs # <<>>
  BY <1>1, <1>5, EmptySeq, SeqDef, LenProperties
<1>7. FileOK(file', serials, guessed, strayed)
  BY <1>3, <1>4, <1>6 DEF FileOK
<1>. QED
  BY <1>3, <1>7, FileKeeps

\* What is exported of a row is so in its context, with or without its key and its issuer.
LEMMA ItemFacts ==
    ASSUME IInv, NEW i \in DOMAIN rows, NEW key \in {NoKey, rows[i].key},
           NEW issuer \in {NoCert, CertOf(rows[i].issuer)}
    PROVE  /\ ItemOf(i, key, issuer).cert = rows[i].cert
           /\ ItemOK(ItemOf(i, key, issuer), serials, guessed, strayed)
<1> DEFINE it == ItemOf(i, key, issuer)
<1>1. it.cert = rows[i].cert /\ it.type = rows[i].type /\ it.key = key /\ it.issuer = issuer
  BY DEF ItemOf
<1>2. rows[i] \in Row /\ rows[i].cert \in Certificate /\ rows[i].issuer \in DOMAIN rows \cup {NoId}
  BY IssuerFacts
<1>3. issuer # NoCert => rows[i].issuer # NoId /\ rows[i].issuer \in DOMAIN rows /\ issuer = rows[rows[i].issuer].cert
  BY <1>2 DEF CertOf
<1>4. issuer \in Certificate \cup {NoCert}
  BY <1>3, IssuerFacts
<1>5. it \in Item
  BY <1>2, <1>4 DEF ItemOf, Item, Row
<1>6. it.cert.serial <= serials /\ Belongs(it.cert, it.key, strayed)
  <2>1. rows[i].cert.serial <= serials /\ Belongs(rows[i].cert, rows[i].key, strayed)
    BY DEF IInv, TableOK, KeysOK
  <2>. QED
    BY <1>1, <2>1 DEF Belongs
<1>7. it.issuer # NoCert => Linked(it.cert, it.issuer, guessed, strayed)
  BY <1>1, <1>3 DEF IInv, LinksOK
<1>. QED
  BY <1>1, <1>5, <1>6, <1>7 DEF ItemOK

\* The items are those of the rows in S.
Exports(S, item, items) ==
    /\ S \in SUBSET DOMAIN rows
    /\ \A k \in S : /\ item[k] \in items /\ item[k].cert = rows[k].cert
                    /\ ItemOK(item[k], serials, guessed, strayed)
    /\ \A it \in items : \E k \in S : it = item[k]

LEMMA BundleKeeps ==
    ASSUME IInv, CountFile, UNCHANGED <<rows, pairs, serials, history>>,
           NEW S, NEW item, NEW items, Exports(S, item, items), file' = [is |-> "bundle", items |-> items]
    PROVE  IInv'
<1> USE DEF Exports
<1>1. IsFiniteSet(items)
  <2>1. IsFiniteSet(S)
    <3>1. IsFiniteSet(DOMAIN rows)
      BY FiniteTable DEF IInv, TableOK
    <3>. QED
      BY <3>1, FS_Subset
  <2>2. [k \in S |-> item[k]] \in Surjection(S, items)
    BY DEF Surjection
  <2>. QED
    BY <2>1, <2>2, FS_Surjection
<1>2. \A it \in items : ItemOK(it, serials, guessed, strayed)
  OBVIOUS
<1>3. ASSUME NEW a \in items, NEW b \in items, a.cert = b.cert PROVE a = b
  <2>1. PICK k \in S, l \in S : a = item[k] /\ b = item[l]
    OBVIOUS
  <2>2. rows[k].cert = rows[l].cert
    BY <1>3, <2>1
  <2>3. k = l
    BY <2>2 DEF IInv, TableOK
  <2>. QED
    BY <2>1, <2>3
<1>4. FileOK(file', serials, guessed, strayed)
  <2>1. file'.is = "bundle" /\ file'.items = items
    OBVIOUS
  <2>. QED
    BY <1>1, <1>2, <1>3, <2>1 DEF FileOK
<1>. QED
  BY <1>4, FileKeeps

LEMMA ExportCertKeeps ==
    ASSUME IInv, NEW i \in DOMAIN rows, NEW includeParents \in BOOLEAN, ExportCert(i, includeParents)
    PROVE  IInv'
<1> DEFINE up == ParentsOf(i)
           P == IF includeParents THEN {up[n] : n \in DOMAIN up} ELSE {}
           S == {i} \cup P
           own == ItemOf(i, rows[i].key, CertOf(rows[i].issuer))
           item == [k \in S |-> IF k = i THEN own ELSE ItemOf(k, NoKey, NoCert)]
           items == {own} \cup (IF includeParents THEN {ItemOf(up[n], NoKey, NoCert) : n \in DOMAIN up} ELSE {})
<1>1. P \subseteq DOMAIN rows \ {i}
  <2>1. TableOK(rows, serials)
    BY DEF IInv
  <2>. QED
    BY <2>1, ParentsFacts
<1>2. file' = [is |-> "bundle", items |-> items] /\ CountFile /\ UNCHANGED <<rows, pairs, serials, history>>
  BY DEF ExportCert
<1>3. \A it : it \in items <=> it = own \/ \E k \in P : it = ItemOf(k, NoKey, NoCert)
  OBVIOUS
<1>4. S \in SUBSET DOMAIN rows /\ i \in S
  BY <1>1
<1> HIDE DEF P, items, up
<1>5. item[i] = own /\ \A k \in P : k \in S /\ item[k] = ItemOf(k, NoKey, NoCert)
  BY <1>1
<1>6. \A k \in S : k = i \/ k \in P
  OBVIOUS
<1>7. own.cert = rows[i].cert /\ ItemOK(own, serials, guessed, strayed)
  BY ItemFacts
<1>8. \A k \in P : /\ ItemOf(k, NoKey, NoCert).cert = rows[k].cert
                   /\ ItemOK(ItemOf(k, NoKey, NoCert), serials, guessed, strayed)
  BY <1>1, ItemFacts
<1> HIDE DEF S, item, own
<1>9. \A k \in S : /\ item[k] \in items /\ item[k].cert = rows[k].cert
                   /\ ItemOK(item[k], serials, guessed, strayed)
  BY <1>3, <1>5, <1>6, <1>7, <1>8
<1>10. \A it \in items : \E k \in S : it = item[k]
  BY <1>3, <1>4, <1>5
<1>11. Exports(S, item, items)
  BY <1>4, <1>9, <1>10 DEF Exports
<1>. QED
  BY <1>2, <1>11, BundleKeeps

LEMMA ExportSubtreeKeeps ==
    ASSUME IInv, NEW i \in DOMAIN rows, ExportSubtree(i)
    PROVE  IInv'
<1> DEFINE P == DescendantsOf(i)
           S == {i} \cup P
           own == ItemOf(i, rows[i].key, NoCert)
           of(k) == ItemOf(k, rows[k].key, CertOf(rows[k].issuer))
           item == [k \in S |-> IF k = i THEN own ELSE of(k)]
           items == {own} \cup {of(k) : k \in P}
<1>1. P \subseteq DOMAIN rows \ {i}
  <2>1. TableOK(rows, serials)
    BY DEF IInv
  <2>. QED
    BY <2>1, DescendantsFacts
<1>2. file' = [is |-> "bundle", items |-> items] /\ CountFile /\ UNCHANGED <<rows, pairs, serials, history>>
  BY DEF ExportSubtree
<1>3. \A it : it \in items <=> it = own \/ \E k \in P : it = of(k)
  OBVIOUS
<1>4. S \in SUBSET DOMAIN rows /\ i \in S
  BY <1>1
<1> HIDE DEF P, items
<1>5. item[i] = own /\ \A k \in P : k \in S /\ item[k] = of(k)
  BY <1>1
<1>6. \A k \in S : k = i \/ k \in P
  OBVIOUS
<1>7. own.cert = rows[i].cert /\ ItemOK(own, serials, guessed, strayed)
  BY ItemFacts
<1>8. \A k \in P : of(k).cert = rows[k].cert /\ ItemOK(of(k), serials, guessed, strayed)
  BY <1>1, ItemFacts
<1> HIDE DEF S, item, own, of
<1>9. \A k \in S : /\ item[k] \in items /\ item[k].cert = rows[k].cert
                   /\ ItemOK(item[k], serials, guessed, strayed)
  BY <1>3, <1>5, <1>6, <1>7, <1>8
<1>10. \A it \in items : \E k \in S : it = item[k]
  BY <1>3, <1>4, <1>5
<1>11. Exports(S, item, items)
  BY <1>4, <1>9, <1>10 DEF Exports
<1>. QED
  BY <1>2, <1>11, BundleKeeps

(***************************************************************************)
(* PEM files.                                                              *)
(***************************************************************************)

LEMMA GreatestNatural ==
    ASSUME NEW n \in Nat, NEW S \in SUBSET (1..n), S # {}
    PROVE  Max(S) \in S /\ Min(S) \in S
<1> DEFINE D == {n - k : k \in S}
<1>0. \A k \in S : k \in Nat /\ n - k \in Nat
  OBVIOUS
<1>1. D \in SUBSET Nat /\ D # {}
  BY <1>0
<1>2. PICK d \in D : \A e \in D : d <= e
  <2> HIDE DEF D
  <2>. QED
    BY <1>1, LeastNatural
<1>3. PICK k \in S : d = n - k
  BY <1>2
<1>4. \A l \in S : k >= l
  <2> SUFFICES ASSUME NEW l \in S PROVE k >= l
    OBVIOUS
  <2>1. n - l \in D
    OBVIOUS
  <2>2. n - k <= n - l
    BY <1>2, <1>3, <2>1
  <2>3. k \in Nat /\ l \in Nat
    BY <1>0
  <2> HIDE DEF D
  <2>. QED
    BY <2>2, <2>3
<1>5. Max(S) \in S
  BY <1>3, <1>4 DEF Max
<1>6. S \in SUBSET Nat
  OBVIOUS
<1>7. PICK a \in S : \A b \in S : a <= b
  BY <1>6, LeastNatural
<1>8. Min(S) \in S
  BY <1>7 DEF Min
<1>. QED
  BY <1>5, <1>8

LEMMA LeafFacts ==
    ASSUME NEW certs \in Seq(Certificate), certs # <<>>
    PROVE  LeafOf(certs) \in DOMAIN certs
<1> DEFINE leaves == {n \in DOMAIN certs : \A m \in DOMAIN certs :
                         m # n => certs[m].issuer # certs[n].subject}
<1>1. DOMAIN certs = 1..Len(certs) /\ Len(certs) \in Nat \ {0}
  BY EmptySeq, LenProperties
<1>2. LeafOf(certs) = IF leaves = {} THEN 1 ELSE Min(leaves)
  BY DEF LeafOf
<1>3. leaves \in SUBSET (1..Len(certs))
  BY <1>1
<1> HIDE DEF leaves
<1>4. leaves # {} => Min(leaves) \in leaves
  BY <1>1, <1>3, GreatestNatural
<1>5. 1 \in DOMAIN certs
  BY <1>1
<1>. QED
  BY <1>1, <1>2, <1>3, <1>4, <1>5

\* The ranks of the members of a finite set of numbers run from 1 to their number.
LEMMA Ranks ==
    ASSUME NEW n \in Nat, NEW S \in SUBSET (1..n)
    PROVE  /\ Cardinality(S) \in Nat
           /\ \A k \in 1..Cardinality(S) : {x \in S : Cardinality({m \in S : m <= x}) = k} # {}
           /\ \A x \in S : /\ Cardinality({m \in S : m <= x}) \in 1..Cardinality(S)
                            /\ \A y \in S : Cardinality({m \in S : m <= y})
                                           = Cardinality({m \in S : m <= x}) => y = x
<1> DEFINE C == Cardinality(S)
           upto(x) == {m \in S : m <= x}
           rank == [x \in S |-> Cardinality(upto(x))]
<1>1. IsFiniteSet(S) /\ C \in Nat
  <2>1. IsFiniteSet(1..n)
    BY FS_Interval
  <2>. QED
    BY <2>1, FS_Subset, FS_CardinalityType
<1>2. ASSUME NEW x \in S
      PROVE  IsFiniteSet(upto(x)) /\ Cardinality(upto(x)) \in 1..C
  <2>1. upto(x) \subseteq S /\ upto(x) # {}
    OBVIOUS
  <2>2. IsFiniteSet(upto(x)) /\ Cardinality(upto(x)) \in Nat /\ Cardinality(upto(x)) <= C
    BY <1>1, <2>1, FS_Subset, FS_CardinalityType
  <2>3. Cardinality(upto(x)) # 0
    BY <2>1, <2>2, FS_EmptySet
  <2>. QED
    BY <1>1, <2>2, <2>3
<1>3. ASSUME NEW x \in S, NEW y \in S, x < y PROVE Cardinality(upto(x)) # Cardinality(upto(y))
  <2>1. upto(x) \subseteq upto(y) /\ upto(x) # upto(y)
    <3>1. y \in upto(y) /\ y \notin upto(x)
      BY <1>3
    <3>2. upto(x) \subseteq upto(y)
      <4> SUFFICES ASSUME NEW m \in S, m <= x PROVE m <= y
        OBVIOUS
      <4>1. m \in Nat /\ x \in Nat /\ y \in Nat
        OBVIOUS
      <4>. QED
        BY <1>3, <4>1
    <3>. QED
      BY <3>1, <3>2
  <2>. QED
    BY <1>2, <2>1, FS_Subset
<1>4. rank \in Injection(S, 1..C)
  <2>1. rank \in [S -> 1..C]
    BY <1>2
  <2>2. ASSUME NEW x \in S, NEW y \in S, rank[x] = rank[y] PROVE x = y
    <3>1. ~(x < y) /\ ~(y < x)
      BY <1>3, <2>2
    <3>2. x \in Nat /\ y \in Nat
      OBVIOUS
    <3>. QED
      BY <3>1, <3>2
  <2>. QED
    BY <2>1, <2>2 DEF Injection, IsInjective
<1>5. rank \in Surjection(S, 1..C)
  <2>1. IsFiniteSet(1..C) /\ Cardinality(1..C) = C
    BY <1>1, FS_Interval
  <2>. QED
    BY <1>4, <2>1, FS_Injection
<1>6. ASSUME NEW k \in 1..C PROVE \E x \in S : Cardinality(upto(x)) = k
  BY <1>5 DEF Surjection
<1>7. ASSUME NEW x \in S, NEW y \in S, Cardinality(upto(y)) = Cardinality(upto(x)) PROVE y = x
  <2>1. ~(x < y) /\ ~(y < x)
    BY <1>3, <1>7
  <2>2. x \in Nat /\ y \in Nat
    OBVIOUS
  <2>. QED
    BY <2>1, <2>2
<1> HIDE DEF C
<1>. QED
  BY <1>1, <1>2, <1>6, <1>7 DEF C

LEMMA SelectedFacts ==
    ASSUME NEW certs \in Seq(Certificate), NEW S \in SUBSET DOMAIN certs
    PROVE  /\ Selected(certs, S) \in Seq(Range(certs))
           /\ Range(Selected(certs, S)) = {certs[n] : n \in S}
<1> DEFINE at == [k \in 1..Cardinality(S) |-> {n \in S : Cardinality({m \in S : m <= n}) = k}]
           C == Cardinality(S)
<1>1. DOMAIN certs = 1..Len(certs) /\ Len(certs) \in Nat
  BY LenProperties
<1>2. C \in Nat /\ \A k \in 1..C : at[k] # {} /\ at[k] \in SUBSET S
  <2>1. S \in SUBSET (1..Len(certs)) /\ Len(certs) \in Nat
    BY <1>1
  <2>2. /\ C \in Nat
        /\ \A k \in 1..C : {n \in S : Cardinality({m \in S : m <= n}) = k} # {}
    BY <2>1, Ranks
  <2>. QED
    BY <2>2
<1>7. ASSUME NEW n \in S PROVE \E k \in 1..C : at[k] = {n}
  <2> DEFINE k == Cardinality({m \in S : m <= n})
  <2>1. S \in SUBSET (1..Len(certs)) /\ Len(certs) \in Nat
    BY <1>1
  <2>2. k \in 1..C /\ \A y \in S : Cardinality({m \in S : m <= y}) = k => y = n
    BY <2>1, Ranks
  <2>3. at[k] = {y \in S : Cardinality({m \in S : m <= y}) = k}
    BY <2>2
  <2>4. at[k] = {n}
    BY <2>2, <2>3
  <2> HIDE DEF k, at
  <2>. QED
    BY <2>2, <2>4
<1>3. Selected(certs, S) = [k \in 1..C |-> certs[Min(at[k])]]
  BY DEF Selected
<1> HIDE DEF at, C
<1>4. ASSUME NEW k \in 1..C
      PROVE  Min(at[k]) \in at[k] /\ Min(at[k]) \in S /\ certs[Min(at[k])] \in Range(certs)
  <2>1. at[k] # {} /\ at[k] \in SUBSET (1..Len(certs)) /\ at[k] \in SUBSET S
    BY <1>1, <1>2
  <2>2. Min(at[k]) \in at[k]
    BY <1>1, <2>1, GreatestNatural
  <2>3. Min(at[k]) \in DOMAIN certs
    BY <1>1, <2>1, <2>2
  <2>. QED
    BY <2>1, <2>2, <2>3 DEF Range
<1>5. [k \in 1..C |-> certs[Min(at[k])]] \in [1..C -> Range(certs)]
  BY <1>4
<1>6. [1..C -> Range(certs)] \subseteq Seq(Range(certs))
  BY <1>2, SeqDef
<1>8. Range(Selected(certs, S)) = {certs[Min(at[k])] : k \in 1..C}
  BY <1>3 DEF Range
<1>9. ASSUME NEW n \in S PROVE \E k \in 1..C : certs[Min(at[k])] = certs[n]
  <2>1. PICK k \in 1..C : at[k] = {n}
    BY <1>7
  <2>2. Min(at[k]) = n
    BY <1>4, <2>1
  <2>. QED
    BY <2>2
<1>10. {certs[Min(at[k])] : k \in 1..C} = {certs[n] : n \in S}
  <2>1. ASSUME NEW k \in 1..C PROVE certs[Min(at[k])] \in {certs[n] : n \in S}
    BY <1>4
  <2>2. ASSUME NEW n \in S PROVE certs[n] \in {certs[Min(at[k])] : k \in 1..C}
    <3>1. PICK k \in 1..C : certs[Min(at[k])] = certs[n]
      BY <1>9
    <3>. QED
      BY <3>1
  <2>. QED
    BY <2>1, <2>2
<1>. QED
  BY <1>3, <1>5, <1>6, <1>8, <1>10

\* The first k of s are a chain: each was issued in the name of the next, none comes
\* twice, and it goes on as far as the file and its own members let it.  None of the
\* others is one of them.
StartsWithChain(s, certs, k) ==
    /\ k \in 1..Len(s)
    /\ \A n \in 1..(k - 1) : s[n + 1].subject = s[n].issuer
    /\ \A n, m \in 1..k : s[n] = s[m] => n = m
    /\ \/ \A c \in Range(certs) : c.subject # s[k].issuer
       \/ \E n \in 1..k : s[n].subject = s[k].issuer
    /\ \A n \in (k + 1)..Len(s), m \in 1..k : s[n] # s[m]

\* orderChain loses no certificate of a file and adds none, and puts the leaf and the
\* chain above it first, whatever cycles of names and repetitions the file contains.
THEOREM FilesOrdered ==
    ASSUME NEW certs \in Seq(Certificate), certs # <<>>
    PROVE  /\ OrderChain(certs) \in Seq(Range(certs)) /\ OrderChain(certs) # <<>>
           /\ Range(OrderChain(certs)) = Range(certs)
           /\ OrderChain(certs)[1] = certs[LeafOf(certs)]
           /\ \E k \in 1..Len(OrderChain(certs)) : StartsWithChain(OrderChain(certs), certs, k)
<1> DEFINE R == Range(certs)
           D == (SUBSET R) \X R
           issuers(c) == {n \in DOMAIN certs : certs[n].subject = c.issuer}
           last(S) == certs[Max(S)]
           Halt == {c \in R : issuers(c) = {}}
           to == [c \in R |-> last(issuers(c))]
           Body(f, at) == IF issuers(at[2]) = {} \/ last(issuers(at[2])) \in at[1] THEN <<at[2]>>
                          ELSE <<at[2]>> \o f[<<at[1] \cup {last(issuers(at[2]))}, last(issuers(at[2]))>>]
           E(f) == f = [at \in D |-> Body(f, at)]
           F == CHOOSE f : E(f)
           leaf == certs[LeafOf(certs)]
           ordered == F[<<{leaf}, leaf>>]
           rest == {n \in DOMAIN certs : certs[n] \notin Range(ordered)}
<1>1. OrderChain(certs) = ordered \o Selected(certs, rest)
  BY DEF OrderChain
<1>2. DOMAIN certs = 1..Len(certs) /\ Len(certs) \in Nat
  BY LenProperties
<1>3. IsFiniteSet(R)
  <2>1. IsFiniteSet(1..Len(certs))
    BY <1>2, FS_Interval
  <2>2. [n \in 1..Len(certs) |-> certs[n]] \in Surjection(1..Len(certs), R)
    BY <1>2 DEF Surjection, Range
  <2> HIDE DEF R
  <2>. QED
    BY <2>1, <2>2, FS_Surjection
<1>4. ASSUME NEW c \in R, issuers(c) # {} PROVE last(issuers(c)) \in R
  <2>1. issuers(c) \in SUBSET (1..Len(certs))
    BY <1>2
  <2>2. Max(issuers(c)) \in issuers(c)
    <3> HIDE DEF issuers
    <3>. QED
      BY <1>2, <1>4, <2>1, GreatestNatural
  <2>3. Max(issuers(c)) \in DOMAIN certs
    BY <1>2, <2>1, <2>2
  <2>. QED
    BY <2>3 DEF Range
<1>5. leaf \in R
  BY LeafFacts DEF Range
<1>5a. ASSUME NEW c \in R, issuers(c) # {} PROVE last(issuers(c)).subject = c.issuer
  <2>1. issuers(c) \in SUBSET (1..Len(certs))
    BY <1>2
  <2>2. Max(issuers(c)) \in issuers(c)
    <3> HIDE DEF issuers
    <3>. QED
      BY <1>2, <1>5a, <2>1, GreatestNatural
  <2>. QED
    BY <2>2
<1>5b. ASSUME NEW c \in R, issuers(c) = {}, NEW d \in R PROVE d.subject # c.issuer
  BY <1>5b DEF Range
<1> HIDE DEF issuers, last, R
<1>6. \A c \in R : (c \in Halt <=> issuers(c) = {}) /\ to[c] = last(issuers(c)) /\ (c \notin Halt => to[c] \in R)
  BY <1>4
<1>6a. ASSUME NEW f, NEW at \in D
       PROVE  Body(f, at) = IF at[2] \in Halt \/ to[at[2]] \in at[1] THEN <<at[2]>>
                            ELSE <<at[2]>> \o f[<<at[1] \cup {to[at[2]]}, to[at[2]]>>]
  <2>1. at[2] \in R
    OBVIOUS
  <2>2. (at[2] \in Halt <=> issuers(at[2]) = {}) /\ to[at[2]] = last(issuers(at[2]))
    BY <1>6, <2>1
  <2> HIDE DEF Halt, to
  <2>. QED
    BY <2>2
<1> HIDE DEF Halt, to
<1>7. ASSUME NEW f, Walks(f, R, Halt, to) PROVE E(f)
  <2>1. \A at \in D : f[at] = Body(f, at)
    BY <1>7, <1>6a DEF Walks
  <2>2. f = [at \in D |-> f[at]]
    BY <1>7 DEF Walks
  <2> HIDE DEF D, Body
  <2>. QED
    BY <2>1, <2>2
<1>8. ASSUME NEW f, E(f) PROVE Walks(f, R, Halt, to)
  <2>1. (\A at \in D : f[at] = Body(f, at)) /\ f = [at \in D |-> f[at]]
    <3> HIDE DEF D, Body
    <3>. QED
      BY <1>8
  <2>. QED
    BY <2>1, <1>6a DEF Walks
<1>9. /\ \E f : Walks(f, R, Halt, to)
      /\ \A f : Walks(f, R, Halt, to) => \A at \in D : IsTrail(f[at], R, Halt, to, at[1], at[2])
  BY <1>3, <1>6, Trails
<1>10. E(F)
  <2> HIDE DEF E
  <2>. QED
    BY <1>7, <1>9
<1>11. \A at \in D : IsTrail(F[at], R, Halt, to, at[1], at[2])
  <2> HIDE DEF E, F
  <2>. QED
    BY <1>8, <1>9, <1>10
<1>12. <<{leaf}, leaf>> \in D /\ <<{leaf}, leaf>>[1] = {leaf} /\ <<{leaf}, leaf>>[2] = leaf
  BY <1>5
<1>12a. leaf = certs[LeafOf(certs)]
  OBVIOUS
<1> HIDE DEF D, F, leaf
<1>13. IsTrail(ordered, R, Halt, to, {leaf}, leaf)
  BY <1>11, <1>12
<1>13a. \A c \in R : c \in Halt => \A d \in R : d.subject # c.issuer
  BY <1>5b, <1>6
<1>13b. \A c \in R : c \notin Halt => to[c].subject = c.issuer
  BY <1>5a, <1>6
<1>13c. \A n \in rest : certs[n] \notin Range(ordered)
  OBVIOUS
<1>13d. ASSUME NEW c \in R, c \notin Range(ordered) PROVE c \in {certs[n] : n \in rest}
  BY <1>13d DEF R, Range
<1> DEFINE more == Selected(certs, rest)
           s == ordered \o more
           k == Len(ordered)
<1>14. more \in Seq(R) /\ Range(more) = {certs[n] : n \in rest}
  BY SelectedFacts DEF R
<1> HIDE DEF ordered, rest, more
<1>15. ordered \in Seq(R) /\ ordered # <<>> /\ k \in Nat \ {0} /\ Len(more) \in Nat
  BY <1>13, <1>14, EmptySeq, LenProperties DEF IsTrail
<1>16. /\ s \in Seq(R) /\ Len(s) = k + Len(more)
       /\ \A n \in 1..(k + Len(more)) : s[n] = IF n <= k THEN ordered[n] ELSE more[n - k]
  BY <1>14, <1>15, ConcatProperties
<1> HIDE DEF s, k
<1>17. s # <<>> /\ k \in 1..Len(s)
  BY <1>15, <1>16, EmptySeq
<1>18. /\ \A n \in 1..k : s[n] = ordered[n] /\ s[n] \in Range(ordered)
       /\ \A n \in (k + 1)..Len(s) : s[n] \in Range(more)
  <2>1. ASSUME NEW n \in 1..k PROVE s[n] = ordered[n] /\ s[n] \in Range(ordered)
    <3>1. n \in 1..(k + Len(more)) /\ n <= k /\ n \in DOMAIN ordered
      BY <1>15, LenProperties DEF k
    <3>. QED
      BY <1>16, <3>1 DEF Range
  <2>2. ASSUME NEW n \in (k + 1)..Len(s) PROVE s[n] \in Range(more)
    <3>1. n \in 1..(k + Len(more)) /\ ~(n <= k) /\ n - k \in DOMAIN more
      BY <1>14, <1>15, <1>16, LenProperties
    <3>. QED
      BY <1>16, <3>1 DEF Range
  <2>. QED
    BY <2>1, <2>2
<1>19. Range(s) = R
  <2>1. Range(s) \subseteq R
    BY <1>16, LenProperties DEF Range
  <2>2. ASSUME NEW c \in Range(ordered) PROVE c \in Range(s)
    <3>1. PICK n \in 1..k : c = ordered[n]
      BY <1>15, LenProperties DEF Range, k
    <3>2. n \in DOMAIN s /\ s[n] = c
      BY <1>15, <1>16, <1>17, <1>18, <3>1, LenProperties
    <3>. QED
      BY <3>2 DEF Range
  <2>3. ASSUME NEW c \in Range(more) PROVE c \in Range(s)
    <3>1. PICK n \in 1..Len(more) : c = more[n]
      BY <1>14, LenProperties DEF Range
    <3>2. n + k \in 1..(k + Len(more)) /\ ~(n + k <= k) /\ (n + k) - k = n
      BY <1>15
    <3>3. s[n + k] = c /\ n + k \in DOMAIN s
      BY <1>16, <3>1, <3>2, LenProperties
    <3>. QED
      BY <3>3 DEF Range
  <2>. QED
    BY <1>13d, <1>14, <2>1, <2>2, <2>3
<1>20. StartsWithChain(s, certs, k)
  <2>1. ASSUME NEW n \in 1..(k - 1) PROVE s[n + 1].subject = s[n].issuer
    <3>1. n \in 1..k /\ n + 1 \in 1..k
      BY <1>15
    <3>2. ordered[n] \notin Halt /\ ordered[n + 1] = to[ordered[n]]
      BY <1>13, <2>1 DEF IsTrail, k
    <3>3. ordered[n] \in R
      BY <1>15, <3>1, ElementOfSeq DEF k
    <3>. QED
      BY <1>13b, <1>18, <3>1, <3>2, <3>3
  <2>2. ASSUME NEW n \in 1..k, NEW m \in 1..k, s[n] = s[m] PROVE n = m
    BY <1>13, <1>18, <2>2 DEF IsTrail, k
  <2>3. \/ \A c \in R : c.subject # s[k].issuer
        \/ \E n \in 1..k : s[n].subject = s[k].issuer
    <3>1. ordered[k] \in R /\ k \in 1..k /\ 1 \in 1..k /\ s[k] = ordered[k] /\ s[1] = ordered[1]
      BY <1>15, <1>18, ElementOfSeq DEF k
    <3>2. ordered[1] = leaf
      BY <1>13 DEF IsTrail
    <3>3. CASE ordered[k] \in Halt
      BY <1>13a, <3>1, <3>3
    <3>4. CASE ordered[k] \notin Halt /\ to[ordered[k]] = leaf
      BY <1>13b, <3>1, <3>2, <3>4
    <3>5. CASE ordered[k] \notin Halt /\ \E n \in 2..k : ordered[n] = to[ordered[k]]
      <4>1. PICK n \in 2..k : ordered[n] = to[ordered[k]]
        BY <3>5
      <4>2. n \in 1..k
        BY <1>15
      <4>. QED
        BY <1>13b, <1>18, <3>1, <3>5, <4>1, <4>2
    <3>. QED
      BY <1>13, <3>3, <3>4, <3>5 DEF IsTrail, k
  <2>4. ASSUME NEW n \in (k + 1)..Len(s), NEW m \in 1..k PROVE s[n] # s[m]
    BY <1>13c, <1>14, <1>18
  <2>. QED
    BY <1>17, <2>1, <2>2, <2>3, <2>4 DEF StartsWithChain, R
<1>21. s[1] = certs[LeafOf(certs)]
  BY <1>12a, <1>13, <1>15, <1>18 DEF IsTrail
<1>22. OrderChain(certs) = s
  BY <1>1 DEF s, more
<1>. QED
  BY <1>16, <1>17, <1>19, <1>20, <1>21, <1>22 DEF R

\* The rows of the context with up to k more, the next of which is linked to `parent`.
Grown(table, parent, k, stray) ==
    /\ TableOK(table, serials) /\ KeysOK(table, stray)
    /\ DOMAIN rows \subseteq DOMAIN table /\ \A i \in DOMAIN rows : table[i] = rows[i]
    /\ parent \in DOMAIN table \cup {NoId}
    /\ Cardinality(DOMAIN table) <= Cardinality(DOMAIN rows) + k

LEMMA GrowFacts ==
    ASSUME serials \in Nat, NEW k \in Nat, NEW table, NEW parent, NEW stray, Grown(table, parent, k, stray),
           Cardinality(DOMAIN rows) + k < MaxRows, DOMAIN rows \subseteq Id,
           NEW type \in {"ca", "leaf"}, NEW c \in Certificate, c.serial <= serials, ~HasCert(table, c),
           NEW key \in Pair \cup {NoKey}, NEW stray2, stray \subseteq stray2, Belongs(c, key, stray2)
    PROVE  Grown(Add(table, NewRow(type, c, key, parent)), FreshId(table), k + 1, stray2)
<1> DEFINE row == NewRow(type, c, key, parent)
           T == Add(table, row)
           id == FreshId(table)
           n == serials
<1>1. /\ TableOK(table, n) /\ KeysOK(table, stray) /\ DOMAIN rows \subseteq DOMAIN table
      /\ \A i \in DOMAIN rows : table[i] = rows[i]
      /\ parent \in DOMAIN table \cup {NoId} /\ Cardinality(DOMAIN table) <= Cardinality(DOMAIN rows) + k
  BY DEF Grown
<1>2. /\ Cardinality(DOMAIN table) \in Nat /\ Cardinality(DOMAIN rows) \in Nat /\ MaxRows \in Nat
      /\ Cardinality(DOMAIN table) < MaxRows
  <2>1. /\ Cardinality(DOMAIN table) \in Nat /\ Cardinality(DOMAIN rows) \in Nat /\ MaxRows \in Nat
    BY <1>1, FiniteTable DEF TableOK
  <2>. QED
    BY <1>1, <2>1
<1>3. row \in Row /\ row.cert = c /\ row.key = key /\ row.issuer = parent
  <2>1. parent \in Link
    BY <1>1 DEF TableOK, Link
  <2>. QED
    BY <2>1, NewRowFacts
<1> HIDE DEF row, T, id, n
<1>4. n \in Nat /\ row.cert.serial <= n /\ n <= n /\ ~HasCert(table, row.cert) /\ row.issuer \in DOMAIN table \cup {NoId}
  BY <1>1, <1>3 DEF n
<1>5. /\ id \in Id \ DOMAIN table /\ DOMAIN T = DOMAIN table \cup {id} /\ T[id] = row
      /\ \A i \in DOMAIN table : T[i] = table[i]
      /\ TableOK(T, n) /\ Cardinality(DOMAIN T) = Cardinality(DOMAIN table) + 1
  <2>1. /\ T = Add(table, row) /\ id = FreshId(table) /\ n \in Nat /\ n <= n /\ row \in Row
        /\ row.issuer \in DOMAIN table \cup {NoId} /\ row.cert.serial <= n /\ TableOK(table, n)
        /\ Cardinality(DOMAIN table) < MaxRows /\ ~HasCert(table, row.cert)
    BY <1>1, <1>2, <1>3, <1>4 DEF T, id
  <2>2. Addable(table, n, row, n)
    BY <2>1 DEF Addable
  <2>3. Added(table, row, n, T, id)
    BY <2>1, <2>2, AddFacts
  <2>. QED
    BY <2>3 DEF Added
<1>6. KeysOK(T, stray2)
  <2>1. \A i \in DOMAIN table : Belongs(table[i].cert, table[i].key, stray2)
    BY <1>1 DEF KeysOK, Belongs
  <2>2. Belongs(T[id].cert, T[id].key, stray2)
    BY <1>3, <1>5
  <2>. QED
    BY <1>5, <2>1, <2>2 DEF KeysOK
<1>7. /\ DOMAIN rows \subseteq DOMAIN T /\ \A i \in DOMAIN rows : T[i] = rows[i]
      /\ id \in DOMAIN T \cup {NoId} /\ Cardinality(DOMAIN T) <= Cardinality(DOMAIN rows) + (k + 1)
  BY <1>1, <1>2, <1>5
<1>8. TableOK(T, serials)
  BY <1>5 DEF n
<1>9. Grown(T, id, k + 1, stray2)
  BY <1>6, <1>7, <1>8 DEF Grown
<1>. QED
  BY <1>9 DEF T, id, row

LEMMA SaveChainFacts ==
    ASSUME IInv, NEW certs \in Seq(Certificate), certs # <<>>,
           \A k \in 1..Len(certs) : certs[k].serial <= serials,
           HasRoom(Len(certs)), NEW issuer \in DOMAIN rows \cup {NoId}
    PROVE  Grown(SaveChain(certs, issuer).table, SaveChain(certs, issuer).parent, Len(certs) - 1, strayed)
<1> DEFINE L == Len(certs)
           D == 1..L
           Table == {rows} \cup UNION {[X -> Row] : X \in SUBSET Id}
           State == [table: Table, parent: Link]
           Put(above, c) ==
               IF HasCert(above.table, c) THEN [above EXCEPT !.parent = IdOf(above.table, c)]
               ELSE [table |-> Add(above.table, NewRow("ca", c, NoKey, above.parent)),
                     parent |-> FreshId(above.table)]
           first == [table |-> rows, parent |-> issuer]
           m == [n \in D |-> L - n]
           Stop == {L}
           nxt == [n \in D |-> n + 1]
           T == [n \in D |-> {st \in State : Grown(st.table, st.parent, L - n, strayed)}]
           b == [n \in D |-> first]
           g == [x \in D \X State |-> Put(x[2], certs[x[1] + 1])]
           E(f) == f = [n \in D |-> IF n = L THEN first ELSE Put(f[n + 1], certs[n + 1])]
           F == CHOOSE f : E(f)
<1>1. SaveChain(certs, issuer) = F[1]
  BY DEF SaveChain
<1>2. L \in Nat \ {0} /\ \A k \in D : certs[k] \in Certificate /\ certs[k].serial <= serials
  BY EmptySeq, LenProperties, ElementOfSeq
<1>3. /\ DOMAIN rows \subseteq Id /\ Cardinality(DOMAIN rows) \in Nat /\ MaxRows \in Nat /\ serials \in Nat
      /\ Cardinality(DOMAIN rows) + L <= MaxRows /\ TableOK(rows, serials) /\ KeysOK(rows, strayed)
  <2>1. DOMAIN rows \subseteq Id /\ TableOK(rows, serials) /\ KeysOK(rows, strayed)
    BY DEF IInv, TableOK
  <2>2. Cardinality(DOMAIN rows) \in Nat /\ MaxRows \in Nat
    BY <2>1, FiniteTable
  <2>3. serials \in Nat
    BY PkiAssumption DEF IInv
  <2>. QED
    BY <2>1, <2>2, <2>3 DEF HasRoom
<1>4. ASSUME NEW table, NEW parent, NEW k, Grown(table, parent, k, strayed),
             table \in {rows, [i \in DOMAIN table |-> table[i]]}
      PROVE  /\ [table |-> table, parent |-> parent] \in State
             /\ [table |-> table, parent |-> parent].table = table
             /\ [table |-> table, parent |-> parent].parent = parent
  <2>1. DOMAIN table \in SUBSET Id /\ \A i \in DOMAIN table : table[i] \in Row
    BY <1>4 DEF Grown, TableOK
  <2>2. table = rows \/ table \in [DOMAIN table -> Row]
    BY <1>4, <2>1
  <2>3. table \in Table
    BY <2>1, <2>2
  <2>4. parent \in Link
    BY <1>4, <2>1 DEF Grown, Link
  <2> HIDE DEF Table
  <2>. QED
    BY <2>3, <2>4
<1>5. first \in State /\ Grown(first.table, first.parent, 0, strayed)
  <2>1. Grown(rows, issuer, 0, strayed)
    BY <1>3 DEF Grown
  <2> HIDE DEF State
  <2>. QED
    BY <1>4, <2>1
<1>6. ASSUME NEW n \in D, n # L, NEW st \in State, Grown(st.table, st.parent, L - (n + 1), strayed)
      PROVE  /\ Put(st, certs[n + 1]) \in State
             /\ Grown(Put(st, certs[n + 1]).table, Put(st, certs[n + 1]).parent, L - n, strayed)
  <2> DEFINE c == certs[n + 1]
             k == L - (n + 1)
  <2>1. n + 1 \in D /\ k \in Nat /\ k + 1 = L - n /\ Cardinality(DOMAIN rows) + k < MaxRows
    BY <1>2, <1>3, <1>6
  <2>2. c \in Certificate /\ c.serial <= serials
    BY <1>2, <2>1
  <2>3. Grown(st.table, st.parent, k, strayed) /\ st = [table |-> st.table, parent |-> st.parent]
    BY <1>6
  <2> HIDE DEF c, k
  <2>4. CASE HasCert(st.table, c)
    <3>1. IdOf(st.table, c) \in DOMAIN st.table
      BY <2>4 DEF HasCert, IdOf
    <3>2. Put(st, c) = [table |-> st.table, parent |-> IdOf(st.table, c)]
      BY <2>3, <2>4
    <3>3. Put(st, c) \in State /\ Put(st, c).table = st.table /\ Put(st, c).parent = IdOf(st.table, c)
      <4>1. IdOf(st.table, c) \in Link
        BY <2>3, <3>1 DEF Grown, TableOK, Link
      <4> HIDE DEF Put, Table
      <4>. QED
        BY <1>6, <3>2, <4>1
    <3>4. Grown(st.table, IdOf(st.table, c), k + 1, strayed)
      <4>1. Cardinality(DOMAIN st.table) \in Nat
        BY <2>3, FiniteTable DEF Grown, TableOK
      <4>2. Cardinality(DOMAIN st.table) <= Cardinality(DOMAIN rows) + (k + 1)
        BY <1>3, <2>1, <2>3, <4>1 DEF Grown
      <4>. QED
        BY <2>3, <3>1, <4>2 DEF Grown
    <3> HIDE DEF Put
    <3>. QED
      BY <2>1, <3>3, <3>4 DEF c
  <2>5. CASE ~HasCert(st.table, c)
    <3> DEFINE T2 == Add(st.table, NewRow("ca", c, NoKey, st.parent))
    <3>1. Put(st, c) = [table |-> T2, parent |-> FreshId(st.table)]
      BY <2>5
    <3>2. Belongs(c, NoKey, strayed) /\ NoKey \in Pair \cup {NoKey} /\ "ca" \in {"ca", "leaf"}
      BY DEF Belongs
    <3>3. Grown(T2, FreshId(st.table), k + 1, strayed)
      BY <1>3, <2>1, <2>2, <2>3, <2>5, <3>2, GrowFacts
    <3>4. T2 = [i \in DOMAIN T2 |-> T2[i]]
      BY DEF Add
    <3> HIDE DEF T2, Put, State
    <3>. QED
      BY <1>4, <2>1, <3>1, <3>3, <3>4 DEF c
  <2>. QED
    BY <2>4, <2>5
<1>7. m \in [D -> 0..L] /\ m \in [D -> Nat]
  BY <1>2
<1>8. ASSUME NEW n \in D, n # L PROVE nxt[n] = n + 1 /\ n + 1 \in D /\ m[n + 1] < m[n] /\ nxt[n] \in D
  <2>1. n + 1 \in D
    BY <1>2, <1>8
  <2>2. m[n] = L - n /\ m[n + 1] = L - (n + 1)
    BY <2>1
  <2>3. L - (n + 1) < L - n
    BY <1>2
  <2>. QED
    BY <2>1, <2>2, <2>3
<1>9. \A n \in D : \A st : st \in T[n] <=> st \in State /\ Grown(st.table, st.parent, L - n, strayed)
  <2> HIDE DEF State
  <2>. QED
    OBVIOUS
<1> HIDE DEF State, Put, first
<1>10. ASSUME NEW n \in D, n # L, NEW st \in T[n + 1]
       PROVE  g[<<n, st>>] = Put(st, certs[n + 1]) /\ g[<<n, st>>] \in T[n]
  <2>1. st \in State /\ Grown(st.table, st.parent, L - (n + 1), strayed)
    BY <1>8, <1>9, <1>10
  <2>2. g[<<n, st>>] = Put(st, certs[n + 1])
    BY <2>1
  <2>. QED
    BY <1>6, <1>9, <1>10, <2>1, <2>2
<1>11. L \in D /\ L - L = 0
  BY <1>2
<1>12. first \in T[L]
  BY <1>5, <1>9, <1>11
<1>13. Descends(D, L, m, Stop, nxt, T, b, g)
  <2>1. \A x \in D : x \in Stop => b[x] \in T[x]
    BY <1>12
  <2>2. \A x \in D : x \notin Stop =>
            nxt[x] \in D /\ m[nxt[x]] < m[x] /\ \A t \in T[nxt[x]] : g[<<x, t>>] \in T[x]
    <3> SUFFICES ASSUME NEW x \in D, x # L
                 PROVE  nxt[x] \in D /\ m[nxt[x]] < m[x] /\ \A t \in T[nxt[x]] : g[<<x, t>>] \in T[x]
      OBVIOUS
    <3> HIDE DEF D, m, nxt, T, g, L
    <3>. QED
      BY <1>8, <1>10
  <2> HIDE DEF D, m, nxt, T, g, b, Stop
  <2>. QED
    BY <1>2, <1>7, <2>1, <2>2 DEF Descends
<1>14. PICK f : Solves(f, D, Stop, nxt, T, b, g)
  <2> HIDE DEF D, m, nxt, T, g, b, Stop
  <2>. QED
    BY <1>13, Solution
<1>15. E(f)
  <2>1. ASSUME NEW n \in D PROVE f[n] = IF n = L THEN first ELSE Put(f[n + 1], certs[n + 1])
    <3>1. CASE n = L
      BY <1>14, <3>1 DEF Solves
    <3>2. CASE n # L
      <4>1. f[n] = g[<<n, f[nxt[n]]>>] /\ f[nxt[n]] \in T[nxt[n]] /\ nxt[n] = n + 1
        BY <1>8, <1>14, <3>2 DEF Solves
      <4> HIDE DEF nxt, T, g, L
      <4>. QED
        BY <1>10, <3>2, <4>1
    <3>. QED
      BY <3>1, <3>2
  <2>2. f = [n \in D |-> f[n]]
    BY <1>14 DEF Solves
  <2> HIDE DEF D, L
  <2>. QED
    BY <2>1, <2>2
<1>16. E(F)
  <2> HIDE DEF E
  <2>. QED
    BY <1>15
<1>17. \A n \in D : F[n] = IF n = L THEN first ELSE Put(F[n + 1], certs[n + 1])
  <2> HIDE DEF F, D, L
  <2>. QED
    BY <1>16
<1> DEFINE G == {n \in D : F[n] \in T[n]}
<1>18. ASSUME NEW n \in D, \A k \in D : m[k] < m[n] => k \in G PROVE n \in G
  <2> HIDE DEF F, T, m
  <2>1. CASE n = L
    BY <1>12, <1>17, <2>1
  <2>2. CASE n # L
    <3>1. n + 1 \in G
      BY <1>8, <1>18, <2>2
    <3>2. F[n + 1] \in T[n + 1]
      BY <3>1
    <3>3. F[n] = Put(F[n + 1], certs[n + 1])
      BY <1>17, <2>2
    <3> HIDE DEF g, G, L, D
    <3>4. F[n] \in T[n]
      BY <1>10, <2>2, <3>2, <3>3
    <3>. QED
      BY <3>4 DEF G
  <2>. QED
    BY <2>1, <2>2
<1>19. \A n \in D : n \in G
  <2> HIDE DEF D, m, G
  <2>. QED
    BY <1>7, <1>18, ByMeasure
<1>20. F[1] \in T[1] /\ 1 \in D
  <2>1. 1 \in D
    BY <1>2
  <2> HIDE DEF F, T
  <2>. QED
    BY <1>19, <2>1
<1>21. Grown(F[1].table, F[1].parent, L - 1, strayed)
  <2> HIDE DEF F, T
  <2>. QED
    BY <1>9, <1>20
<1>. QED
  <2> HIDE DEF F
  <2>. QED
    BY <1>1, <1>21

LEMMA ImportFileKeeps ==
    ASSUME IInv, NEW certs, file.is = "pem", certs = file.certs,
           NEW type \in {"ca", "leaf"}, NEW chainAsCas \in BOOLEAN, NEW issuer \in DOMAIN rows \cup {NoId},
           NEW key \in Pair \cup {NoKey}, ImportFile(certs, type, chainAsCas, issuer, key)
    PROVE  IInv'
<1> DEFINE ordered == OrderChain(certs)
           chain == IF chainAsCas THEN SaveChain(ordered, issuer) ELSE [table |-> rows, parent |-> issuer]
           leaf == ordered[1]
           T == rows'
           guess2 == guessed'
           stray2 == strayed'
           k == Len(ordered) - 1
<1>1. /\ certs \in Seq(Certificate) /\ certs # <<>>
      /\ \A n \in 1..Len(certs) : certs[n].serial <= serials
  BY DEF IInv, FileOK, NoFile
<1>2. /\ ordered \in Seq(Certificate) /\ ordered # <<>> /\ Len(ordered) \in Nat \ {0}
      /\ \A n \in 1..Len(ordered) : ordered[n] \in Certificate /\ ordered[n].serial <= serials
  <2>1. ordered \in Seq(Range(certs)) /\ ordered # <<>>
    BY <1>1, FilesOrdered
  <2>2. \A c \in Range(certs) : c \in Certificate /\ c.serial <= serials
    <3>1. DOMAIN certs = 1..Len(certs)
      BY <1>1, LenProperties
    <3>2. \A n \in 1..Len(certs) : certs[n] \in Certificate
      BY <1>1, ElementOfSeq
    <3>. QED
      BY <1>1, <3>1, <3>2 DEF Range
  <2>3. ordered \in Seq(Certificate)
    BY <2>1, <2>2, SeqMonotonic
  <2>4. \A n \in 1..Len(ordered) : ordered[n] \in Range(certs)
    BY <2>1, ElementOfSeq
  <2> HIDE DEF ordered
  <2>. QED
    BY <2>1, <2>2, <2>3, <2>4, EmptySeq, LenProperties
<1>3. /\ T = IF HasCert(chain.table, leaf) THEN chain.table
             ELSE Add(chain.table, NewRow(type, leaf, key, chain.parent))
      /\ HasRoom(Len(ordered)) /\ guess2 = guessed \cup NewLinks(T)
      /\ stray2 = IF key \in {NoKey, leaf.pub} THEN strayed ELSE strayed \cup {<<leaf.pub, key>>}
      /\ UNCHANGED <<file, files, pairs, serials>>
  BY DEF ImportFile
<1>4. /\ TableOK(rows, serials) /\ KeysOK(rows, strayed) /\ LinksOK(rows, guessed, strayed) /\ DOMAIN rows \subseteq Id
      /\ serials \in Nat
  BY PkiAssumption DEF IInv, TableOK
<1>5. Cardinality(DOMAIN rows) \in Nat /\ MaxRows \in Nat
  BY <1>4, FiniteTable
<1> HIDE DEF ordered
<1>6. /\ leaf \in Certificate /\ leaf.serial <= serials /\ k \in Nat /\ Cardinality(DOMAIN rows) + k < MaxRows
  <2>1. 1 \in 1..Len(ordered)
    BY <1>2
  <2>2. Cardinality(DOMAIN rows) + Len(ordered) <= MaxRows
    BY <1>3 DEF HasRoom
  <2>. QED
    BY <1>2, <1>5, <2>1, <2>2
<1>7. Grown(chain.table, chain.parent, k, strayed)
  <2>1. CASE chainAsCas
    BY <1>2, <1>3, <2>1, SaveChainFacts
  <2>2. CASE ~chainAsCas
    <3>1. Grown(rows, issuer, k, strayed)
      <4>1. Cardinality(DOMAIN rows) <= Cardinality(DOMAIN rows) + k
        BY <1>5, <1>6
      <4>. QED
        BY <1>4, <4>1 DEF Grown
    <3>. QED
      BY <2>2, <3>1
  <2>. QED
    BY <2>1, <2>2
<1> HIDE DEF chain, leaf, k
<1>8. Belongs(leaf, key, stray2) /\ strayed \subseteq stray2
  BY <1>3 DEF Belongs
<1> HIDE DEF T, guess2, stray2
<1>9. /\ TableOK(T, serials) /\ KeysOK(T, stray2)
      /\ DOMAIN rows \subseteq DOMAIN T /\ \A i \in DOMAIN rows : T[i] = rows[i]
  <2>1. CASE HasCert(chain.table, leaf)
    <3>1. T = chain.table /\ KeysOK(T, strayed)
      BY <1>3, <1>7, <2>1 DEF Grown
    <3>2. KeysOK(T, stray2)
      BY <1>8, <3>1 DEF KeysOK, Belongs
    <3>. QED
      BY <1>7, <3>1, <3>2 DEF Grown
  <2>2. CASE ~HasCert(chain.table, leaf)
    <3>1. Grown(T, FreshId(chain.table), k + 1, stray2)
      BY <1>3, <1>4, <1>6, <1>7, <1>8, <2>2, GrowFacts
    <3>. QED
      BY <3>1 DEF Grown
  <2>. QED
    BY <2>1, <2>2
<1>10. LinksOK(T, guess2, stray2)
  <2>1. ASSUME NEW j \in DOMAIN T, T[j].issuer # NoId
        PROVE  Linked(T[j].cert, T[T[j].issuer].cert, guess2, stray2)
    <3>1. CASE j \in DOMAIN rows
      <4>1. T[j] = rows[j] /\ rows[j].issuer \in DOMAIN rows /\ T[rows[j].issuer] = rows[rows[j].issuer]
        BY <1>4, <1>9, <2>1, <3>1 DEF TableOK
      <4>2. Linked(rows[j].cert, rows[rows[j].issuer].cert, guessed, strayed)
        BY <1>4, <2>1, <3>1, <4>1 DEF LinksOK
      <4>3. guessed \subseteq guess2
        BY <1>3
      <4>. QED
        BY <1>8, <4>1, <4>2, <4>3 DEF Linked
    <3>2. CASE j \notin DOMAIN rows
      <4>1. WrongLinks(T[j].cert, T[T[j].issuer].cert) \subseteq NewLinks(T)
        BY <2>1, <3>2 DEF NewLinks
      <4>2. WrongLinks(T[j].cert, T[T[j].issuer].cert) \subseteq guess2
        BY <1>3, <4>1
      <4>. QED
        BY <4>2, LinkedOnce
    <3>. QED
      BY <3>1, <3>2
  <2>. QED
    BY <2>1 DEF LinksOK
<1>. QED
  <2>1. guessed \subseteq guess2
    BY <1>3
  <2>. QED
    BY <1>3, <1>8, <1>9, <1>10, <2>1, StepKeeps DEF T, guess2, stray2

(***************************************************************************)
(* Bundles.                                                                *)
(***************************************************************************)

\* As many new names as are needed, all different.
LEMMA Names ==
    ASSUME NEW S, IsFiniteSet(S), NEW T, IsFiniteSet(T), Cardinality(S) <= Cardinality(T)
    PROVE  \E f \in [S -> T] : \A a, b \in S : f[a] = f[b] => a = b
<1>1. /\ Cardinality(S) \in Nat /\ ExistsBijection(1..Cardinality(S), S)
      /\ Cardinality(T) \in Nat /\ ExistsBijection(1..Cardinality(T), T)
  BY FS_CardinalityType
<1>2. ExistsInjection(S, 1..Cardinality(S)) /\ ExistsInjection(1..Cardinality(T), T)
  BY <1>1, Fun_ExistsBijEquiv
<1>3. ExistsInjection(1..Cardinality(S), 1..Cardinality(T))
  BY <1>1, Fun_NatInjLeq
<1>4. ExistsInjection(S, T)
  BY <1>2, <1>3, Fun_ExistsInjTransitive
<1>5. PICK f \in Injection(S, T) : TRUE
  BY <1>4 DEF ExistsInjection
<1>. QED
  BY <1>5, Fun_InjectionProperties

Bundle(items) ==
    /\ IsFiniteSet(items)
    /\ \A it \in items : ItemOK(it, serials, guessed, strayed)
    /\ \A a, b \in items : a.cert = b.cert => a = b

NewItems(items) == {it \in items : ~HasCert(rows, it.cert)}

\* The rows stay, but for keys they lacked, and there is a new one for each new certificate.
Merged(M, items) ==
    /\ DOMAIN rows \subseteq DOMAIN M /\ DOMAIN M \subseteq Id
    /\ \A i \in DOMAIN rows : /\ M[i] \in Row /\ M[i].cert = rows[i].cert /\ M[i].issuer = rows[i].issuer
                              /\ M[i].key = rows[i].key \/ Belongs(rows[i].cert, M[i].key, strayed)
    /\ \A i \in DOMAIN M \ DOMAIN rows : \E it \in NewItems(items) :
           M[i] \in Row /\ M[i].cert = it.cert /\ M[i].issuer = NoId /\ M[i].key = it.key
    /\ \A i, j \in DOMAIN M \ DOMAIN rows : M[i].cert = M[j].cert => i = j
    /\ \A it \in items : HasCert(M, it.cert)

LEMMA MergeFacts ==
    ASSUME IInv, NEW items, Bundle(items), HasRoom(Cardinality(NewItems(items))), NEW overwriteKey \in BOOLEAN
    PROVE  Merged(Merge(items, overwriteKey), items)
<1> DEFINE new == NewItems(items)
           free == Id \ DOMAIN rows
           Named(f) == f \in [new -> free] /\ \A a, b \in new : f[a] = f[b] => a = b
           ids == CHOOSE f \in [new -> free] : \A a, b \in new : f[a] = f[b] => a = b
           M == Merge(items, overwriteKey)
           merged(row, it) == IF it.key # NoKey /\ (row.key = NoKey \/ overwriteKey)
                              THEN [row EXCEPT !.key = it.key] ELSE row
           added(id) == LET it == CHOOSE a \in new : ids[a] = id
                        IN  NewRow(it.type, it.cert, it.key, NoId)
           named == {ids[it] : it \in new}
<1>1. /\ DOMAIN M = DOMAIN rows \cup named
      /\ \A i \in DOMAIN rows \cup named :
             M[i] = IF i \notin DOMAIN rows THEN added(i)
                    ELSE IF \E it \in items : it.cert = rows[i].cert
                         THEN merged(rows[i], CHOOSE it \in items : it.cert = rows[i].cert)
                    ELSE rows[i]
  BY DEF Merge, NewItems
<1>2. DOMAIN rows \subseteq Id
  BY DEF IInv, TableOK
<1>3. Named(ids)
  <2>1. IsFiniteSet(new)
    BY FS_Subset DEF Bundle, NewItems
  <2>2. /\ IsFiniteSet(free) /\ Cardinality(free) = MaxRows - Cardinality(DOMAIN rows)
        /\ Cardinality(DOMAIN rows) \in Nat /\ MaxRows \in Nat
    BY <1>2, FiniteTable
  <2>3. Cardinality(new) \in Nat /\ Cardinality(new) <= Cardinality(free)
    <3>1. Cardinality(DOMAIN rows) + Cardinality(new) <= MaxRows
      BY DEF HasRoom
    <3>2. Cardinality(new) \in Nat
      BY <2>1, FS_CardinalityType
    <3> HIDE DEF new, free
    <3>. QED
      BY <2>2, <3>1, <3>2
  <2>4. \E f \in [new -> free] : \A a, b \in new : f[a] = f[b] => a = b
    <3> HIDE DEF new, free
    <3>. QED
      BY <2>1, <2>2, <2>3, Names
  <2>. QED
    BY <2>4
<1> HIDE DEF M, ids
<1>4. \A i \in named : i \in Id \ DOMAIN rows
  BY <1>3
<1>5. ASSUME NEW it \in new
      PROVE  /\ ids[it] \in named /\ ids[it] \in DOMAIN M \ DOMAIN rows
             /\ M[ids[it]] = NewRow(it.type, it.cert, it.key, NoId)
  <2>1. ids[it] \in named /\ ids[it] \notin DOMAIN rows
    BY <1>4
  <2>2. (CHOOSE a \in new : ids[a] = ids[it]) = it
    BY <1>3
  <2>3. added(ids[it]) = NewRow(it.type, it.cert, it.key, NoId)
    BY <2>2
  <2> HIDE DEF added, named
  <2>. QED
    BY <1>1, <2>1, <2>3
<1>6. ASSUME NEW it \in items
      PROVE  /\ it \in Item /\ it.cert \in Certificate /\ it.type \in {"ca", "leaf"} /\ it.key \in Pair \cup {NoKey}
             /\ Belongs(it.cert, it.key, strayed)
  BY DEF Bundle, ItemOK, Item
<1>7. ASSUME NEW it \in new
      PROVE  LET row == NewRow(it.type, it.cert, it.key, NoId)
             IN  row \in Row /\ row.cert = it.cert /\ row.issuer = NoId /\ row.key = it.key
  <2>1. it \in items /\ NoId \in Link
    BY DEF NewItems, Link
  <2>. QED
    BY <1>6, <2>1, NewRowFacts
<1>8. ASSUME NEW i \in DOMAIN rows
      PROVE  /\ M[i] \in Row /\ M[i].cert = rows[i].cert /\ M[i].issuer = rows[i].issuer
             /\ M[i].key = rows[i].key \/ Belongs(rows[i].cert, M[i].key, strayed)
  <2>1. rows[i] \in Row
    BY IssuerFacts
  <2>2. CASE \E it \in items : it.cert = rows[i].cert
    <3> DEFINE it == CHOOSE a \in items : a.cert = rows[i].cert
    <3>1. it \in items /\ it.cert = rows[i].cert
      BY <2>2
    <3>2. M[i] = merged(rows[i], it)
      BY <1>1, <2>2
    <3> HIDE DEF it
    <3>3. M[i] \in {rows[i], [rows[i] EXCEPT !.key = it.key]}
      BY <3>2
    <3>4. it.key \in Pair \cup {NoKey} /\ Belongs(rows[i].cert, it.key, strayed)
      BY <1>6, <3>1
    <3>5. /\ [rows[i] EXCEPT !.key = it.key] \in Row
          /\ [rows[i] EXCEPT !.key = it.key].cert = rows[i].cert
          /\ [rows[i] EXCEPT !.key = it.key].issuer = rows[i].issuer
          /\ [rows[i] EXCEPT !.key = it.key].key = it.key
      BY <2>1, <3>4 DEF Row
    <3>. QED
      BY <2>1, <3>3, <3>4, <3>5
  <2>3. CASE ~\E it \in items : it.cert = rows[i].cert
    <3>1. M[i] = rows[i]
      BY <1>1, <2>3
    <3>. QED
      BY <2>1, <3>1
  <2>. QED
    BY <2>2, <2>3
<1>9. ASSUME NEW i \in DOMAIN M \ DOMAIN rows PROVE \E it \in new : i = ids[it]
  BY <1>1
<1>10. ASSUME NEW i \in DOMAIN M \ DOMAIN rows
       PROVE  \E it \in new : M[i] \in Row /\ M[i].cert = it.cert /\ M[i].issuer = NoId /\ M[i].key = it.key
  <2>1. PICK it \in new : i = ids[it]
    BY <1>9
  <2>. QED
    BY <1>5, <1>7, <2>1
<1>11. ASSUME NEW i \in DOMAIN M \ DOMAIN rows, NEW j \in DOMAIN M \ DOMAIN rows, M[i].cert = M[j].cert
       PROVE  i = j
  <2>1. PICK a \in new : i = ids[a]
    BY <1>9
  <2>2. PICK b \in new : j = ids[b]
    BY <1>9
  <2>3. M[i].cert = a.cert /\ M[j].cert = b.cert
    BY <1>5, <1>7, <2>1, <2>2
  <2>4. a \in items /\ b \in items
    BY DEF NewItems
  <2>5. a = b
    BY <1>11, <2>3, <2>4 DEF Bundle
  <2>. QED
    BY <2>1, <2>2, <2>5
<1>12. ASSUME NEW it \in items PROVE HasCert(M, it.cert)
  <2>1. CASE HasCert(rows, it.cert)
    <3>1. PICK i \in DOMAIN rows : rows[i].cert = it.cert
      BY <2>1 DEF HasCert
    <3>2. i \in DOMAIN M /\ M[i].cert = it.cert
      BY <1>1, <1>8, <3>1
    <3>. QED
      BY <3>2 DEF HasCert
  <2>2. CASE ~HasCert(rows, it.cert)
    <3>1. it \in new
      BY <2>2 DEF NewItems
    <3>2. ids[it] \in DOMAIN M /\ M[ids[it]].cert = it.cert
      BY <1>5, <1>7, <3>1
    <3>. QED
      BY <3>2 DEF HasCert
  <2>. QED
    BY <2>1, <2>2
<1>13. DOMAIN rows \subseteq DOMAIN M /\ DOMAIN M \subseteq Id
  BY <1>1, <1>2, <1>4
<1> HIDE DEF new
<1>14. Merged(M, items)
  BY <1>8, <1>10, <1>11, <1>12, <1>13 DEF Merged, new
<1>. QED
  BY <1>14 DEF M

LEMMA MergedKeep ==
    ASSUME IInv, NEW items, Bundle(items), NEW M, Merged(M, items)
    PROVE  TableOK(M, serials) /\ KeysOK(M, strayed) /\ LinksOK(M, guessed, strayed)
<1>1. TableOK(rows, serials) /\ KeysOK(rows, strayed) /\ LinksOK(rows, guessed, strayed)
  BY DEF IInv
<1>2. ASSUME NEW i \in DOMAIN M \ DOMAIN rows
      PROVE  /\ M[i] \in Row /\ M[i].issuer = NoId /\ M[i].cert.serial <= serials
             /\ Belongs(M[i].cert, M[i].key, strayed) /\ ~HasCert(rows, M[i].cert)
  <2>1. PICK it \in NewItems(items) :
            M[i] \in Row /\ M[i].cert = it.cert /\ M[i].issuer = NoId /\ M[i].key = it.key
    BY DEF Merged
  <2>2. it \in items /\ ~HasCert(rows, it.cert)
    BY DEF NewItems
  <2>3. it.cert.serial <= serials /\ Belongs(it.cert, it.key, strayed)
    BY <2>2 DEF Bundle, ItemOK
  <2>. QED
    BY <2>1, <2>2, <2>3
<1>3. ASSUME NEW i \in DOMAIN rows
      PROVE  /\ i \in DOMAIN M /\ M[i] \in Row /\ M[i].cert = rows[i].cert /\ M[i].issuer = rows[i].issuer
             /\ Belongs(rows[i].cert, M[i].key, strayed) /\ M[i].cert.serial <= serials
             /\ rows[i].issuer \in DOMAIN rows \cup {NoId}
  <2>1. /\ i \in DOMAIN M /\ M[i] \in Row /\ M[i].cert = rows[i].cert /\ M[i].issuer = rows[i].issuer
        /\ M[i].key = rows[i].key \/ Belongs(rows[i].cert, M[i].key, strayed)
    BY DEF Merged
  <2>2. Belongs(rows[i].cert, rows[i].key, strayed) /\ rows[i].cert.serial <= serials
    BY <1>1 DEF KeysOK, TableOK
  <2>. QED
    BY <1>1, <2>1, <2>2 DEF TableOK
<1>4. TableOK(M, serials)
  <2>1. ASSUME NEW i \in DOMAIN M
        PROVE  M[i] \in Row /\ M[i].issuer \in DOMAIN M \cup {NoId} /\ M[i].cert.serial <= serials
    BY <1>2, <1>3
  <2>2. ASSUME NEW i \in DOMAIN M, NEW j \in DOMAIN M, M[i].cert = M[j].cert PROVE i = j
    <3>1. CASE i \in DOMAIN rows /\ j \in DOMAIN rows
      <4>1. rows[i].cert = rows[j].cert
        BY <1>3, <2>2, <3>1
      <4>. QED
        BY <1>1, <3>1, <4>1 DEF TableOK
    <3>2. CASE i \in DOMAIN rows /\ j \notin DOMAIN rows
      <4>1. ~HasCert(rows, M[j].cert) /\ rows[i].cert = M[j].cert
        BY <1>2, <1>3, <2>2, <3>2
      <4>. QED
        BY <3>2, <4>1 DEF HasCert
    <3>3. CASE i \notin DOMAIN rows /\ j \in DOMAIN rows
      <4>1. ~HasCert(rows, M[i].cert) /\ rows[j].cert = M[i].cert
        BY <1>2, <1>3, <2>2, <3>3
      <4>. QED
        BY <3>3, <4>1 DEF HasCert
    <3>4. CASE i \notin DOMAIN rows /\ j \notin DOMAIN rows
      BY <2>2, <3>4 DEF Merged
    <3>. QED
      BY <3>1, <3>2, <3>3, <3>4
  <2>3. DOMAIN M \subseteq Id
    BY DEF Merged
  <2>. QED
    BY <2>1, <2>2, <2>3 DEF TableOK
<1>5. KeysOK(M, strayed)
  <2>1. \A i \in DOMAIN M : Belongs(M[i].cert, M[i].key, strayed)
    BY <1>2, <1>3
  <2>. QED
    BY <2>1 DEF KeysOK
<1>6. LinksOK(M, guessed, strayed)
  <2>1. ASSUME NEW i \in DOMAIN M, M[i].issuer # NoId
        PROVE  Linked(M[i].cert, M[M[i].issuer].cert, guessed, strayed)
    <3>1. i \in DOMAIN rows
      BY <1>2, <2>1
    <3>2. /\ M[i].cert = rows[i].cert /\ M[i].issuer = rows[i].issuer /\ rows[i].issuer \in DOMAIN rows
          /\ M[rows[i].issuer].cert = rows[rows[i].issuer].cert
      BY <1>3, <2>1, <3>1
    <3>3. Linked(rows[i].cert, rows[rows[i].issuer].cert, guessed, strayed)
      BY <1>1, <2>1, <3>1, <3>2 DEF LinksOK
    <3>. QED
      BY <3>2, <3>3
  <2>. QED
    BY <2>1 DEF LinksOK
<1>. QED
  BY <1>4, <1>5, <1>6

\* A row with an item in the bundle is linked to the issuer the item names, if that is there.
LEMMA RelinkFacts ==
    ASSUME NEW items, Bundle(items), NEW M, TableOK(M, serials)
    PROVE  /\ SameRows(M, Relink(M, items), guessed, strayed)
           /\ \A it \in items, i \in DOMAIN M : M[i].cert = it.cert /\ HasCert(M, it.issuer) =>
                  /\ Relink(M, items)[i].issuer \in DOMAIN M
                  /\ M[Relink(M, items)[i].issuer].cert = it.issuer
<1> DEFINE R == Relink(M, items)
           named(i) == {it.issuer : it \in {a \in items : a.cert = M[i].cert}}
           found(i) == {c \in named(i) : HasCert(M, c)}
           to(i) == IdOf(M, CHOOSE c \in found(i) : TRUE)
<1>1. /\ DOMAIN R = DOMAIN M
      /\ \A i \in DOMAIN M : R[i] = IF found(i) = {} THEN M[i] ELSE [M[i] EXCEPT !.issuer = to(i)]
  BY DEF Relink
<1>2. ASSUME NEW i \in DOMAIN M, NEW c \in found(i)
      PROVE  /\ HasCert(M, c) /\ IdOf(M, c) \in DOMAIN M /\ M[IdOf(M, c)].cert = c
             /\ Linked(M[i].cert, c, guessed, strayed)
  <2>1. HasCert(M, c) /\ \E it \in items : it.cert = M[i].cert /\ c = it.issuer
    OBVIOUS
  <2>2. PICK it \in items : it.cert = M[i].cert /\ c = it.issuer
    BY <2>1
  <2>3. IdOf(M, c) \in DOMAIN M /\ M[IdOf(M, c)].cert = c
    BY <2>1 DEF HasCert, IdOf
  <2>4. c # NoCert
    <3>1. c.serial \in 1..MaxSerial
      BY <2>3 DEF TableOK, Row, Certificate
    <3>2. NoCert.serial = 0 /\ 0 \notin 1..MaxSerial
      BY PkiAssumption DEF NoCert
    <3>. QED
      BY <3>1, <3>2
  <2>5. Linked(it.cert, it.issuer, guessed, strayed)
    BY <2>2, <2>4 DEF Bundle, ItemOK
  <2>. QED
    BY <2>1, <2>2, <2>3, <2>5
<1>3. ASSUME NEW i \in DOMAIN M, found(i) # {}
      PROVE  \E c \in found(i) : to(i) = IdOf(M, c)
  BY <1>3
<1> HIDE DEF R
<1>4. ASSUME NEW i \in DOMAIN M
      PROVE  /\ R[i] \in Row /\ R[i].cert = M[i].cert /\ R[i].key = M[i].key
             /\ found(i) = {} => R[i].issuer = M[i].issuer
             /\ found(i) # {} => R[i].issuer = to(i) /\ to(i) \in DOMAIN M
  <2> HIDE DEF found, to
  <2>1. M[i] \in Row /\ DOMAIN M \subseteq Id
    BY DEF TableOK
  <2>2. CASE found(i) = {}
    BY <1>1, <2>1, <2>2
  <2>3. CASE found(i) # {}
    <3>1. to(i) \in DOMAIN M /\ to(i) \in Id
      BY <1>2, <1>3, <2>1, <2>3
    <3>2. R[i] = [M[i] EXCEPT !.issuer = to(i)]
      BY <1>1, <2>3
    <3>3. R[i] \in Row /\ R[i].cert = M[i].cert /\ R[i].key = M[i].key /\ R[i].issuer = to(i)
      BY <2>1, <3>1, <3>2 DEF Row
    <3>. QED
      BY <2>3, <3>1, <3>3
  <2>. QED
    BY <2>2, <2>3
<1>5. SameRows(M, R, guessed, strayed)
  <2>1. ASSUME NEW i \in DOMAIN M
        PROVE  \/ R[i].issuer \in {M[i].issuer, NoId}
               \/ R[i].issuer \in DOMAIN M /\ Linked(M[i].cert, M[R[i].issuer].cert, guessed, strayed)
    <3> HIDE DEF found, to
    <3>1. CASE found(i) = {}
      BY <1>4, <3>1
    <3>2. CASE found(i) # {}
      <4>1. PICK c \in found(i) : to(i) = IdOf(M, c)
        BY <1>3, <3>2
      <4>2. M[to(i)].cert = c /\ Linked(M[i].cert, c, guessed, strayed)
        BY <1>2, <4>1
      <4>. QED
        BY <1>4, <3>2, <4>2
    <3>. QED
      BY <3>1, <3>2
  <2>2. DOMAIN R = DOMAIN M
    BY <1>1
  <2> HIDE DEF found, to
  <2>. QED
    BY <1>4, <2>1, <2>2 DEF SameRows
<1>6. ASSUME NEW it \in items, NEW i \in DOMAIN M, M[i].cert = it.cert, HasCert(M, it.issuer)
      PROVE  R[i].issuer \in DOMAIN M /\ M[R[i].issuer].cert = it.issuer
  <2>1. \A a \in items : a.cert = M[i].cert => a = it
    BY <1>6 DEF Bundle
  <2>2. \A c : c \in found(i) <=> c = it.issuer
    BY <1>6, <2>1
  <2> HIDE DEF found, to
  <2>3. found(i) # {}
    BY <2>2
  <2>4. PICK c \in found(i) : to(i) = IdOf(M, c)
    BY <1>3, <2>3
  <2>5. M[to(i)].cert = it.issuer
    BY <1>2, <2>2, <2>4
  <2>. QED
    BY <1>4, <2>3, <2>5
<1>. QED
  BY <1>5, <1>6 DEF R

LEMMA ImportBundleFacts ==
    ASSUME IInv, file.is = "bundle", NEW overwriteKey \in BOOLEAN, ImportBundle(file.items, overwriteKey)
    PROVE  /\ IInv'
           /\ \A a, b \in file.items : a.issuer = b.cert =>
                  \E i, p \in DOMAIN rows' :
                      rows'[i].cert = a.cert /\ rows'[i].issuer = p /\ rows'[p].cert = b.cert
<1> DEFINE items == file.items
           M == Merge(items, overwriteKey)
           T == rows'
           n == serials
<1>1. Bundle(items)
  BY DEF IInv, FileOK, NoFile, Bundle
<1>2. /\ HasRoom(Cardinality(NewItems(items))) /\ T = Relink(M, items)
      /\ UNCHANGED <<file, files, pairs, serials>> /\ guessed' = guessed /\ strayed' = strayed
  BY DEF ImportBundle, NewItems, history
<1>3. Merged(M, items)
  BY <1>1, <1>2, MergeFacts
<1> HIDE DEF items, M, T, n
<1>4. TableOK(M, serials) /\ KeysOK(M, strayed) /\ LinksOK(M, guessed, strayed)
  BY <1>1, <1>3, MergedKeep
<1>5. /\ SameRows(M, T, guessed, strayed)
      /\ \A it \in items, i \in DOMAIN M : M[i].cert = it.cert /\ HasCert(M, it.issuer) =>
             T[i].issuer \in DOMAIN M /\ M[T[i].issuer].cert = it.issuer
  BY <1>1, <1>2, <1>4, RelinkFacts
<1>6. TableOK(T, n) /\ KeysOK(T, strayed) /\ LinksOK(T, guessed, strayed)
  <2>1. n \in Nat /\ TableOK(M, n) /\ guessed \subseteq guessed
    BY <1>4, PkiAssumption DEF IInv, n
  <2>. QED
    BY <1>4, <1>5, <2>1, SameRowsKeep
<1>7. IInv'
  <2>1. TableOK(rows', serials) /\ KeysOK(rows', strayed') /\ LinksOK(rows', guessed', strayed')
    BY <1>2, <1>6 DEF T, n
  <2>. QED
    BY <1>2, <2>1, StepKeeps
<1>8. ASSUME NEW a \in items, NEW b \in items, a.issuer = b.cert
      PROVE  \E i, p \in DOMAIN T : T[i].cert = a.cert /\ T[i].issuer = p /\ T[p].cert = b.cert
  <2>1. HasCert(M, a.cert) /\ HasCert(M, a.issuer)
    BY <1>3, <1>8 DEF Merged
  <2>2. PICK i \in DOMAIN M : M[i].cert = a.cert
    BY <2>1 DEF HasCert
  <2>3. T[i].issuer \in DOMAIN M /\ M[T[i].issuer].cert = b.cert
    BY <1>5, <1>8, <2>1, <2>2
  <2>4. DOMAIN T = DOMAIN M /\ \A j \in DOMAIN M : T[j].cert = M[j].cert
    BY <1>5 DEF SameRows
  <2>. QED
    BY <2>2, <2>3, <2>4
<1>. QED
  BY <1>7, <1>8 DEF items, T

(***************************************************************************)
(* The audit.                                                              *)
(***************************************************************************)

LEMMA AuditFacts ==
    ASSUME IInv, FixIssuers(Fixable)
    PROVE  /\ Fixable' = {}
           /\ \A i \in DOMAIN rows : rows'[i].issuer # rows[i].issuer =>
                  Verifies(rows'[rows'[i].issuer].cert, rows'[i].cert)
<1>1. PICK to \in [Fixable -> Cas] :
          /\ \A i \in Fixable : to[i] \in FindCandidateIssuer(i)
          /\ rows' = [i \in DOMAIN rows |-> IF i \in Fixable THEN [rows[i] EXCEPT !.issuer = to[i]] ELSE rows[i]]
  BY DEF FixIssuers
<1>2. DOMAIN rows' = DOMAIN rows
  BY <1>1
<1>3. ASSUME NEW i \in DOMAIN rows
      PROVE  /\ rows'[i].cert = rows[i].cert /\ rows'[i].type = rows[i].type
             /\ i \in Fixable => rows'[i].issuer = to[i]
             /\ i \notin Fixable => rows'[i].issuer = rows[i].issuer
             /\ rows[i].issuer \in DOMAIN rows \cup {NoId}
  <2>1. rows[i] \in Row /\ rows[i].issuer \in DOMAIN rows \cup {NoId}
    BY IssuerFacts
  <2>2. CASE i \in Fixable
    <3>1. rows'[i] = [rows[i] EXCEPT !.issuer = to[i]]
      BY <1>1, <2>2
    <3>. QED
      BY <2>1, <2>2, <3>1 DEF Row
  <2>3. CASE i \notin Fixable
    <3>1. rows'[i] = rows[i]
      BY <1>1, <2>3
    <3>. QED
      BY <2>1, <2>3, <3>1
  <2>. QED
    BY <2>2, <2>3
<1>4. ASSUME NEW i \in Fixable
      PROVE  /\ i \in DOMAIN rows /\ rows'[i].issuer = to[i] /\ to[i] \in DOMAIN rows /\ to[i] # NoId
             /\ Verifies(rows'[to[i]].cert, rows'[i].cert) /\ rows'[to[i]].cert.subject = rows'[i].cert.issuer
  <2>1. i \in DOMAIN rows /\ to[i] \in FindCandidateIssuer(i)
    BY <1>1 DEF Fixable
  <2>2. /\ to[i] \in DOMAIN rows /\ Verifies(rows[to[i]].cert, rows[i].cert)
        /\ rows[to[i]].cert.subject = rows[i].cert.issuer
    BY <2>1, CandidateFacts
  <2>3. to[i] # NoId
    BY <2>2, IssuerFacts
  <2>. QED
    BY <1>3, <2>1, <2>2, <2>3
<1>5. ASSUME NEW i \in DOMAIN rows, IssuerFinding(i)', NEW ca \in FindCandidateIssuer(i)' PROVE FALSE
  <2>1. CASE i \in Fixable
    <3>1. rows'[i].issuer = to[i]
      BY <1>4, <2>1
    <3>. QED
      BY <1>4, <1>5, <2>1, <3>1 DEF IssuerFinding
  <2>2. CASE i \notin Fixable
    <3>1. IssuerFinding(i)
      <4>1. rows'[i].issuer = rows[i].issuer /\ rows'[i].cert = rows[i].cert /\ rows'[i].type = rows[i].type
        BY <1>3, <2>2
      <4>2. CASE rows[i].issuer = NoId
        BY <1>5, <4>1, <4>2 DEF IssuerFinding, ExpectsParent
      <4>3. CASE rows[i].issuer # NoId
        <5>1. rows'[rows[i].issuer].cert = rows[rows[i].issuer].cert
          BY <1>3, <4>3
        <5>. QED
          BY <1>5, <4>1, <4>3, <5>1 DEF IssuerFinding
      <4>. QED
        BY <4>2, <4>3
    <3>2. ca \in FindCandidateIssuer(i)
      <4>1. /\ ca \in DOMAIN rows /\ rows'[ca].type = "ca" /\ ca # i
            /\ rows'[ca].cert.subject = rows'[i].cert.issuer /\ Verifies(rows'[ca].cert, rows'[i].cert)
        BY <1>2, <1>5 DEF FindCandidateIssuer, Cas
      <4>2. /\ rows[ca].type = "ca" /\ rows[ca].cert.subject = rows[i].cert.issuer
            /\ Verifies(rows[ca].cert, rows[i].cert)
        BY <1>3, <4>1
      <4>. QED
        BY <4>1, <4>2 DEF FindCandidateIssuer, Cas
    <3>. QED
      BY <2>2, <3>1, <3>2 DEF Fixable
  <2>. QED
    BY <2>1, <2>2
<1>6. Fixable' = {}
  BY <1>2, <1>5 DEF Fixable
<1>7. ASSUME NEW i \in DOMAIN rows, rows'[i].issuer # rows[i].issuer
      PROVE  Verifies(rows'[rows'[i].issuer].cert, rows'[i].cert)
  <2>1. i \in Fixable
    BY <1>3, <1>7
  <2>. QED
    BY <1>4, <2>1
<1>. QED
  BY <1>6, <1>7

(***************************************************************************)
(* Theorems.                                                               *)
(***************************************************************************)

LEMMA NextKeeps == IInv /\ [Next]_vars => IInv'
<1> SUFFICES ASSUME IInv, [Next]_vars PROVE IInv'
  OBVIOUS
<1>1. CASE \E name \in DN : CreateCa(name)
  BY <1>1, CreateCaKeeps
<1>2. CASE \E i \in DOMAIN rows, name \in DN : IssueIntermediate(i, name) \/ IssueCert(i, name)
  BY <1>2, IssueKeeps
<1>3. CASE \E i \in DOMAIN rows : RenewRoot(i) \/ RenewIssued(i)
  BY <1>3, SignAgainKeeps
<1>4. CASE \E i \in DOMAIN rows : ToggleRevoked(i) \/ Delete(i)
  BY <1>4, ToggleKeeps, DeleteKeeps
<1>5. CASE \E i \in DOMAIN rows : ExportChain(i) \/ ExportSubtree(i)
  BY <1>5, ExportChainKeeps, ExportSubtreeKeeps
<1>6. CASE \E i \in DOMAIN rows, ca \in Cas : Resign(i, ca) \/ Attach(i, ca)
  BY <1>6, SignAgainKeeps, AttachKeeps
<1>7. CASE \E i \in DOMAIN rows, includeParents \in BOOLEAN : ExportCert(i, includeParents)
  BY <1>7, ExportCertKeeps
<1>8. CASE /\ file.is = "pem"
           /\ \E type \in {"ca", "leaf"}, chainAsCas \in BOOLEAN, issuer \in Cas \cup {NoId},
                 key \in {NoKey} \cup 1..pairs :
                    ImportFile(file.certs, type, chainAsCas, issuer, key)
  <2>1. PICK type \in {"ca", "leaf"}, chainAsCas \in BOOLEAN, issuer \in Cas \cup {NoId},
             key \in {NoKey} \cup 1..pairs :
                ImportFile(file.certs, type, chainAsCas, issuer, key)
    BY <1>8
  <2>2. issuer \in DOMAIN rows \cup {NoId}
    BY DEF Cas
  <2>3. key \in Pair \cup {NoKey}
    BY PkiAssumption DEF IInv, Pair
  <2>. QED
    BY <1>8, <2>1, <2>2, <2>3, ImportFileKeeps
<1>9. CASE file.is = "bundle" /\ \E overwriteKey \in BOOLEAN : ImportBundle(file.items, overwriteKey)
  BY <1>9, ImportBundleFacts
<1>10. CASE OpenEmptyContext
  BY <1>10, EmptyKeeps
<1>11. CASE \E S \in {Fixable} \cup {{i} : i \in Fixable} : FixIssuers(S)
  BY <1>11, FixKeeps
<1>12. CASE UNCHANGED vars
  <2>1. /\ rows' = rows /\ file' = file /\ files' = files /\ pairs' = pairs /\ serials' = serials
        /\ strayed' = strayed /\ guessed' = guessed
    BY <1>12 DEF vars, history
  <2>. QED
    BY <2>1 DEF IInv
<1>. QED
  BY <1>1, <1>2, <1>3, <1>4, <1>5, <1>6, <1>7, <1>8, <1>9, <1>10, <1>11, <1>12 DEF Next

\* The inductive invariant of the certificates of a context and of the file exported last.
THEOREM Invariance == Spec => []IInv
<1>1. Init => IInv
  BY InitIInv
<1>2. IInv /\ [Next]_vars => IInv'
  BY NextKeeps
<1>. QED
  BY <1>1, <1>2, PTL DEF Spec

\* Links lead to rows, and rows and files hold what they may hold.
THEOREM TypeCorrect == Spec => []TypeOK
<1>1. IInv => TypeOK
  <2> SUFFICES ASSUME IInv PROVE TypeOK
    OBVIOUS
  <2>1. /\ DOMAIN rows \subseteq Id
        /\ \A i \in DOMAIN rows : rows[i] \in Row /\ rows[i].issuer \in DOMAIN rows \cup {NoId}
    BY DEF IInv, TableOK
  <2>2. \/ file = NoFile
        \/ file.is = "pem" /\ file.certs \in Seq(Certificate)
        \/ file.is = "bundle" /\ \A it \in file.items : it \in Item
    BY DEF IInv, FileOK, ItemOK
  <2>. QED
    BY <2>1, <2>2 DEF IInv, TypeOK
<1>. QED
  BY <1>1, Invariance, PTL

\* renewCert, resignCertificateCore, saveImport, the bundle import: a private key lies in the
\* row of its certificate, unless a user once picked the key file of another pair.
THEOREM KeysWhereTheyBelong == Spec => []KeysBelong
<1>1. IInv => KeysBelong
  BY DEF IInv, KeysOK, Belongs, KeysBelong
<1>. QED
  BY <1>1, Invariance, PTL

\* renewCert, resign, insertCertItem, relinkIssuer: the linked issuer names and verifies the
\* certificate, unless the link was chosen or guessed, or the issuer signed with a stray key.
THEOREM LinksVerified == Spec => []LinksVerify
<1>1. IInv => LinksVerify
  BY DEF IInv, LinksOK, Linked, LinksVerify
<1>. QED
  BY <1>1, Invariance, PTL

\* verifyCert, buildChain: what is accepted has no revoked row and no wrong signature above
\* it, and is not part of a cycle of links, however long the chain is.
THEOREM VerifiedChainsSound == Spec => []VerifiedMeansSound
<1>1. IInv => VerifiedMeansSound
  BY VerifiedSound DEF IInv
<1>. QED
  BY <1>1, Invariance, PTL

\* insertCertItem and the relinking after it: every link inside a bundle is a link of the
\* context that imported it, whichever of the certificates that context had.
THEOREM BundlesKeepLinks == Spec => BundleKeepsLinks
<1>1. IInv => \A overwriteKey \in BOOLEAN : file.is = "bundle" /\ ImportBundle(file.items, overwriteKey) =>
                 \A a, b \in file.items : a.issuer = b.cert =>
                    \E i, p \in DOMAIN rows' :
                        rows'[i].cert = a.cert /\ rows'[i].issuer = p /\ rows'[p].cert = b.cert
  BY ImportBundleFacts
<1>. QED
  BY <1>1, Invariance, PTL DEF BundleKeepsLinks

\* relinkIssuer and the audit's report: after all fixes a new audit has none to offer, and
\* each link that changed is to an issuer that verifies the certificate.
THEOREM AuditsSettle == Spec => AuditSettles
<1>1. ASSUME IInv, FixIssuers(Fixable)
      PROVE  /\ Fixable' = {}
             /\ \A i \in DOMAIN rows : rows'[i].issuer # rows[i].issuer =>
                    Verifies(rows'[rows'[i].issuer].cert, rows'[i].cert)
  BY <1>1, AuditFacts
<1>. QED
  BY <1>1, Invariance, PTL DEF AuditSettles

===============================================================================
