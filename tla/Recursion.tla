------------------------------ MODULE Recursion ------------------------------
(***************************************************************************)
(* What the proofs about recursive functions rest on.  A definition        *)
(* f[x \in S] == ... chooses a function that satisfies its equation, so    *)
(* the first thing to show of it is that there is one; LeastSolution gives *)
(* it for functions that collect a set along the edges of a graph, and for *)
(* those that follow one edge from each node.  Induction is over sets, by  *)
(* a first number that is not in the set.                                  *)
(***************************************************************************)
EXTENDS Integers, WellFoundedInduction, TLAPS

\* A set of numbers has a least one.
LEMMA LeastNumber ==
  ASSUME NEW T, T \subseteq Nat, T # {}
  PROVE  \E n \in T : \A m \in T : n <= m
<1> DEFINE R == OpToRel(<, Nat)
<1>1. IsWellFoundedOn(R, Nat)
  BY NatLessThanWellFounded
<1>2. \A x, y \in Nat : x < y => <<x, y>> \in R
  BY DEF OpToRel
<1> HIDE DEF R
<1>3. PICK n \in T : \A m \in T : ~(<<m, n>> \in R)
  BY <1>1, WFMin
<1>4. ASSUME NEW m \in T PROVE ~(m < n)
  <2>1. m \in Nat /\ n \in Nat
    OBVIOUS
  <2> QED
    BY <1>2, <1>3, <2>1, Zenon
<1>5. \A m \in T : n <= m
  BY <1>4
<1> QED
  BY <1>5

\* A set of numbers that are not greater than n has a greatest one.
LEMMA GreatestNumber ==
  ASSUME NEW n \in Nat, NEW T, T \subseteq 1..n, T # {}
  PROVE  \E i \in T : \A j \in T : j <= i
<1> DEFINE R == {n - i : i \in T}
<1>0. \A i \in T : i \in Nat /\ n - i \in Nat
  OBVIOUS
<1>1. R \subseteq Nat /\ R # {}
  BY <1>0
<1>2. PICK m \in R : \A j \in R : m <= j
  <2> HIDE DEF R
  <2> QED
    BY <1>1, LeastNumber
<1>3. PICK i \in T : m = n - i
  BY <1>2
<1>4. ASSUME NEW j \in T PROVE j <= i
  <2>1. n - j \in R
    OBVIOUS
  <2>2. n - i <= n - j
    BY <1>2, <1>3, <2>1
  <2> QED
    BY <2>2
<1> QED
  BY <1>4

\* Induction up to a number.
LEMMA CountingUp ==
  ASSUME NEW n \in Nat, NEW G, 0 \in G, \A k \in 0..(n - 1) : k \in G => k + 1 \in G
  PROVE  0..n \subseteq G
<1> DEFINE T == 0..n \ G
<1>1. ASSUME T # {} PROVE FALSE
  <2>0. T \subseteq Nat
    OBVIOUS
  <2>1. PICK k \in T : \A j \in T : k <= j
    <3> HIDE DEF T
    <3> QED
      BY <1>1, <2>0, LeastNumber
  <2>2. k \in Nat /\ k # 0 /\ k - 1 \in 0..(n - 1) /\ k - 1 \notin T /\ (k - 1) + 1 = k
    BY <2>1
  <2> QED
    BY <2>1, <2>2
<1> QED
  BY <1>1

\* What can be reached from x along kids.
Closed(S, kids, C) == \A z \in C : kids[z] \subseteq C
Reached(S, kids, x) == {z \in S : \A C \in SUBSET S : x \in C /\ Closed(S, kids, C) => z \in C}

\* It is x and what can be reached from its kids.
LEMMA ReachedUnfolds ==
  ASSUME NEW S, NEW kids, \A x \in S : kids[x] \subseteq S, NEW x \in S
  PROVE  Reached(S, kids, x) = {x} \cup UNION {Reached(S, kids, y) : y \in kids[x]}
<1> DEFINE C == {x} \cup UNION {Reached(S, kids, y) : y \in kids[x]}
<1>1. C \subseteq Reached(S, kids, x)
  <2>1. x \in Reached(S, kids, x)
    BY DEF Reached
  <2>2. ASSUME NEW y \in kids[x], NEW z \in Reached(S, kids, y)
        PROVE  z \in Reached(S, kids, x)
    BY <2>2 DEF Reached, Closed
  <2> QED
    BY <2>1, <2>2
<1>2. Reached(S, kids, x) \subseteq C
  <2>1. C \in SUBSET S
    BY DEF Reached
  <2>2. ASSUME NEW z \in C PROVE kids[z] \subseteq C
    <3>1. CASE z = x
      <4>1. \A y \in kids[x] : y \in Reached(S, kids, y)
        BY DEF Reached
      <4> QED
        BY <3>1, <4>1
    <3>2. CASE z # x
      <4>1. PICK y \in kids[x] : z \in Reached(S, kids, y)
        BY <3>2
      <4>2. kids[z] \subseteq Reached(S, kids, y)
        BY <4>1 DEF Reached, Closed
      <4> QED
        BY <4>2
    <3> QED
      BY <3>1, <3>2
  <2>3. Closed(S, kids, C) /\ x \in C
    BY <2>2 DEF Closed
  <2> HIDE DEF C
  <2> QED
    BY <2>1, <2>3 DEF Reached
<1> QED
  BY <1>1, <1>2

\* The equation of a function that collects a base from each argument and its kids.
Solves(f, S, base, kids) == f = [x \in S |-> base[x] \cup UNION {f[y] : y \in kids[x]}]

\* A function that collects a base from each argument and from its kids exists.
LEMMA LeastSolution ==
  ASSUME NEW S, NEW base, NEW kids, \A x \in S : kids[x] \subseteq S
  PROVE  \E f : Solves(f, S, base, kids)
<1> DEFINE f == [x \in S |-> UNION {base[z] : z \in Reached(S, kids, x)}]
<1>1. ASSUME NEW x \in S PROVE f[x] = base[x] \cup UNION {f[y] : y \in kids[x]}
  <2>1. \A y \in kids[x] : f[y] = UNION {base[z] : z \in Reached(S, kids, y)}
    OBVIOUS
  <2>2. UNION {base[z] : z \in Reached(S, kids, x)}
          = base[x] \cup UNION {UNION {base[z] : z \in Reached(S, kids, y)} : y \in kids[x]}
    BY ReachedUnfolds
  <2> QED
    BY <2>1, <2>2
<1>2. f = [x \in S |-> f[x]]
  OBVIOUS
<1> HIDE DEF f
<1>3. Solves(f, S, base, kids)
  BY <1>1, <1>2 DEF Solves
<1> QED
  BY <1>3

\* The equation of a function that follows one edge from each argument until it
\* stops.
Follows(f, S, stops, out, next) ==
  f = [x \in S |-> IF x \in stops THEN out[x] ELSE f[next[x]]]

\* A function that does so exists.
LEMMA TailRecursion ==
  ASSUME NEW S, NEW stops \in SUBSET S, NEW out, NEW next,
         \A x \in S \ stops : next[x] \in S
  PROVE  \E f : Follows(f, S, stops, out, next)
<1> DEFINE base == [x \in S |-> IF x \in stops THEN {out[x]} ELSE {}]
           kids == [x \in S |-> IF x \in stops THEN {} ELSE {next[x]}]
<1>1. \A x \in S : kids[x] \subseteq S
  OBVIOUS
<1>2. PICK g : Solves(g, S, base, kids)
  <2> HIDE DEF base, kids
  <2> QED
    BY <1>1, LeastSolution
<1>3. \A x \in S : g[x] = base[x] \cup UNION {g[y] : y \in kids[x]}
  BY <1>2 DEF Solves
<1>4. \A x \in stops : g[x] = {out[x]}
  BY <1>3
<1>5. ASSUME NEW x \in S \ stops PROVE g[x] = g[next[x]]
  <2>1. base[x] = {} /\ kids[x] = {next[x]} /\ x \in S
    OBVIOUS
  <2> HIDE DEF base, kids
  <2>2. g[x] = {} \cup UNION {g[y] : y \in {next[x]}}
    BY <1>3, <2>1
  <2> QED
    BY <2>2
<1> DEFINE f == [x \in S |-> CHOOSE v : v \in g[x]]
<1>6. ASSUME NEW x \in S PROVE f[x] = IF x \in stops THEN out[x] ELSE f[next[x]]
  <2>1. CASE x \in stops
    <3>1. (CHOOSE v : v \in g[x]) \in g[x]
      BY <1>4, <2>1
    <3> QED
      BY <1>4, <2>1, <3>1
  <2>2. CASE x \notin stops
    BY <1>5, <2>2
  <2> QED
    BY <2>1, <2>2
<1>7. f = [x \in S |-> f[x]]
  OBVIOUS
<1> HIDE DEF f
<1>8. Follows(f, S, stops, out, next)
  BY <1>6, <1>7 DEF Follows
<1> QED
  BY <1>8

\* What n steps make of a value, the k-th by step[k].
Iterates(f, n, a, step) == f = [k \in 0..n |-> IF k = 0 THEN a ELSE step[k][f[k - 1]]]

\* It exists where the steps stay in a set.
LEMMA Iteration ==
  ASSUME NEW n \in Nat, NEW A, NEW a \in A, NEW step \in [1..n -> [A -> A]]
  PROVE  \E f \in [0..n -> A] : Iterates(f, n, a, step)
<1> DEFINE Upto(k, f) == f[0] = a /\ \A j \in 1..k : f[j] = step[j][f[j - 1]]
           G == {k \in 0..n : \E f \in [0..n -> A] : Upto(k, f)}
<1>1. 0 \in G
  <2> DEFINE f == [k \in 0..n |-> a]
  <2>1. f \in [0..n -> A] /\ f[0] = a
    OBVIOUS
  <2> HIDE DEF f
  <2>2. Upto(0, f)
    BY <2>1
  <2> HIDE DEF Upto
  <2> QED
    BY <2>1, <2>2
<1>2. ASSUME NEW k \in 0..(n - 1), k \in G PROVE k + 1 \in G
  <2>1. PICK f \in [0..n -> A] : Upto(k, f)
    BY <1>2
  <2> DEFINE g == [f EXCEPT ![k + 1] = step[k + 1][f[k]]]
  <2>2. k \in 0..n /\ k + 1 \in 1..n /\ k + 1 \in 0..n
    OBVIOUS
  <2>3. step[k + 1] \in [A -> A] /\ f[k] \in A
    BY <2>2
  <2>4. g \in [0..n -> A]
    BY <2>2, <2>3
  <2>5. g[0] = a
    BY <2>1, <2>2
  <2>6. ASSUME NEW j \in 1..(k + 1) PROVE g[j] = step[j][g[j - 1]]
    <3>1. CASE j = k + 1
      <4>1. g[k + 1] = step[k + 1][f[k]] /\ g[k] = f[k]
        BY <2>2
      <4> QED
        BY <3>1, <4>1, <2>2
    <3>2. CASE j # k + 1
      <4>1. j \in 1..k /\ j \in 0..n /\ j - 1 \in 0..n /\ j - 1 # k + 1
        BY <3>2
      <4>2. g[j] = f[j] /\ g[j - 1] = f[j - 1]
        BY <3>2, <4>1
      <4> QED
        BY <2>1, <4>1, <4>2
    <3> QED
      BY <3>1, <3>2
  <2>7. Upto(k + 1, g)
    BY <2>5, <2>6
  <2> HIDE DEF g, Upto
  <2> QED
    BY <2>2, <2>4, <2>7
<1>3. n \in G
  <2> HIDE DEF G
  <2>1. 0..n \subseteq G
    BY <1>1, <1>2, CountingUp
  <2> QED
    BY <2>1
<1>4. PICK f \in [0..n -> A] : Upto(n, f)
  BY <1>3
<1>5. \A k \in 0..n : f[k] = IF k = 0 THEN a ELSE step[k][f[k - 1]]
  BY <1>4
<1>6. Iterates(f, n, a, step)
  BY <1>5 DEF Iterates
<1> QED
  BY <1>6

\* Induction from the end of a sequence to its beginning.
LEMMA CountingDown ==
  ASSUME NEW n \in Nat, NEW G, \A i \in Nat : i > n => i \in G,
         \A i \in 1..n : (\A j \in Nat : j > i => j \in G) => i \in G
  PROVE  \A i \in Nat \ {0} : i \in G
<1> DEFINE T == {k \in 0..n : n - k \in 1..n /\ n - k \notin G}
<1>1. ASSUME T # {} PROVE FALSE
  <2>0. T \subseteq Nat
    OBVIOUS
  <2>1. PICK k \in T : \A j \in T : k <= j
    <3> HIDE DEF T
    <3> QED
      BY <1>1, <2>0, LeastNumber
  <2>2. ASSUME NEW j \in Nat, j > n - k PROVE j \in G
    <3>1. CASE j > n
      BY <3>1
    <3>2. CASE j <= n
      <4>1. n - j \in 0..n /\ n - (n - j) = j /\ j \in 1..n /\ ~(k <= n - j)
        BY <2>1, <2>2, <3>2
      <4> QED
        BY <2>1, <4>1
    <3> QED
      BY <2>2, <3>1, <3>2
  <2> QED
    BY <2>1, <2>2
<1>2. ASSUME NEW i \in Nat \ {0}, i \notin G PROVE FALSE
  <2>1. i <= n
    BY <1>2
  <2>2. n - i \in 0..n /\ n - (n - i) = i /\ i \in 1..n
    BY <2>1
  <2>3. n - i \in T
    BY <1>2, <2>2
  <2> QED
    BY <1>1, <2>3
<1> QED
  BY <1>2

\* The equation of a function that makes its value of that of one other argument,
\* until it stops.
Unwinds(f, S, stops, out, next, step) ==
  f = [x \in S |-> IF x \in stops THEN out[x] ELSE step[x][f[next[x]]]]

\* The pairs of arguments and values that the equation forces.
Forced(C, S, stops, out, next, step) ==
  /\ \A x \in stops : <<x, out[x]>> \in C
  /\ \A x \in S \ stops : \A a : <<next[x], a>> \in C => <<x, step[x][a]>> \in C

\* Such a function exists where the arguments come closer to an end.
LEMMA Unwinding ==
  ASSUME NEW S, NEW A, NEW stops \in SUBSET S, NEW out, NEW next, NEW step, NEW rank,
         \A x \in S : rank[x] \in Nat,
         \A x \in stops : out[x] \in A,
         \A x \in S \ stops : /\ next[x] \in S /\ rank[next[x]] < rank[x]
                              /\ step[x] \in [A -> A]
  PROVE  \E f \in [S -> A] : Unwinds(f, S, stops, out, next, step)
<1> DEFINE Ok(C) == Forced(C, S, stops, out, next, step)
           R == {p \in S \X A : \A C \in SUBSET (S \X A) : Ok(C) => p \in C}
<1>1. Ok(R)
  <2>1. ASSUME NEW x \in stops PROVE <<x, out[x]>> \in R
    BY DEF Forced
  <2>2. ASSUME NEW x \in S \ stops, NEW a, <<next[x], a>> \in R
        PROVE  <<x, step[x][a]>> \in R
    <3>1. a \in A /\ step[x][a] \in A
      BY <2>2
    <3>2. ASSUME NEW C \in SUBSET (S \X A), Ok(C) PROVE <<x, step[x][a]>> \in C
      BY <2>2, <3>2 DEF Forced
    <3> QED
      BY <3>1, <3>2
  <2> HIDE DEF R
  <2> QED
    BY <2>1, <2>2 DEF Forced
<1>2. ASSUME NEW x \in S, NEW a, NEW b, <<x, a>> \in R, <<x, b>> \in R, a # b,
             x \in stops => a = out[x],
             x \notin stops => \E c : a = step[x][c] /\ \A d : <<next[x], d>> \in R => d = c
      PROVE  FALSE
  <2> DEFINE C == R \ {<<x, b>>}
  <2>1. C \in SUBSET (S \X A)
    OBVIOUS
  <2>2. ASSUME NEW y \in stops PROVE <<y, out[y]>> \in C
    BY <1>1, <1>2 DEF Forced
  <2>3. ASSUME NEW y \in S \ stops, NEW d, <<next[y], d>> \in C
        PROVE  <<y, step[y][d]>> \in C
    <3>1. <<y, step[y][d]>> \in R
      BY <1>1, <2>3 DEF Forced
    <3>2. CASE y = x
      <4>1. step[x][d] = a
        BY <1>2, <2>3, <3>2
      <4> QED
        BY <1>2, <3>1, <3>2, <4>1
    <3>3. CASE y # x
      BY <3>1, <3>3
    <3> QED
      BY <3>2, <3>3
  <2>4. Ok(C)
    <3> HIDE DEF C
    <3> QED
      BY <2>2, <2>3 DEF Forced
  <2>5. <<x, b>> \notin C
    OBVIOUS
  <2> QED
    BY <1>2, <2>1, <2>4, <2>5
<1> DEFINE Single(x) == \E a \in A : <<x, a>> \in R /\ \A b : <<x, b>> \in R => b = a
           Bad == {rank[x] : x \in {y \in S : ~Single(y)}}
<1>3. ASSUME NEW x \in S, \A y \in S : rank[y] < rank[x] => Single(y)
      PROVE  Single(x)
  <2>1. CASE x \in stops
    <3>1. out[x] \in A /\ <<x, out[x]>> \in R
      BY <1>1, <2>1 DEF Forced
    <3> HIDE DEF R
    <3> QED
      BY <1>2, <2>1, <3>1
  <2>2. CASE x \notin stops
    <3>1. PICK c \in A : <<next[x], c>> \in R /\ \A d : <<next[x], d>> \in R => d = c
      BY <1>3, <2>2
    <3>2. step[x][c] \in A /\ <<x, step[x][c]>> \in R
      BY <1>1, <2>2, <3>1 DEF Forced
    <3> HIDE DEF R
    <3> QED
      BY <1>2, <2>2, <3>1, <3>2
  <2> QED
    BY <2>1, <2>2
<1>4. \A x \in S : Single(x)
  <2> SUFFICES ASSUME NEW z \in S, ~Single(z) PROVE FALSE
    OBVIOUS
  <2> HIDE DEF Single
  <2>1. Bad # {} /\ Bad \subseteq Nat
    <3>1. rank[z] \in Bad
      OBVIOUS
    <3> QED
      BY <3>1
  <2>2. PICK k \in Bad : \A j \in Bad : k <= j
    <3> HIDE DEF Bad
    <3> QED
      BY <2>1, LeastNumber
  <2>3. PICK x \in S : ~Single(x) /\ k = rank[x]
    BY <2>2
  <2>4. ASSUME NEW y \in S, rank[y] < rank[x] PROVE Single(y)
    <3>1. CASE ~Single(y)
      <4>1. rank[y] \in Bad
        BY <3>1
      <4> HIDE DEF Bad
      <4> QED
        BY <2>2, <2>3, <2>4, <4>1
    <3> QED
      BY <3>1
  <2> QED
    BY <1>3, <2>3, <2>4
<1> DEFINE value(x) == CHOOSE a \in A : <<x, a>> \in R
           f == [x \in S |-> value(x)]
<1>5. ASSUME NEW x \in S PROVE f[x] \in A /\ <<x, f[x]>> \in R /\ \A b : <<x, b>> \in R => b = f[x]
  <2>1. Single(x)
    BY <1>4
  <2> HIDE DEF R
  <2> QED
    BY <2>1
<1>6. ASSUME NEW x \in S PROVE f[x] = IF x \in stops THEN out[x] ELSE step[x][f[next[x]]]
  <2> HIDE DEF f, R
  <2>1. CASE x \in stops
    BY <1>1, <1>5, <2>1 DEF Forced
  <2>2. CASE x \notin stops
    <3>1. next[x] \in S /\ <<next[x], f[next[x]]>> \in R
      BY <1>5, <2>2
    <3>2. <<x, step[x][f[next[x]]]>> \in R
      BY <1>1, <2>2, <3>1 DEF Forced
    <3> QED
      BY <1>5, <2>2, <3>2
  <2> QED
    BY <2>1, <2>2
<1>7. f \in [S -> A] /\ f = [x \in S |-> f[x]]
  <2> HIDE DEF value
  <2>1. f = [x \in S |-> f[x]]
    OBVIOUS
  <2> HIDE DEF f, R
  <2>2. \A x \in S : f[x] \in A
    BY <1>5
  <2> QED
    BY <2>1, <2>2
<1> HIDE DEF f
<1>8. Unwinds(f, S, stops, out, next, step)
  BY <1>6, <1>7 DEF Unwinds
<1> QED
  BY <1>7, <1>8

\* The same for functions that go over a sequence of length n, past its end.
LEMMA Scanning ==
  ASSUME NEW n \in Nat, NEW A, NEW stops \in SUBSET Nat, \A k \in Nat : k > n => k \in stops,
         NEW out, NEW next, NEW step,
         \A k \in stops : out[k] \in A,
         \A k \in Nat \ stops : next[k] \in Nat /\ next[k] > k /\ step[k] \in [A -> A]
  PROVE  \E f \in [Nat -> A] : Unwinds(f, Nat, stops, out, next, step)
<1> DEFINE rank == [k \in Nat |-> IF k > n THEN 0 ELSE (n + 1) - k]
<1>1. \A k \in Nat : rank[k] \in Nat
  OBVIOUS
<1>2. \A k \in Nat \ stops : /\ next[k] \in Nat /\ rank[next[k]] < rank[k]
                              /\ step[k] \in [A -> A]
  OBVIOUS
<1> HIDE DEF rank
<1> QED
  BY <1>1, <1>2, Unwinding

\* And for those that have a truth to remember besides.
LEMMA RememberingScan ==
  ASSUME NEW n \in Nat, NEW A, NEW stops \in SUBSET (Nat \X BOOLEAN),
         \A k \in Nat, b \in BOOLEAN : k > n => <<k, b>> \in stops,
         NEW out, NEW next, NEW step,
         \A x \in stops : out[x] \in A,
         \A k \in Nat, b \in BOOLEAN : <<k, b>> \notin stops =>
            \E j \in Nat, c \in BOOLEAN : j > k /\ next[<<k, b>>] = <<j, c>>,
         \A x \in (Nat \X BOOLEAN) \ stops : step[x] \in [A -> A]
  PROVE  \E f \in [Nat \X BOOLEAN -> A] : Unwinds(f, Nat \X BOOLEAN, stops, out, next, step)
<1> DEFINE S == Nat \X BOOLEAN
           rank == [x \in S |-> IF x[1] > n THEN 0 ELSE (n + 1) - x[1]]
<1>1. \A x \in S : rank[x] \in Nat
  OBVIOUS
<1>2. ASSUME NEW x \in S \ stops
      PROVE  next[x] \in S /\ rank[next[x]] < rank[x] /\ step[x] \in [A -> A]
  <2>1. PICK k \in Nat, b \in BOOLEAN : x = <<k, b>>
    OBVIOUS
  <2>2. PICK j \in Nat, c \in BOOLEAN : j > k /\ next[x] = <<j, c>>
    BY <1>2, <2>1
  <2>3. ~(k > n)
    BY <1>2, <2>1
  <2>4. rank[x] = (n + 1) - k
    BY <2>1, <2>3
  <2>5. next[x] \in S /\ next[x][1] = j
    BY <2>2
  <2>6. rank[next[x]] = IF j > n THEN 0 ELSE (n + 1) - j
    BY <2>5
  <2> QED
    BY <2>2, <2>3, <2>4, <2>5, <2>6
<1> HIDE DEF rank, S
<1>3. stops \in SUBSET S
  BY DEF S
<1>4. \E f \in [S -> A] : Unwinds(f, S, stops, out, next, step)
  BY <1>1, <1>2, <1>3, Unwinding
<1> QED
  BY <1>4 DEF S
=============================================================================
