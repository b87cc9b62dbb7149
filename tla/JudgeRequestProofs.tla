----------------------- MODULE JudgeRequestProofs ---------------------------
(***************************************************************************)
(* What holds of every prompt and of every command that a provider is      *)
(* asked with, however long they are.                                      *)
(*                                                                         *)
(* A command is read from its end to its beginning (ReadScans, StepsAt):   *)
(* what is read from a word on depends on what is behind it only, so an    *)
(* option that is taken out shifts the reading (Shifted) and changes no    *)
(* operand, if an option's value is a plain word (Settled).  A prompt is   *)
(* what is given for each of its pieces, put together (Given, Filled).     *)
(***************************************************************************)
EXTENDS JudgeRequest, Recursion, SequenceTheorems, FiniteSetTheorems

-----------------------------------------------------------------------------
(* Sequences that are put together. *)

\* Among numbers up to one there is a greatest, and a least.
LEMMA Extremes ==
  ASSUME NEW n \in Nat, NEW T, T \subseteq 1..n, T # {}
  PROVE  /\ Max(T) \in T /\ \A j \in T : j <= Max(T)
         /\ Min(T) \in T /\ \A j \in T : Min(T) <= j
<1>4. PICK i \in T : \A j \in T : j <= i
  BY GreatestNumber
<1>5. Max(T) \in T /\ \A j \in T : Max(T) >= j
  <2>1. \A j \in T : i >= j
    BY <1>4
  <2> QED
    BY <2>1 DEF Max
<1>6. T \subseteq Nat
  OBVIOUS
<1>7. PICK l \in T : \A j \in T : l <= j
  BY <1>6, LeastNumber
<1>8. Min(T) \in T /\ \A j \in T : Min(T) <= j
  BY <1>7 DEF Min
<1> QED
  BY <1>5, <1>8

\* The equation of a function that collects words as it goes over a line.
Collects(f, S, stops, out, next, add) ==
  \A x \in S : f[x] = IF x \in stops THEN out[x] ELSE add[x] \o f[next[x]]

LEMMA Collecting ==
  ASSUME NEW n \in Nat, NEW A, NEW stops \in SUBSET Nat, \A k \in Nat : k > n => k \in stops,
         NEW out, NEW next, NEW add,
         \A k \in stops : out[k] \in Seq(A),
         \A k \in Nat \ stops : next[k] \in Nat /\ next[k] > k /\ add[k] \in Seq(A)
  PROVE  \E f \in [Nat -> Seq(A)] : Collects(f, Nat, stops, out, next, add)
<1> DEFINE step == [k \in Nat |-> [s \in Seq(A) |-> add[k] \o s]]
<1>1. \A k \in Nat \ stops : next[k] \in Nat /\ next[k] > k /\ step[k] \in [Seq(A) -> Seq(A)]
  <2>1. ASSUME NEW k \in Nat \ stops PROVE step[k] \in [Seq(A) -> Seq(A)]
    <3>1. \A s \in Seq(A) : add[k] \o s \in Seq(A)
      OBVIOUS
    <3> QED
      BY <3>1
  <2> HIDE DEF step
  <2> QED
    BY <2>1
<1>2. PICK f \in [Nat -> Seq(A)] : Unwinds(f, Nat, stops, out, next, step)
  <2> HIDE DEF step
  <2> QED
    BY <1>1, Scanning
<1>3. ASSUME NEW k \in Nat PROVE f[k] = IF k \in stops THEN out[k] ELSE add[k] \o f[next[k]]
  <2>1. f[k] = IF k \in stops THEN out[k] ELSE step[k][f[next[k]]]
    BY <1>2 DEF Unwinds
  <2>2. CASE k \notin stops
    <3>1. f[next[k]] \in Seq(A)
      BY <1>1, <2>2
    <3>2. step[k][f[next[k]]] = add[k] \o f[next[k]]
      BY <3>1
    <3> QED
      BY <2>1, <2>2, <3>2
  <2> QED
    BY <2>1, <2>2
<1> QED
  BY <1>2, <1>3 DEF Collects

Concatenates(f, n, next, add) ==
  \A i \in Nat : f[i] = IF i > n THEN << >> ELSE add[i] \o f[next[i]]

\* A function that puts together what it finds on its way to the end of n.
LEMMA Concatenating ==
  ASSUME NEW n \in Nat, NEW A, NEW next, NEW add,
         \A i \in Nat : next[i] \in Nat /\ next[i] > i /\ add[i] \in Seq(A)
  PROVE  \E f \in [Nat -> Seq(A)] : Concatenates(f, n, next, add)
<1> DEFINE stops == {i \in Nat : i > n}
           out == [i \in Nat |-> << >>]
<1>1. /\ stops \in SUBSET Nat /\ \A i \in Nat : i > n => i \in stops
      /\ \A i \in stops : out[i] \in Seq(A)
  OBVIOUS
<1>2. \A i \in Nat \ stops : next[i] \in Nat /\ next[i] > i /\ add[i] \in Seq(A)
  OBVIOUS
<1>3. PICK f \in [Nat -> Seq(A)] : Collects(f, Nat, stops, out, next, add)
  <2> HIDE DEF stops, out
  <2> QED
    BY <1>1, <1>2, Collecting
<1>4. \A i \in Nat : f[i] = IF i > n THEN << >> ELSE add[i] \o f[next[i]]
  <2>1. \A i \in Nat : f[i] = IF i \in stops THEN out[i] ELSE add[i] \o f[next[i]]
    BY <1>3 DEF Collects
  <2> QED
    BY <2>1
<1> QED
  BY <1>4 DEF Concatenates

\* Functions with the same values are the same.
LEMMA SameValues ==
  ASSUME NEW S, NEW f, NEW h, f = [x \in S |-> f[x]], h = [x \in S |-> h[x]],
         \A x \in S : f[x] = h[x]
  PROVE  f = h
OBVIOUS

Regroups(A) == \A x, y, z \in Seq(A) : x \o (y \o z) = (x \o y) \o z

LEMMA Regrouping == ASSUME NEW A PROVE Regroups(A)
<1>1. ASSUME NEW x \in Seq(A), NEW y \in Seq(A), NEW z \in Seq(A)
      PROVE  x \o (y \o z) = (x \o y) \o z
  OBVIOUS
<1> QED
  BY <1>1 DEF Regroups

Flattens(h, ps) ==
  \A i \in 1..Len(ps) : h[i] = ps[i] \o h[i + 1]

\* A flattened sequence ends with what its last parts make.
LEMMA Flattening ==
  ASSUME NEW A, NEW ps \in Seq(Seq(A))
  PROVE  \E h \in [Nat -> Seq(A)] :
           /\ FlattenSeq(ps) = h[1] /\ h[Len(ps) + 1] = << >> /\ Flattens(h, ps)
           /\ \A i \in 1..Len(ps) : \E pre \in Seq(A) : h[1] = pre \o h[i]
<1> DEFINE n == Len(ps)
           next == [i \in Nat |-> i + 1]
           add == [i \in Nat |-> IF i \in 1..n THEN ps[i] ELSE << >>]
<1>0. n \in Nat
  OBVIOUS
<1>p. n = Len(ps) /\ \A i \in 1..n : ps[i] \in Seq(A)
  OBVIOUS
<1> HIDE DEF n
<1>1. \A i \in Nat : next[i] \in Nat /\ next[i] > i /\ add[i] \in Seq(A)
  BY <1>p
<1>2. PICK h \in [Nat -> Seq(A)] : Concatenates(h, n, next, add)
  <2> HIDE DEF n, next, add
  <2> QED
    BY <1>0, <1>1, Concatenating
<1>3. h[n + 1] = << >> /\ Flattens(h, ps)
  <2>1. \A i \in Nat : h[i] = IF i > n THEN << >> ELSE add[i] \o h[next[i]]
    BY <1>2 DEF Concatenates
  <2>2. ASSUME NEW i \in 1..n
        PROVE  add[i] = ps[i] /\ next[i] = i + 1 /\ i \in Nat /\ ~(i > n)
    <3>1. i \in Nat /\ ~(i > n)
      BY <1>0
    <3> QED
      BY <3>1
  <2>3. n + 1 \in Nat /\ n + 1 > n
    BY <1>0
  <2> HIDE DEF next, add
  <2> QED
    BY <1>p, <2>1, <2>2, <2>3 DEF Flattens
<1>4. CASE n = 0
  <2>1. FlattenSeq(ps) = << >>
    <3>1. Len(ps) = 0 /\ ps = << >>
      BY <1>p, <1>4, EmptySeq
    <3> QED
      BY <3>1, Zenon DEF FlattenSeq
  <2>2. h[0 + 1] = h[1]
    OBVIOUS
  <2> QED
    <3>1. 1..0 = {}
      OBVIOUS
    <3> QED
      BY <1>p, <1>3, <1>4, <2>1, <2>2, <3>1
<1>5. CASE n # 0
  <2> DEFINE Eq(F) == F = [i \in 1..n |-> IF i = 1 THEN ps[i] ELSE F[i - 1] \o ps[i]]
             g == CHOOSE F : Eq(F)
             step == [i \in 1..n |-> [x \in Seq(A) |-> x \o ps[i]]]
  <2>1. PICK f \in [0..n -> Seq(A)] : Iterates(f, n, << >>, step)
    <3>1. step \in [1..n -> [Seq(A) -> Seq(A)]] /\ << >> \in Seq(A)
      BY <1>p
    <3> HIDE DEF n, step
    <3> QED
      BY <1>0, <3>1, Iteration
  <2>2. /\ f[0] = << >>
        /\ \A i \in 1..n : f[i - 1] \in Seq(A) /\ f[i] = f[i - 1] \o ps[i]
    <3>1. \A i \in 0..n : f[i] = IF i = 0 THEN << >> ELSE step[i][f[i - 1]]
      <4> HIDE DEF n, step
      <4> QED
        BY <2>1 DEF Iterates
    <3>2. ASSUME NEW i \in 1..n PROVE f[i - 1] \in Seq(A) /\ f[i] = f[i - 1] \o ps[i]
      <4>1. i \in 0..n /\ i # 0 /\ i - 1 \in 0..n
        BY <1>0
      <4>2. f[i] = step[i][f[i - 1]] /\ f[i - 1] \in Seq(A)
        <5> HIDE DEF n, step
        <5> QED
          BY <3>1, <4>1
      <4> QED
        BY <4>2
    <3>3. f[0] = << >>
      <4>1. 0 \in 0..n
        BY <1>0
      <4> HIDE DEF step
      <4> QED
        BY <3>1, <4>1
    <3> QED
      BY <3>2, <3>3
  <2>3. f[1] = ps[1]
    <3>1. 1 \in 1..n /\ 1 - 1 = 0
      BY <1>0, <1>5
    <3>2. << >> \o ps[1] = ps[1]
      BY <1>p, <3>1
    <3> QED
      BY <2>2, <3>1, <3>2
  <2> DEFINE k == [i \in 1..n |-> f[i]]
  <2>4. Eq(k)
    <3> DEFINE z == [i \in 1..n |-> IF i = 1 THEN ps[i] ELSE k[i - 1] \o ps[i]]
    <3>1. ASSUME NEW i \in 1..n PROVE k[i] = z[i]
      <4>1. CASE i = 1
        BY <2>3, <4>1
      <4>2. CASE i # 1
        <5>1. i - 1 \in 1..n
          BY <1>0, <4>2
        <5> QED
          BY <2>2, <4>2, <5>1
      <4> QED
        BY <4>1, <4>2
    <3>2. k = [i \in 1..n |-> k[i]] /\ z = [i \in 1..n |-> z[i]]
      OBVIOUS
    <3>3. k = z
      <4> HIDE DEF k, z, n
      <4> QED
        BY <3>1, <3>2, SameValues
    <3> QED
      BY <3>3, Zenon
  <2>5. Eq(g)
    <3> HIDE DEF Eq, k
    <3> QED
      BY <2>4
  <2>6. FlattenSeq(ps) = g[n]
    BY <1>5, Zenon DEF FlattenSeq, n
  <2> HIDE DEF g
  <2>u. \A j, m : j \in 1..n /\ j # 1 /\ m = j - 1 => g[j] = g[m] \o ps[j]
    BY <2>5
  <2> DEFINE G == {i \in 0..n : i = 0 \/ (g[i] \in Seq(A) /\ h[1] = (g[i] \o h[i + 1]))}
  <2>7. 0 \in G
    BY <1>0
  <2>8. ASSUME NEW i \in 0..(n - 1), i \in G PROVE i + 1 \in G
    <3>1. i + 1 \in 1..n /\ i + 1 \in 0..n /\ i + 1 + 1 = i + 2 /\ i + 1 - 1 = i
      BY <1>0
    <3>2. ps[i + 1] \in Seq(A) /\ h[i + 2] \in Seq(A) /\ h[i + 1] = ps[i + 1] \o h[i + 2]
      <4>1. ps[i + 1] \in Seq(A) /\ h[i + 1] = ps[i + 1] \o h[i + 1 + 1]
        BY <1>p, <1>3, <3>1 DEF Flattens
      <4>2. i + 2 \in Nat
        BY <1>0
      <4> QED
        BY <3>1, <4>1, <4>2
    <3>3. CASE i = 0
      <4>1. g[1] = ps[1]
        BY <1>0, <1>5, <2>5
      <4>2. 0 + 1 = 1 /\ 0 + 2 = 2 /\ 1 + 1 = 2
        OBVIOUS
      <4> QED
        BY <3>1, <3>2, <3>3, <4>1, <4>2
    <3>4. CASE i # 0
      <4>1. g[i] \in Seq(A) /\ h[1] = g[i] \o h[i + 1]
        BY <2>8, <3>4
      <4>2. g[i + 1] = g[i] \o ps[i + 1]
        <5>1. i + 1 # 1
          BY <1>0, <3>4
        <5> QED
          <6>1. i = (i + 1) - 1
            BY <1>0
          <6> QED
            BY <2>u, <3>1, <5>1, <6>1
      <4>3. g[i] \o (ps[i + 1] \o h[i + 2]) = (g[i] \o ps[i + 1]) \o h[i + 2]
        <5>1. Regroups(A)
          BY Regrouping, Zenon
        <5>2. g[i] \in Seq(A) /\ ps[i + 1] \in Seq(A) /\ h[i + 2] \in Seq(A)
          BY <3>2, <4>1
        <5> QED
          BY <5>1, <5>2, Zenon DEF Regroups
      <4>4. g[i + 1] \in Seq(A)
        BY <3>2, <4>1, <4>2
      <4> QED
        BY <3>1, <3>2, <4>1, <4>2, <4>3, <4>4
    <3> QED
      BY <3>3, <3>4
  <2>9. 0..n \subseteq G
    <3> HIDE DEF G, n
    <3> QED
      BY <1>0, <2>7, <2>8, CountingUp
  <2>10. FlattenSeq(ps) = h[1]
    <3>1. n \in G
      <4>1. n \in 0..n
        BY <1>0
      <4> HIDE DEF G
      <4> QED
        BY <2>9, <4>1
    <3>2. g[n] \in Seq(A) /\ h[1] = g[n] \o h[n + 1]
      BY <1>5, <3>1
    <3>3. g[n] \o << >> = g[n]
      BY <3>2
    <3> QED
      BY <1>3, <2>6, <3>2, <3>3
  <2>11. ASSUME NEW i \in 1..n PROVE \E pre \in Seq(A) : h[1] = pre \o h[i]
    <3>1. CASE i = 1
      <4>1. h[1] \in Seq(A) /\ << >> \in Seq(A)
        BY <1>2
      <4>2. h[1] = << >> \o h[1]
        BY <4>1
      <4> QED
        BY <3>1, <4>1, <4>2
    <3>2. CASE i # 1
      <4>1. i - 1 \in G /\ i - 1 # 0 /\ i - 1 + 1 = i
        <5>1. i - 1 \in 0..n /\ i - 1 # 0 /\ i - 1 + 1 = i
          BY <1>0, <3>2
        <5> HIDE DEF G
        <5> QED
          BY <2>9, <5>1
      <4> QED
        BY <4>1
    <3> QED
      BY <3>1, <3>2
  <2> QED
    BY <1>p, <1>3, <2>10, <2>11
<1> QED
  BY <1>4, <1>5

\* A part that a text ends with, but for the rest, stands there.
Stands(q, w, rest) ==
  LET p == Len(q) - Len(w \o rest) + 1
  IN /\ p \in Nat /\ p >= 1 /\ p + Len(w) - 1 <= Len(q)
     /\ p + Len(w) = Len(q) - Len(rest) + 1
     /\ \A k \in 1..Len(w) : q[p + k - 1] = w[k]

LEMMA PartsStand ==
  ASSUME NEW A, NEW pre \in Seq(A), NEW w \in Seq(A), NEW rest \in Seq(A),
         NEW q, q = pre \o (w \o rest)
  PROVE  Stands(q, w, rest)
<1> DEFINE u == w \o rest
           p == Len(q) - Len(u) + 1
           a == Len(pre)
           b == Len(w)
           d == Len(rest)
<1>1. a \in Nat /\ b \in Nat /\ d \in Nat
  OBVIOUS
<1>2. /\ u \in Seq(A) /\ Len(u) = b + d
      /\ \A k \in 1..(b + d) : u[k] = IF k <= b THEN w[k] ELSE rest[k - b]
  BY ConcatProperties
<1>3. /\ Len(q) = a + (b + d)
      /\ \A k \in 1..(a + (b + d)) : q[k] = IF k <= a THEN pre[k] ELSE u[k - a]
  <2> HIDE DEF u
  <2>1. /\ Len(pre \o u) = a + Len(u)
        /\ \A k \in 1..(a + Len(u)) : (pre \o u)[k] = IF k <= a THEN pre[k] ELSE u[k - a]
    <3>1. u \in Seq(A)
      BY <1>2
    <3> QED
      BY <3>1, ConcatProperties
  <2>2. q = pre \o u
    BY DEF u
  <2> QED
    BY <1>2, <2>1, <2>2
<1> HIDE DEF u, a, b, d
<1>4. p = a + 1
  BY <1>1, <1>2, <1>3
<1>5. ASSUME NEW k \in 1..b PROVE q[p + k - 1] = w[k]
  <2> DEFINE m == p + k - 1
  <2>1. m \in 1..(a + (b + d)) /\ ~(m <= a) /\ m - a = k /\ k \in 1..(b + d) /\ k <= b
    <3>1. k \in Nat /\ k >= 1 /\ k <= b
      BY <1>1
    <3>2. m = a + k
      <4> HIDE DEF p
      <4> QED
        BY <1>1, <1>4, <3>1
    <3> HIDE DEF m, p
    <3> QED
      BY <1>1, <3>1, <3>2
  <2> HIDE DEF m, p
  <2>2. q[m] = u[k]
    BY <1>3, <2>1
  <2>3. u[k] = w[k]
    BY <1>2, <2>1
  <2> QED
    BY <2>2, <2>3 DEF m
<1>6. /\ p \in Nat /\ p >= 1 /\ p + b - 1 <= Len(q)
      /\ p + b = Len(q) - d + 1
  BY <1>1, <1>2, <1>3, <1>4
<1> QED
  BY <1>5, <1>6 DEF Stands, u, b, d

-----------------------------------------------------------------------------
(* What a provider reads. *)

WantsValue(w) == w.kind \in {"settings", "takes"}
IsOperand(w) == w.kind \notin {"settings", "takes", "joined", "bool", "ephemeral"}

\* What is read from a place on, after what is read after it.
OperandsRead(f, v) ==
  \A i \in Nat \ {0} : f[i].operands =
    IF i > Len(v) THEN << >>
    ELSE IF WantsValue(v[i]) THEN f[i + 2].operands
    ELSE IF IsOperand(v[i]) THEN <<v[i]>> \o f[i + 1].operands
    ELSE f[i + 1].operands
SettingsRead(f, v) ==
  \A i \in Nat \ {0} : f[i].settings =
    IF i > Len(v) THEN << >>
    ELSE IF WantsValue(v[i])
         THEN IF v[i].kind = "settings" /\ i < Len(v)
              THEN <<v[i + 1].dir>> \o f[i + 2].settings ELSE f[i + 2].settings
    ELSE IF v[i].kind = "joined" THEN <<v[i].dir>> \o f[i + 1].settings
    ELSE f[i + 1].settings
ReadFrom(f, v) == OperandsRead(f, v) /\ SettingsRead(f, v)

Readouts(O, D) == [operands : Seq(O), settings : Seq(D)]

LEMMA Prepended ==
  ASSUME NEW O, NEW D, NEW r \in [operands : O, settings : D], NEW c
  PROVE  /\ [r EXCEPT !.settings = c \o @] = [operands |-> r.operands, settings |-> c \o r.settings]
         /\ [r EXCEPT !.operands = c \o @] = [operands |-> c \o r.operands, settings |-> r.settings]
<1>1. [r EXCEPT !.settings = c \o @] = [operands |-> r.operands, settings |-> c \o r.settings]
  BY SMTT(30)
<1>2. [r EXCEPT !.operands = c \o @] = [operands |-> c \o r.operands, settings |-> r.settings]
  <2>1. \A x : [r EXCEPT !.operands = x] = [operands |-> x, settings |-> r.settings]
    OBVIOUS
  <2> QED
    BY <2>1, Zenon
<1> QED
  BY <1>1, <1>2

LEMMA ReadScans ==
  ASSUME NEW v, Len(v) \in Nat
  PROVE  \E O, D, f : /\ \A i \in Nat \ {0} : f[i] \in Readouts(O, D)
                      /\ ReadFrom(f, v) /\ Read(v) = f[1]
<1> DEFINE n == Len(v)
           O == {v[i] : i \in Nat}
           D == {v[i].dir : i \in Nat}
           A == Readouts(O, D)
           nothing == [operands |-> << >>, settings |-> << >>]
           value(i, rest) ==
             IF v[i].kind \in {"settings", "takes"}
             THEN IF v[i].kind = "settings" /\ i < Len(v)
                  THEN [rest EXCEPT !.settings = <<v[i + 1].dir>> \o @] ELSE rest
             ELSE CASE v[i].kind = "joined" -> [rest EXCEPT !.settings = <<v[i].dir>> \o @]
                    [] v[i].kind \in {"bool", "ephemeral"} -> rest
                    [] OTHER -> [rest EXCEPT !.operands = <<v[i]>> \o @]
           Eq(F) == F = [i \in Nat |->
             IF i > Len(v) THEN [operands |-> << >>, settings |-> << >>]
             ELSE IF v[i].kind \in {"settings", "takes"}
             THEN IF v[i].kind = "settings" /\ i < Len(v)
                  THEN [F[i + 2] EXCEPT !.settings = <<v[i + 1].dir>> \o @] ELSE F[i + 2]
             ELSE CASE v[i].kind = "joined" -> [F[i + 1] EXCEPT !.settings = <<v[i].dir>> \o @]
                    [] v[i].kind \in {"bool", "ephemeral"} -> F[i + 1]
                    [] OTHER -> [F[i + 1] EXCEPT !.operands = <<v[i]>> \o @]]
           stops == {i \in Nat : i > n}
           out == [i \in Nat |-> nothing]
           next == [i \in Nat |-> IF WantsValue(v[i]) THEN i + 2 ELSE i + 1]
           step == [i \in Nat |-> [rest \in A |-> value(i, rest)]]
<1>1. \A i \in Nat : v[i] \in O /\ v[i].dir \in D /\ v[i + 1].dir \in D
  <2>1. \A i \in Nat : v[i].dir \in D /\ i + 1 \in Nat
    OBVIOUS
  <2> HIDE DEF D
  <2> QED
    BY <2>1
<1> HIDE DEF O, D
<1>2. nothing \in A
  BY DEF Readouts
<1>3. ASSUME NEW i \in Nat, NEW rest \in A
      PROVE  /\ value(i, rest) \in A
             /\ value(i, rest).operands = IF WantsValue(v[i]) \/ ~IsOperand(v[i])
                                          THEN rest.operands ELSE <<v[i]>> \o rest.operands
             /\ value(i, rest).settings =
                  IF WantsValue(v[i])
                  THEN IF v[i].kind = "settings" /\ i < Len(v)
                       THEN <<v[i + 1].dir>> \o rest.settings ELSE rest.settings
                  ELSE IF v[i].kind = "joined" THEN <<v[i].dir>> \o rest.settings
                  ELSE rest.settings
  <2>1. /\ rest.operands \in Seq(O) /\ rest.settings \in Seq(D)
        /\ rest = [operands |-> rest.operands, settings |-> rest.settings]
    BY DEF Readouts
  <2>2. /\ <<v[i]>> \o rest.operands \in Seq(O)
        /\ <<v[i].dir>> \o rest.settings \in Seq(D)
        /\ <<v[i + 1].dir>> \o rest.settings \in Seq(D)
    BY <1>1, <2>1
  <2>3. \A s : LET r == [rest EXCEPT !.settings = s \o @] IN
          r = [operands |-> rest.operands, settings |-> s \o rest.settings]
    BY Prepended, ZenonT(30) DEF Readouts
  <2>4. \A s : LET r == [rest EXCEPT !.operands = s \o @] IN
          r = [operands |-> s \o rest.operands, settings |-> rest.settings]
    BY Prepended, Zenon DEF Readouts
  <2>5. CASE WantsValue(v[i]) /\ v[i].kind = "settings" /\ i < Len(v)
    <3>1. value(i, rest) = [operands |-> rest.operands,
                            settings |-> <<v[i + 1].dir>> \o rest.settings]
      BY <2>3, <2>5
    <3> HIDE DEF value
    <3> QED
      BY <2>1, <2>2, <2>5, <3>1 DEF Readouts
  <2>6. CASE WantsValue(v[i]) /\ ~(v[i].kind = "settings" /\ i < Len(v))
    <3>1. value(i, rest) = rest
      BY <2>6 DEF WantsValue
    <3> HIDE DEF value
    <3> QED
      BY <2>1, <2>6, <3>1
  <2>7. CASE v[i].kind = "joined"
    <3>1. value(i, rest) = [operands |-> rest.operands,
                            settings |-> <<v[i].dir>> \o rest.settings]
      BY <2>3, <2>7
    <3> HIDE DEF value
    <3> QED
      BY <2>1, <2>2, <2>7, <3>1 DEF Readouts, WantsValue, IsOperand
  <2>8. CASE v[i].kind \in {"bool", "ephemeral"}
    <3>1. value(i, rest) = rest
      BY <2>8
    <3> HIDE DEF value
    <3> QED
      BY <2>1, <2>8, <3>1 DEF WantsValue, IsOperand
  <2>9. CASE IsOperand(v[i])
    <3>1. value(i, rest) = [operands |-> <<v[i]>> \o rest.operands,
                            settings |-> rest.settings]
      BY <2>4, <2>9 DEF IsOperand
    <3> HIDE DEF value
    <3> QED
      BY <2>1, <2>2, <2>9, <3>1 DEF Readouts, WantsValue, IsOperand
  <2> QED
    BY <2>5, <2>6, <2>7, <2>8, <2>9 DEF WantsValue, IsOperand
<1>4. \A i \in Nat \ stops : next[i] \in Nat /\ next[i] > i /\ step[i] \in [A -> A]
  <2>1. ASSUME NEW i \in Nat PROVE step[i] \in [A -> A]
    <3> HIDE DEF value, A
    <3> QED
      BY <1>3
  <2>2. \A i \in Nat : next[i] \in Nat /\ next[i] > i
    OBVIOUS
  <2> HIDE DEF next, step
  <2> QED
    BY <2>1, <2>2
<1>5. PICK f \in [Nat -> A] : Unwinds(f, Nat, stops, out, next, step)
  <2>1. /\ n \in Nat /\ stops \in SUBSET Nat /\ \A k \in Nat : k > n => k \in stops
        /\ \A k \in stops : out[k] \in A
    BY <1>2
  <2> HIDE DEF n, A, stops, out, next, step
  <2> QED
    BY <1>4, <2>1, Scanning
<1>6. \A i \in Nat : f[i] = IF i > n THEN nothing ELSE value(i, f[next[i]])
  <2>1. \A i \in Nat : f[i] = IF i \in stops THEN out[i] ELSE step[i][f[next[i]]]
    <3> HIDE DEF stops, out, next, step
    <3> QED
      BY <1>5 DEF Unwinds
  <2>2. \A i \in Nat : (i \in stops <=> i > n) /\ out[i] = nothing
    OBVIOUS
  <2>3. \A i \in Nat, r \in A : step[i][r] = value(i, r)
    <3> HIDE DEF A, value
    <3> QED
      OBVIOUS
  <2>4. \A i \in Nat : f[next[i]] \in A
    <3>1. \A i \in Nat : next[i] \in Nat
      OBVIOUS
    <3> HIDE DEF A, next
    <3> QED
      BY <3>1
  <2> HIDE DEF A, value, stops, out, next, step, nothing, n
  <2> QED
    BY <2>1, <2>2, <2>3, <2>4
<1>7. Eq(f)
  <2> DEFINE h == [i \in Nat |->
             IF i > Len(v) THEN [operands |-> << >>, settings |-> << >>]
             ELSE IF v[i].kind \in {"settings", "takes"}
             THEN IF v[i].kind = "settings" /\ i < Len(v)
                  THEN [f[i + 2] EXCEPT !.settings = <<v[i + 1].dir>> \o @] ELSE f[i + 2]
             ELSE CASE v[i].kind = "joined" -> [f[i + 1] EXCEPT !.settings = <<v[i].dir>> \o @]
                    [] v[i].kind \in {"bool", "ephemeral"} -> f[i + 1]
                    [] OTHER -> [f[i + 1] EXCEPT !.operands = <<v[i]>> \o @]]
  <2>1. ASSUME NEW i \in Nat PROVE f[i] = h[i]
    <3>1. CASE i > n
      BY <1>6, <3>1
    <3>2. CASE ~(i > n) /\ WantsValue(v[i])
      <4>1. next[i] = i + 2
        BY <3>2
      <4>2. f[i] = value(i, f[i + 2])
        <5> HIDE DEF value, next
        <5> QED
          BY <1>6, <3>2, <4>1
      <4>3. h[i] = value(i, f[i + 2])
        BY <3>2 DEF WantsValue
      <4> QED
        BY <4>2, <4>3
    <3>3. CASE ~(i > n) /\ ~WantsValue(v[i])
      <4>1. next[i] = i + 1
        BY <3>3
      <4>2. f[i] = value(i, f[i + 1])
        <5> HIDE DEF value, next
        <5> QED
          BY <1>6, <3>3, <4>1
      <4>3. h[i] = value(i, f[i + 1])
        BY <3>3 DEF WantsValue
      <4> QED
        BY <4>2, <4>3
    <3> QED
      BY <3>1, <3>2, <3>3
  <2>2. f = [i \in Nat |-> f[i]] /\ h = [i \in Nat |-> h[i]]
    <3>1. h = [i \in Nat |-> h[i]]
      OBVIOUS
    <3> HIDE DEF h, A
    <3> QED
      BY <1>5, <3>1
  <2>3. f = h
    <3> HIDE DEF h
    <3> QED
      BY <2>1, <2>2, SameValues
  <2> HIDE DEF A, value, stops, out, next, step
  <2> QED
    BY <2>3, Zenon
<1> DEFINE g == CHOOSE F : Eq(F)
<1>8. Eq(g)
  <2> HIDE DEF Eq
  <2> QED
    BY <1>7
<1>9. Read(v) = g[1]
  BY DEF Read
<1> HIDE DEF g, A, value, stops, out, next, step
<1>10. ASSUME NEW i \in Nat
       PROVE  /\ i > n => g[i] = nothing
              /\ ~(i > n) => g[i] = value(i, IF WantsValue(v[i]) THEN g[i + 2] ELSE g[i + 1])
  <2>1. CASE i > n
    BY <1>8, <2>1
  <2>2. CASE ~(i > n) /\ WantsValue(v[i])
    BY <1>8, <2>2 DEF WantsValue, value
  <2>3. CASE ~(i > n) /\ ~WantsValue(v[i])
    BY <1>8, <2>3 DEF WantsValue, value
  <2> QED
    BY <2>1, <2>2, <2>3
<1> HIDE DEF Eq
<1> DEFINE G == {i \in Nat : g[i] \in A}
<1>11. \A i \in Nat \ {0} : i \in G
  <2>1. n \in Nat
    OBVIOUS
  <2>2. \A i \in Nat : i > n => i \in G
    BY <1>2, <1>10
  <2>3. ASSUME NEW i \in 1..n, \A j \in Nat : j > i => j \in G
        PROVE  i \in G
    <3>1. i \in Nat /\ ~(i > n) /\ i + 1 \in Nat /\ i + 2 \in Nat /\ i + 1 > i /\ i + 2 > i
      BY <2>1
    <3>2. g[i + 1] \in A /\ g[i + 2] \in A
      BY <2>3, <3>1
    <3> QED
      BY <1>3, <1>10, <3>1, <3>2
  <2> HIDE DEF n, G
  <2> QED
    BY <2>1, <2>2, <2>3, CountingDown
<1>12. OperandsRead(g, v) /\ SettingsRead(g, v)
  <2>1. ASSUME NEW i \in Nat \ {0}
        PROVE  /\ g[i].operands =
                    IF i > Len(v) THEN << >>
                    ELSE IF WantsValue(v[i]) THEN g[i + 2].operands
                    ELSE IF IsOperand(v[i]) THEN <<v[i]>> \o g[i + 1].operands
                    ELSE g[i + 1].operands
               /\ g[i].settings =
                    IF i > Len(v) THEN << >>
                    ELSE IF WantsValue(v[i])
                         THEN IF v[i].kind = "settings" /\ i < Len(v)
                              THEN <<v[i + 1].dir>> \o g[i + 2].settings ELSE g[i + 2].settings
                    ELSE IF v[i].kind = "joined" THEN <<v[i].dir>> \o g[i + 1].settings
                    ELSE g[i + 1].settings
    <3>1. i \in Nat /\ i + 1 \in Nat \ {0} /\ i + 2 \in Nat \ {0}
      OBVIOUS
    <3>2. g[i + 1] \in A /\ g[i + 2] \in A
      BY <1>11, <3>1
    <3>3. CASE i > Len(v)
      BY <1>10, <3>1, <3>3
    <3>4. CASE ~(i > Len(v)) /\ WantsValue(v[i])
      <4>1. g[i] = value(i, g[i + 2])
        BY <1>10, <3>1, <3>4, Zenon
      <4> QED
        BY <1>3, <3>1, <3>2, <3>4, <4>1, ZenonT(30)
    <3>5. CASE ~(i > Len(v)) /\ ~WantsValue(v[i])
      <4>1. g[i] = value(i, g[i + 1])
        BY <1>10, <3>1, <3>5, Zenon
      <4>2. /\ g[i].operands = IF IsOperand(v[i]) THEN <<v[i]>> \o g[i + 1].operands
                               ELSE g[i + 1].operands
            /\ g[i].settings = IF v[i].kind = "joined" THEN <<v[i].dir>> \o g[i + 1].settings
                               ELSE g[i + 1].settings
        <5> DEFINE rest == g[i + 1]
        <5>1. rest \in A
          BY <3>2
        <5> HIDE DEF G, rest
        <5>2. /\ value(i, rest).operands = IF WantsValue(v[i]) \/ ~IsOperand(v[i])
                                           THEN rest.operands ELSE <<v[i]>> \o rest.operands
              /\ value(i, rest).settings =
                   IF WantsValue(v[i])
                   THEN IF v[i].kind = "settings" /\ i < Len(v)
                        THEN <<v[i + 1].dir>> \o rest.settings ELSE rest.settings
                   ELSE IF v[i].kind = "joined" THEN <<v[i].dir>> \o rest.settings
                   ELSE rest.settings
          BY <1>3, <3>1, <5>1
        <5>3. g[i] = value(i, rest)
          BY <4>1 DEF rest
        <5>4. /\ value(i, rest).operands = IF ~IsOperand(v[i])
                                           THEN rest.operands ELSE <<v[i]>> \o rest.operands
              /\ value(i, rest).settings =
                   IF v[i].kind = "joined" THEN <<v[i].dir>> \o rest.settings
                   ELSE rest.settings
          BY <3>5, <5>2
        <5> QED
          BY <5>3, <5>4 DEF rest
      <4> QED
        BY <3>5, <4>2
    <3> QED
      BY <3>3, <3>4, <3>5
  <2> QED
    BY <2>1 DEF OperandsRead, SettingsRead
<1> QED
  BY <1>9, <1>11, <1>12 DEF ReadFrom, A

\* What one word adds.
StepsAt(f, v, i) ==
  /\ i > Len(v) => f[i].operands = << >> /\ f[i].settings = << >>
  /\ i <= Len(v) /\ WantsValue(v[i]) =>
       /\ f[i].operands = f[i + 2].operands
       /\ v[i].kind = "settings" /\ i < Len(v) =>
            f[i].settings = <<v[i + 1].dir>> \o f[i + 2].settings
       /\ ~(v[i].kind = "settings" /\ i < Len(v)) =>
            f[i].settings = f[i + 2].settings
  /\ i <= Len(v) /\ ~WantsValue(v[i]) =>
       /\ IsOperand(v[i]) => f[i].operands = <<v[i]>> \o f[i + 1].operands
       /\ ~IsOperand(v[i]) => f[i].operands = f[i + 1].operands
       /\ v[i].kind = "joined" => f[i].settings = <<v[i].dir>> \o f[i + 1].settings
       /\ v[i].kind # "joined" => f[i].settings = f[i + 1].settings

LEMMA ReadSteps ==
  ASSUME NEW f, NEW v, Len(v) \in Nat, ReadFrom(f, v), NEW i \in Nat \ {0}
  PROVE  StepsAt(f, v, i)
<1>1. f[i].operands =
        IF i > Len(v) THEN << >>
        ELSE IF WantsValue(v[i]) THEN f[i + 2].operands
        ELSE IF IsOperand(v[i]) THEN <<v[i]>> \o f[i + 1].operands
        ELSE f[i + 1].operands
  BY Zenon DEF ReadFrom, OperandsRead
<1>2. f[i].settings =
        IF i > Len(v) THEN << >>
        ELSE IF WantsValue(v[i])
             THEN IF v[i].kind = "settings" /\ i < Len(v)
                  THEN <<v[i + 1].dir>> \o f[i + 2].settings ELSE f[i + 2].settings
        ELSE IF v[i].kind = "joined" THEN <<v[i].dir>> \o f[i + 1].settings
        ELSE f[i + 1].settings
  BY Zenon DEF ReadFrom, SettingsRead
<1>3. i <= Len(v) <=> ~(i > Len(v))
  OBVIOUS
<1> QED
  BY <1>1, <1>2, <1>3 DEF StepsAt

Shifts(v, s, d, m) ==
  /\ Len(v) \in Nat /\ Len(s) \in Nat /\ d \in Nat /\ m \in Nat
  /\ Len(v) = Len(s) + d
  /\ \A i \in 1..Len(s) : i >= m => v[i + d] = s[i]
SameAt(f, i, g, j) == f[i].operands = g[j].operands /\ f[i].settings = g[j].settings

\* What is read from a place on depends on the words from there only.
LEMMA Shifted ==
  ASSUME NEW v, NEW s, NEW d, NEW m, Shifts(v, s, d, m),
         NEW f, NEW g, ReadFrom(f, v), ReadFrom(g, s)
  PROVE  \A i \in Nat \ {0} : i >= m => SameAt(f, i + d, g, i)
<1>0. /\ Len(v) \in Nat /\ Len(s) \in Nat /\ d \in Nat /\ m \in Nat
      /\ Len(v) = Len(s) + d /\ \A i \in 1..Len(s) : i >= m => v[i + d] = s[i]
  BY DEF Shifts
<1> USE <1>0
<1> DEFINE n == Len(s)
           G == {i \in Nat : i > 0 /\ i >= m => SameAt(f, i + d, g, i)}
<1>1. ASSUME NEW i \in Nat, i > n PROVE i \in G
  <2>1. i \in Nat \ {0} /\ i + d \in Nat \ {0} /\ i + d > Len(v)
    BY <1>1
  <2>2. /\ f[i + d].operands = << >> /\ f[i + d].settings = << >>
        /\ g[i].operands = << >> /\ g[i].settings = << >>
    <3>1. StepsAt(f, v, i + d) /\ StepsAt(g, s, i)
      BY <2>1, ReadSteps
    <3> QED
      BY <1>1, <2>1, <3>1 DEF StepsAt
  <2> QED
    BY <2>2 DEF SameAt
<1>2. ASSUME NEW i \in 1..n, \A j \in Nat : j > i => j \in G
      PROVE  i \in G
  <2>1. SUFFICES ASSUME i >= m PROVE SameAt(f, i + d, g, i)
    BY DEF G
  <2>2. i \in Nat \ {0} /\ i + d \in Nat \ {0} /\ i + d <= Len(v) /\ i <= Len(s)
    OBVIOUS
  <2>3. (i + d) + 1 = (i + 1) + d /\ (i + d) + 2 = (i + 2) + d
    OBVIOUS
  <2>4. SameAt(f, (i + d) + 1, g, i + 1) /\ SameAt(f, (i + d) + 2, g, i + 2)
    <3>1. i + 1 \in G /\ i + 2 \in G
      BY <1>2
    <3>2. i + 1 > 0 /\ i + 1 >= m /\ i + 2 > 0 /\ i + 2 >= m
      BY <2>1
    <3> QED
      BY <2>3, <3>1, <3>2
  <2>5. v[i + d] = s[i]
    BY <2>1
  <2>6. (i + d < Len(v) <=> i < Len(s)) /\ (i < Len(s) => v[(i + d) + 1] = s[i + 1])
    <3>1. i < Len(s) => i + 1 \in 1..Len(s) /\ i + 1 >= m
      BY <2>1
    <3> QED
      BY <2>3, <3>1
  <2> DEFINE j == i + d
  <2>7. /\ j \in Nat \ {0} /\ j <= Len(v) /\ v[j] = s[i] /\ (j < Len(v) <=> i < Len(s))
        /\ (i < Len(s) => v[j + 1] = s[i + 1])
        /\ SameAt(f, j + 1, g, i + 1) /\ SameAt(f, j + 2, g, i + 2)
    BY <2>2, <2>4, <2>5, <2>6
  <2>s. StepsAt(f, v, j) /\ StepsAt(g, s, i)
    BY <2>2, <2>7, ReadSteps
  <2> HIDE DEF j, G
  <2>8. CASE WantsValue(s[i]) /\ s[i].kind = "settings" /\ i < Len(s)
    <3>1. /\ f[j].operands = f[j + 2].operands
          /\ f[j].settings = <<v[j + 1].dir>> \o f[j + 2].settings
      BY <2>7, <2>8, <2>s DEF StepsAt
    <3>2. /\ g[i].operands = g[i + 2].operands
          /\ g[i].settings = <<s[i + 1].dir>> \o g[i + 2].settings
      BY <2>2, <2>8, <2>s DEF StepsAt
    <3> QED
      BY <2>7, <2>8, <3>1, <3>2 DEF SameAt, j
  <2>9. CASE WantsValue(s[i]) /\ ~(s[i].kind = "settings" /\ i < Len(s))
    <3>1. /\ f[j].operands = f[j + 2].operands
          /\ f[j].settings = f[j + 2].settings
      BY <2>7, <2>9, <2>s DEF StepsAt
    <3>2. /\ g[i].operands = g[i + 2].operands
          /\ g[i].settings = g[i + 2].settings
      BY <2>2, <2>9, <2>s DEF StepsAt
    <3> QED
      BY <2>7, <3>1, <3>2 DEF SameAt, j
  <2>10. CASE ~WantsValue(s[i])
    <3>1. f[j].operands = IF IsOperand(v[j]) THEN <<v[j]>> \o f[j + 1].operands
                          ELSE f[j + 1].operands
      BY <2>7, <2>10, <2>s DEF StepsAt
    <3>2. g[i].operands = IF IsOperand(s[i]) THEN <<s[i]>> \o g[i + 1].operands
                          ELSE g[i + 1].operands
      BY <2>2, <2>10, <2>s DEF StepsAt
    <3>3. f[j].settings = IF v[j].kind = "joined" THEN <<v[j].dir>> \o f[j + 1].settings
                          ELSE f[j + 1].settings
      BY <2>7, <2>10, <2>s DEF StepsAt
    <3>4. g[i].settings = IF s[i].kind = "joined" THEN <<s[i].dir>> \o g[i + 1].settings
                          ELSE g[i + 1].settings
      BY <2>2, <2>10, <2>s DEF StepsAt
    <3> QED
      BY <2>7, <3>1, <3>2, <3>3, <3>4 DEF SameAt, j
  <2> QED
    BY <2>8, <2>9, <2>10
<1>3. \A i \in Nat \ {0} : i \in G
  <2> HIDE DEF G
  <2> QED
    BY <1>1, <1>2, CountingDown
<1> QED
  BY <1>3

\* Reading a word, and then the rest.
LEMMA ReadPlain ==
  ASSUME NEW A, NEW w \in A, NEW s \in Seq(A), ~WantsValue(w)
  PROVE  /\ Read(<<w>> \o s).operands =
              IF IsOperand(w) THEN <<w>> \o Read(s).operands ELSE Read(s).operands
         /\ Read(<<w>> \o s).settings =
              IF w.kind = "joined" THEN <<w.dir>> \o Read(s).settings ELSE Read(s).settings
<1>1. PICK g : ReadFrom(g, s) /\ Read(s) = g[1]
  <2>1. Len(s) \in Nat
    OBVIOUS
  <2> QED
    BY <2>1, ReadScans, Zenon
<1> DEFINE v == <<w>> \o s
<1>2. Len(v) \in Nat /\ Len(v) = Len(s) + 1 /\ Len(s) \in Nat
  OBVIOUS
<1>3. v[1] = w /\ \A i \in 1..Len(s) : v[i + 1] = s[i]
  OBVIOUS
<1> HIDE DEF v
<1>4. PICK f : ReadFrom(f, v) /\ Read(v) = f[1]
  BY <1>2, ReadScans, Zenon
<1>5. \A i \in Nat \ {0} : i >= 1 => SameAt(f, i + 1, g, i)
  <2>1. Shifts(v, s, 1, 1)
    BY <1>2, <1>3 DEF Shifts
  <2> QED
    BY <1>1, <1>4, <2>1, Shifted
<1>6. SameAt(f, 1 + 1, g, 1)
  BY <1>5
<1>7. /\ f[1].operands = IF IsOperand(w) THEN <<w>> \o f[1 + 1].operands
                         ELSE f[1 + 1].operands
      /\ f[1].settings = IF w.kind = "joined" THEN <<w.dir>> \o f[1 + 1].settings
                         ELSE f[1 + 1].settings
  <2>1. 1 \in Nat \ {0} /\ 1 <= Len(v)
    BY <1>2
  <2> QED
    <3>1. StepsAt(f, v, 1)
      BY <1>2, <1>4, <2>1, ReadSteps
    <3> QED
      BY <1>3, <2>1, <3>1 DEF StepsAt
<1> QED
  BY <1>1, <1>4, <1>6, <1>7 DEF v, SameAt

LEMMA ReadTaken ==
  ASSUME NEW A, NEW w \in A, NEW x \in A, NEW s \in Seq(A), WantsValue(w)
  PROVE  /\ Read(<<w>> \o (<<x>> \o s)).operands = Read(s).operands
         /\ Read(<<w>> \o (<<x>> \o s)).settings =
              IF w.kind = "settings" THEN <<x.dir>> \o Read(s).settings ELSE Read(s).settings
<1>1. PICK g : ReadFrom(g, s) /\ Read(s) = g[1]
  <2>1. Len(s) \in Nat
    OBVIOUS
  <2> QED
    BY <2>1, ReadScans, Zenon
<1> DEFINE v == <<w>> \o (<<x>> \o s)
<1>2. Len(v) \in Nat /\ Len(v) = Len(s) + 2 /\ Len(s) \in Nat
  OBVIOUS
<1>3. v[1] = w /\ v[1 + 1] = x /\ \A i \in 1..Len(s) : v[i + 2] = s[i]
  OBVIOUS
<1> HIDE DEF v
<1>4. PICK f : ReadFrom(f, v) /\ Read(v) = f[1]
  BY <1>2, ReadScans, Zenon
<1>5. \A i \in Nat \ {0} : i >= 1 => SameAt(f, i + 2, g, i)
  <2>1. Shifts(v, s, 2, 1)
    BY <1>2, <1>3 DEF Shifts
  <2> QED
    BY <1>1, <1>4, <2>1, Shifted
<1>6. SameAt(f, 1 + 2, g, 1)
  BY <1>5
<1>7. /\ f[1].operands = f[1 + 2].operands
      /\ f[1].settings = IF w.kind = "settings" THEN <<x.dir>> \o f[1 + 2].settings
                         ELSE f[1 + 2].settings
  <2>1. 1 \in Nat \ {0} /\ 1 <= Len(v) /\ 1 < Len(v)
    BY <1>2
  <2> QED
    <3>1. StepsAt(f, v, 1)
      BY <1>2, <1>4, <2>1, ReadSteps
    <3> QED
      BY <1>3, <2>1, <3>1 DEF StepsAt
<1> QED
  BY <1>1, <1>4, <1>6, <1>7 DEF v, SameAt

\* No option is the value of another, and none is without a value.
Settled(v) == \A i \in 1..Len(v) : WantsValue(v[i]) => i < Len(v) /\ v[i + 1].kind = "word"

\* The words before one which nothing takes for a value.
LEMMA ReadsLast ==
  ASSUME NEW A, NEW v \in Seq(A), Settled(v), NEW w, IsOperand(w)
  PROVE  /\ Read(Append(v, w)).operands = Append(Read(v).operands, w)
         /\ Read(Append(v, w)).settings = Read(v).settings
<1> DEFINE n == Len(v)
           u == Append(v, w)
<1>0. n \in Nat /\ Len(u) = n + 1 /\ u[n + 1] = w /\ \A i \in 1..n : u[i] = v[i]
  OBVIOUS
<1> HIDE DEF u
<1>1. PICK O, D, f : /\ \A i \in Nat \ {0} : f[i] \in Readouts(O, D)
                     /\ ReadFrom(f, v) /\ Read(v) = f[1]
  BY <1>0, ReadScans, Zenon
<1>2. PICK g : ReadFrom(g, u) /\ Read(u) = g[1]
  <2>1. Len(u) \in Nat
    BY <1>0
  <2> QED
    BY <2>1, ReadScans, Zenon
<1> DEFINE Claim(i) == /\ g[i].operands = Append(f[i].operands, w)
                       /\ g[i].settings = f[i].settings
           G == {i \in Nat : i <= n + 1 => Claim(i)}
<1>3. \A i \in Nat : i > n + 1 => i \in G
  BY <1>0
<1>4. ASSUME NEW i \in 1..(n + 1), \A j \in Nat : j > i => j \in G
      PROVE  i \in G
  <2> SUFFICES Claim(i)
    OBVIOUS
  <2>0. i \in Nat \ {0} /\ Len(u) \in Nat /\ Len(v) \in Nat
    BY <1>0
  <2>1. StepsAt(f, v, i) /\ StepsAt(g, u, i)
    BY <1>1, <1>2, <2>0, ReadSteps
  <2>2. CASE i = n + 1
    <3>1. f[i].operands = << >> /\ f[i].settings = << >>
      BY <1>0, <2>1, <2>2 DEF StepsAt
    <3>2. u[i] = w /\ i <= Len(u) /\ ~WantsValue(u[i]) /\ IsOperand(u[i]) /\ u[i].kind # "joined"
      BY <1>0, <2>2 DEF IsOperand, WantsValue
    <3>3. g[i].operands = <<w>> \o g[i + 1].operands /\ g[i].settings = g[i + 1].settings
      BY <2>1, <3>2 DEF StepsAt
    <3>4. g[i + 1].operands = << >> /\ g[i + 1].settings = << >>
      <4>1. i + 1 \in Nat \ {0} /\ i + 1 > Len(u)
        BY <1>0, <2>2
      <4>2. StepsAt(g, u, i + 1)
        BY <1>2, <2>0, <4>1, ReadSteps
      <4> QED
        BY <4>1, <4>2 DEF StepsAt
    <3>5. <<w>> \o << >> = Append(<< >>, w)
      OBVIOUS
    <3> QED
      BY <3>1, <3>3, <3>4, <3>5
  <2>3. CASE i # n + 1
    <3>0. i \in 1..n /\ i <= Len(v) /\ i <= Len(u) /\ u[i] = v[i] /\ i < Len(u)
      BY <1>0, <2>3
    <3>1. Claim(i + 1)
      <4>1. i + 1 \in G /\ i + 1 <= n + 1
        BY <1>4, <3>0
      <4> HIDE DEF Claim
      <4> QED
        BY <4>1
    <3> DEFINE x == <<v[i]>>
    <3>2. CASE WantsValue(v[i])
      <4>1. i < Len(v)
        BY <3>0, <3>2 DEF Settled
      <4>2. Claim(i + 2)
        <5>1. i + 2 \in G /\ i + 2 <= n + 1
          BY <1>0, <1>4, <4>1
        <5> HIDE DEF Claim
        <5> QED
          BY <5>1
      <4>3. u[i + 1] = v[i + 1]
        BY <1>0, <4>1
      <4> QED
        BY <2>1, <3>0, <3>2, <4>1, <4>2, <4>3 DEF StepsAt
    <3>3. CASE ~WantsValue(v[i])
      <4>1. g[i].settings = f[i].settings
        BY <2>1, <3>0, <3>1, <3>3 DEF StepsAt
      <4>2. CASE IsOperand(v[i])
        <5>1. f[i].operands = <<v[i]>> \o f[i + 1].operands
          BY <2>1, <3>0, <3>3, <4>2 DEF StepsAt
        <5>2. g[i].operands = <<v[i]>> \o g[i + 1].operands
          BY <2>1, <3>0, <3>3, <4>2 DEF StepsAt
        <5>3. <<v[i]>> \o Append(f[i + 1].operands, w) = Append(<<v[i]>> \o f[i + 1].operands, w)
          <6>1. f[i + 1].operands \in Seq(O)
            BY <1>1, <2>0 DEF Readouts
          <6> QED
            BY <6>1, SMTT(30)
        <5> QED
          BY <3>1, <4>1, <5>1, <5>2, <5>3
      <4>3. CASE ~IsOperand(v[i])
        <5>1. f[i].operands = f[i + 1].operands
          BY <2>1, <3>0, <3>3, <4>3 DEF StepsAt
        <5>2. g[i].operands = g[i + 1].operands
          BY <2>1, <3>0, <3>3, <4>3 DEF StepsAt
        <5> QED
          BY <3>1, <4>1, <5>1, <5>2
      <4> QED
        BY <4>2, <4>3
    <3> QED
      BY <3>2, <3>3
  <2> QED
    BY <2>2, <2>3
<1>5. \A i \in Nat \ {0} : i \in G
  <2>1. n + 1 \in Nat
    BY <1>0
  <2> HIDE DEF G, n
  <2> QED
    BY <1>3, <1>4, <2>1, CountingDown
<1>6. Claim(1)
  BY <1>0, <1>5
<1> QED
  BY <1>1, <1>2, <1>6 DEF u

\* A command that lacks no value, and in which an option's value is no option.
LEMMA OrderlyIsSettled ==
  ASSUME NEW A, NEW v \in Seq(A), ~Dangles(v),
         \A i \in 1..(Len(v) - 1) : WantsValue(v[i]) => v[i + 1].kind = "word"
  PROVE  Settled(v)
<1> DEFINE n == Len(v)
           u == Append(v, Prompt)
<1>0. n \in Nat /\ Len(u) = n + 1 /\ Len(u) \in Nat /\ \A i \in 1..n : u[i] = v[i]
  OBVIOUS
<1> HIDE DEF u
<1>1. \A i \in 1..(n - 1) : WantsValue(v[i]) => v[i + 1].kind = "word"
  OBVIOUS
<1>2. ASSUME n > 0, WantsValue(v[n]) PROVE FALSE
  <2>1. PICK f : ReadFrom(f, v) /\ Read(v) = f[1]
    BY <1>0, ReadScans, Zenon
  <2>2. PICK g : ReadFrom(g, u) /\ Read(u) = g[1]
    BY <1>0, ReadScans, Zenon
  <2> DEFINE G == {i \in Nat : i <= n => g[i].operands = f[i].operands}
  <2>3. \A i \in Nat : i > n => i \in G
    BY <1>0
  <2>4. ASSUME NEW i \in 1..n, \A j \in Nat : j > i => j \in G
        PROVE  i \in G
    <3>0. i \in Nat \ {0} /\ i <= Len(v) /\ i <= Len(u) /\ u[i] = v[i]
      BY <1>0
    <3>1. StepsAt(f, v, i) /\ StepsAt(g, u, i)
      BY <1>0, <2>1, <2>2, <3>0, ReadSteps
    <3>2. CASE i = n
      <4>1. i + 2 \in Nat \ {0} /\ i + 2 > Len(v) /\ i + 2 > Len(u)
        BY <1>0, <3>2
      <4>2. StepsAt(f, v, i + 2) /\ StepsAt(g, u, i + 2)
        BY <1>0, <2>1, <2>2, <4>1, ReadSteps
      <4>3. f[i + 2].operands = << >> /\ g[i + 2].operands = << >>
        BY <4>1, <4>2 DEF StepsAt
      <4> QED
        BY <1>2, <3>0, <3>1, <3>2, <4>3 DEF StepsAt
    <3>3. CASE i # n /\ WantsValue(v[i])
      <4>1. i \in 1..(n - 1) /\ v[i + 1].kind = "word"
        BY <1>0, <1>1, <3>3
      <4>2. i + 1 # n
        BY <1>2, <4>1 DEF WantsValue
      <4>3. i + 2 \in G /\ i + 2 <= n
        BY <1>0, <2>4, <4>1, <4>2
      <4> QED
        BY <3>0, <3>1, <3>3, <4>3 DEF StepsAt
    <3>4. CASE i # n /\ ~WantsValue(v[i])
      <4>1. i + 1 \in G /\ i + 1 <= n
        BY <1>0, <2>4, <3>4
      <4>2. g[i + 1].operands = f[i + 1].operands
        BY <4>1
      <4> QED
        BY <3>0, <3>1, <3>4, <4>2 DEF StepsAt
    <3> QED
      BY <3>2, <3>3, <3>4
  <2>5. \A i \in Nat \ {0} : i \in G
    <3> HIDE DEF G, n
    <3> QED
      BY <1>0, <2>3, <2>4, CountingDown
  <2>6. g[1].operands = f[1].operands
    BY <1>0, <1>2, <2>5
  <2> QED
    BY <2>1, <2>2, <2>6 DEF Dangles, u
<1>3. ASSUME NEW i \in 1..n, WantsValue(v[i]) PROVE i < n /\ v[i + 1].kind = "word"
  <2>1. i # n
    BY <1>2, <1>3
  <2>2. i \in 1..(n - 1)
    BY <1>0, <2>1
  <2> QED
    BY <1>1, <1>3, <2>2
<1> QED
  BY <1>3 DEF Settled

\* F is E without the d words from k on, which are a settings option.
Removes(E, F, k, d) ==
  /\ k \in 1..Len(E)
  /\ \/ d = 2 /\ E[k].kind = "settings"
     \/ d = 1 /\ E[k].kind = "joined"
  /\ Len(F) \in Nat /\ Len(E) = Len(F) + d
  /\ \A i \in 1..Len(F) : F[i] = IF i < k THEN E[i] ELSE E[i + d]

\* Without a settings option the operands are the same, and one setting less is read.
LEMMA RemovedIsUnread ==
  ASSUME NEW A, NEW E \in Seq(A), Settled(E), NEW F, NEW k, NEW d, Removes(E, F, k, d)
  PROVE  /\ Read(F).operands = Read(E).operands
         /\ Len(Read(E).settings) = Len(Read(F).settings) + 1
         /\ \E D : Read(F).settings \in Seq(D)
<1>0. /\ Len(E) \in Nat /\ Len(F) \in Nat /\ Len(E) = Len(F) + d /\ k \in 1..Len(E)
      /\ d \in {1, 2} /\ k - 1 <= Len(F)
      /\ \A i \in 1..Len(F) : F[i] = IF i < k THEN E[i] ELSE E[i + d]
  <2>1. Len(E) \in Nat /\ d \in {1, 2} /\ k \in 1..Len(E) /\ Len(E) = Len(F) + d /\ Len(F) \in Nat
    BY DEF Removes
  <2>2. d = 2 => k < Len(E)
    BY DEF Removes, Settled, WantsValue
  <2>3. k - 1 <= Len(F)
    BY <2>1, <2>2
  <2> QED
    BY <2>1, <2>3 DEF Removes
<1>1. PICK P, C, f : /\ \A i \in Nat \ {0} : f[i] \in Readouts(P, C)
                     /\ ReadFrom(f, E) /\ Read(E) = f[1]
  BY <1>0, ReadScans, Zenon
<1>2. PICK O, D, g : /\ \A i \in Nat \ {0} : g[i] \in Readouts(O, D)
                     /\ ReadFrom(g, F) /\ Read(F) = g[1]
  BY <1>0, ReadScans, Zenon
<1>3. SameAt(f, k + d, g, k)
  <2>1. Shifts(E, F, d, k)
    BY <1>0 DEF Shifts
  <2>2. k \in Nat \ {0} /\ k >= k
    BY <1>0
  <2> QED
    BY <1>1, <1>2, <2>1, <2>2, Shifted
<1> DEFINE Claim(i) == /\ g[i].operands = f[i].operands
                       /\ Len(f[i].settings) = Len(g[i].settings) + 1
           G == {i \in Nat : i <= k => Claim(i)}
<1>4. \A i \in Nat : i > k => i \in G
  BY <1>0
<1>5. ASSUME NEW i \in 1..k, \A j \in Nat : j > i => j \in G
      PROVE  i \in G
  <2> SUFFICES Claim(i)
    OBVIOUS
  <2>0. k \in Nat /\ i \in Nat \ {0} /\ i <= Len(E)
    BY <1>0
  <2>1. StepsAt(f, E, i) /\ StepsAt(g, F, i)
    BY <1>0, <1>1, <1>2, <2>0, ReadSteps
  <2>t. \A j \in Nat \ {0} : g[j].settings \in Seq(D) /\ f[j].settings \in Seq(C)
    BY <1>1, <1>2 DEF Readouts
  <2>2. CASE i = k
    <3>1. \E x : f[k].settings = <<x>> \o f[k + d].settings
      <4>1. CASE d = 2 /\ E[k].kind = "settings"
        <5>1. k < Len(E)
          BY <1>0, <4>1 DEF Settled, WantsValue
        <5> QED
          BY <2>0, <2>1, <2>2, <4>1, <5>1 DEF StepsAt, WantsValue
      <4>2. CASE d = 1 /\ E[k].kind = "joined"
        BY <2>0, <2>1, <2>2, <4>2 DEF StepsAt, WantsValue
      <4> QED
        BY <4>1, <4>2 DEF Removes
    <3>2. f[k].operands = f[k + d].operands
      <4>1. CASE d = 2 /\ E[k].kind = "settings"
        BY <2>0, <2>1, <2>2, <4>1 DEF StepsAt, WantsValue
      <4>2. CASE d = 1 /\ E[k].kind = "joined"
        BY <2>0, <2>1, <2>2, <4>2 DEF StepsAt, WantsValue, IsOperand
      <4> QED
        BY <4>1, <4>2 DEF Removes
    <3>3. PICK x : f[k].settings = <<x>> \o g[k].settings
      BY <1>3, <3>1 DEF SameAt
    <3>4. g[k].settings \in Seq(D)
      BY <2>0, <2>2, <2>t
    <3>5. Len(<<x>> \o g[k].settings) = Len(g[k].settings) + 1
      BY <3>4
    <3> QED
      BY <1>3, <2>2, <3>2, <3>3, <3>5 DEF SameAt
  <2>3. CASE i < k
    <3>0. i <= Len(F) /\ F[i] = E[i]
      BY <1>0, <2>3
    <3>1. Claim(i + 1)
      <4>1. i + 1 \in G /\ i + 1 <= k
        BY <1>5, <2>0, <2>3
      <4> HIDE DEF Claim
      <4> QED
        BY <4>1
    <3>2. CASE WantsValue(E[i])
      <4>1. i < Len(E) /\ E[i + 1].kind = "word"
        BY <2>0, <3>2 DEF Settled
      <4>2. i + 1 # k
        BY <4>1 DEF Removes
      <4>3. i + 2 <= k /\ i < Len(F) /\ F[i + 1] = E[i + 1] /\ i + 2 \in Nat \ {0}
        BY <1>0, <2>3, <4>2
      <4>4. Claim(i + 2)
        <5>1. i + 2 \in G
          BY <1>5, <4>3
        <5> HIDE DEF Claim
        <5> QED
          BY <4>3, <5>1
      <4>5. g[i].operands = f[i].operands
        BY <2>0, <2>1, <3>0, <3>2, <4>4 DEF StepsAt
      <4>6. CASE E[i].kind = "settings"
        <5>1. /\ f[i].settings = <<E[i + 1].dir>> \o f[i + 2].settings
              /\ g[i].settings = <<E[i + 1].dir>> \o g[i + 2].settings
          BY <2>0, <2>1, <3>0, <3>2, <4>1, <4>3, <4>6 DEF StepsAt
        <5>2. Len(g[i].settings) = Len(g[i + 2].settings) + 1
          <6>1. g[i + 2].settings \in Seq(D)
            BY <2>t, <4>3
          <6> QED
            BY <5>1, <6>1
        <5>3. Len(f[i].settings) = Len(f[i + 2].settings) + 1
          <6>1. f[i + 2].settings \in Seq(C)
            BY <2>t, <4>3
          <6> QED
            BY <5>1, <6>1
        <5> QED
          BY <4>4, <4>5, <5>2, <5>3
      <4>7. CASE E[i].kind # "settings"
        <5>1. f[i].settings = f[i + 2].settings /\ g[i].settings = g[i + 2].settings
          BY <2>0, <2>1, <3>0, <3>2, <4>7 DEF StepsAt
        <5> QED
          BY <4>4, <4>5, <5>1
      <4> QED
        BY <4>6, <4>7
    <3>3. CASE ~WantsValue(E[i])
      <4>1. g[i].operands = f[i].operands
        BY <2>0, <2>1, <3>0, <3>1, <3>3 DEF StepsAt
      <4>2. CASE E[i].kind = "joined"
        <5>1. /\ f[i].settings = <<E[i].dir>> \o f[i + 1].settings
              /\ g[i].settings = <<E[i].dir>> \o g[i + 1].settings
          BY <2>0, <2>1, <3>0, <3>3, <4>2 DEF StepsAt
        <5>2. Len(g[i].settings) = Len(g[i + 1].settings) + 1
          <6>1. g[i + 1].settings \in Seq(D)
            BY <2>t, <2>0
          <6> QED
            BY <5>1, <6>1
        <5>3. Len(f[i].settings) = Len(f[i + 1].settings) + 1
          <6>1. f[i + 1].settings \in Seq(C)
            BY <2>t, <2>0
          <6> QED
            BY <5>1, <6>1
        <5> QED
          BY <3>1, <4>1, <5>2, <5>3
      <4>3. CASE E[i].kind # "joined"
        <5>1. f[i].settings = f[i + 1].settings /\ g[i].settings = g[i + 1].settings
          BY <2>0, <2>1, <3>0, <3>3, <4>3 DEF StepsAt
        <5> QED
          BY <3>1, <4>1, <5>1
      <4> QED
        BY <4>2, <4>3
    <3> QED
      BY <3>2, <3>3
  <2>4. i = k \/ i < k
    BY <2>0
  <2> HIDE DEF Claim
  <2> QED
    BY <2>2, <2>3, <2>4
<1>6. \A i \in Nat \ {0} : i \in G
  <2>1. k \in Nat
    BY <1>0
  <2> HIDE DEF G
  <2> QED
    BY <1>4, <1>5, <2>1, CountingDown
<1>7. Claim(1)
  BY <1>0, <1>6
<1>8. g[1].settings \in Seq(D)
  BY <1>2 DEF Readouts
<1> QED
  BY <1>1, <1>2, <1>7, <1>8

\* The words without one of them.
LEMMA WithoutOne ==
  ASSUME NEW A, NEW s \in Seq(A), NEW k \in 1..Len(s)
  PROVE  /\ RemoveAt(s, k) \in Seq(A) /\ Len(RemoveAt(s, k)) = Len(s) - 1
         /\ \A i \in 1..(Len(s) - 1) :
              RemoveAt(s, k)[i] = IF i < k THEN s[i] ELSE s[i + 1]
<1> DEFINE a == SubSeq(s, 1, k - 1)
           b == SubSeq(s, k + 1, Len(s))
<1>1. /\ a \in Seq(A) /\ Len(a) = k - 1 /\ \A i \in 1..(k - 1) : a[i] = s[i]
  OBVIOUS
<1>2. /\ b \in Seq(A) /\ Len(b) = Len(s) - k /\ \A i \in 1..(Len(s) - k) : b[i] = s[i + k]
  OBVIOUS
<1>3. RemoveAt(s, k) = a \o b
  BY DEF RemoveAt
<1>4. Len(s) \in Nat /\ k \in Nat
  OBVIOUS
<1> HIDE DEF a, b
<1>5. ASSUME NEW i \in 1..(Len(s) - 1)
      PROVE  (a \o b)[i] = IF i < k THEN s[i] ELSE s[i + 1]
  <2>1. CASE i < k
    BY <1>1, <1>2, <1>4, <2>1
  <2>2. CASE ~(i < k)
    <3>1. (a \o b)[i] = b[i - (k - 1)]
      BY <1>1, <1>2, <1>4, <2>2
    <3>2. i - (k - 1) \in 1..(Len(s) - k) /\ (i - (k - 1)) + k = i + 1
      BY <1>4, <2>2
    <3> QED
      BY <1>2, <2>2, <3>1, <3>2
  <2> QED
    BY <2>1, <2>2
<1>6. a \o b \in Seq(A) /\ Len(a \o b) = Len(s) - 1
  <2>1. a \o b \in Seq(A) /\ Len(a \o b) = Len(a) + Len(b)
    BY <1>1, <1>2, ConcatProperties
  <2> QED
    BY <1>1, <1>2, <1>4, <2>1
<1> QED
  BY <1>3, <1>5, <1>6

\* What is taken away where the settings can not be placed.
LEMMA DroppedIsAnOption ==
  ASSUME NEW A, NEW v \in Seq(A), Settled(v)
  PROVE  /\ WithoutSettings(v) \in Seq(A)
         /\ \/ /\ WithoutSettings(v) = v
               /\ \A i \in 1..Len(v) : v[i].kind \notin {"settings", "joined"}
            \/ \E k, d : Removes(v, WithoutSettings(v), k, d)
<1> DEFINE S(K) == {i \in 1..Len(v) : v[i].kind = K}
           split == SelectInSeq(v, LAMBDA w : w.kind = "settings")
           joined == SelectInSeq(v, LAMBDA w : w.kind = "joined")
           W == WithoutSettings(v)
<1>0. Len(v) \in Nat
  OBVIOUS
<1>1. split = IF S("settings") # {} THEN Min(S("settings")) ELSE 0
  BY DEF SelectInSeq
<1>2. joined = IF S("joined") # {} THEN Min(S("joined")) ELSE 0
  BY DEF SelectInSeq
<1>3. \A K : S(K) # {} => Min(S(K)) \in S(K)
  <2>1. \A K : S(K) \subseteq 1..Len(v)
    OBVIOUS
  <2> HIDE DEF S
  <2> QED
    BY <1>0, <2>1, Extremes
<1>4. W = IF split # 0
          THEN IF split = Len(v) THEN v ELSE RemoveAt(RemoveAt(v, split + 1), split)
          ELSE IF joined # 0 THEN RemoveAt(v, joined) ELSE v
  BY Zenon DEF WithoutSettings
<1> HIDE DEF split, joined, W
<1>5. CASE S("settings") # {}
  <2>1. split \in 1..Len(v) /\ v[split].kind = "settings" /\ split < Len(v) /\ split # 0
    <3>1. split \in S("settings")
      BY <1>1, <1>3, <1>5
    <3> QED
      BY <3>1 DEF Settled, WantsValue
  <2> DEFINE u == RemoveAt(v, split + 1)
  <2>2. /\ u \in Seq(A) /\ Len(u) = Len(v) - 1
        /\ \A i \in 1..(Len(v) - 1) : u[i] = IF i < split + 1 THEN v[i] ELSE v[i + 1]
    <3>1. split + 1 \in 1..Len(v)
      BY <2>1
    <3> QED
      BY <3>1, WithoutOne
  <2> HIDE DEF u
  <2>3. W = RemoveAt(u, split)
    BY <1>4, <2>1 DEF u
  <2>4. /\ W \in Seq(A) /\ Len(W) = Len(u) - 1
        /\ \A i \in 1..(Len(u) - 1) : W[i] = IF i < split THEN u[i] ELSE u[i + 1]
    <3>1. split \in 1..Len(u)
      BY <2>1, <2>2
    <3> QED
      BY <2>2, <2>3, <3>1, WithoutOne
  <2>5. \A i \in 1..Len(W) : W[i] = IF i < split THEN v[i] ELSE v[i + 2]
    <3> SUFFICES ASSUME NEW i \in 1..Len(W) PROVE W[i] = IF i < split THEN v[i] ELSE v[i + 2]
      OBVIOUS
    <3>1. /\ i \in 1..(Len(u) - 1) /\ i \in 1..(Len(v) - 1) /\ i + 1 \in 1..(Len(v) - 1)
          /\ i + 1 + 1 = i + 2
      BY <1>0, <2>2, <2>4
    <3>2. CASE i < split
      <4>1. i < split + 1
        BY <2>1, <3>2
      <4> QED
        BY <2>2, <2>4, <3>1, <3>2, <4>1
    <3>3. CASE ~(i < split)
      <4>1. ~(i + 1 < split + 1)
        BY <2>1, <3>3
      <4> QED
        BY <2>2, <2>4, <3>1, <3>3, <4>1
    <3> QED
      BY <3>2, <3>3
  <2>6. Removes(v, W, split, 2)
    BY <1>0, <2>1, <2>2, <2>4, <2>5 DEF Removes
  <2> QED
    BY <2>4, <2>6 DEF W
<1>6. CASE S("settings") = {} /\ S("joined") # {}
  <2>1. joined \in 1..Len(v) /\ v[joined].kind = "joined" /\ joined # 0
    <3>1. joined \in S("joined")
      BY <1>2, <1>3, <1>6
    <3> QED
      BY <3>1
  <2>2. W = RemoveAt(v, joined)
    BY <1>1, <1>4, <1>6, <2>1
  <2>3. /\ W \in Seq(A) /\ Len(W) = Len(v) - 1
        /\ \A i \in 1..(Len(v) - 1) : W[i] = IF i < joined THEN v[i] ELSE v[i + 1]
    BY <2>1, <2>2, WithoutOne
  <2>4. Removes(v, W, joined, 1)
    BY <1>0, <2>1, <2>3 DEF Removes
  <2> QED
    BY <2>3, <2>4 DEF W
<1>7. CASE S("settings") = {} /\ S("joined") = {}
  <2>1. W = v
    BY <1>1, <1>2, <1>4, <1>7
  <2>2. \A i \in 1..Len(v) : v[i].kind \notin {"settings", "joined"}
    BY <1>7
  <2> QED
    BY <2>1, <2>2 DEF W
<1> QED
  BY <1>5, <1>6, <1>7

LEMMA RemovedIsSettled ==
  ASSUME NEW A, NEW E \in Seq(A), Settled(E), NEW F, NEW k, NEW d, Removes(E, F, k, d)
  PROVE  Settled(F)
<1>0. /\ Len(E) \in Nat /\ Len(F) \in Nat /\ Len(E) = Len(F) + d /\ k \in 1..Len(E)
      /\ d \in {1, 2} /\ \A i \in 1..Len(F) : F[i] = IF i < k THEN E[i] ELSE E[i + d]
  BY DEF Removes
<1>1. k - 1 <= Len(F)
  <2>1. d = 2 => k < Len(E)
    BY DEF Removes, Settled, WantsValue
  <2> QED
    BY <1>0, <2>1
<1>2. ASSUME NEW i \in 1..Len(F), WantsValue(F[i])
      PROVE  i < Len(F) /\ F[i + 1].kind = "word"
  <2>1. CASE i < k
    <3>1. F[i] = E[i] /\ i \in 1..Len(E)
      BY <1>0, <2>1
    <3>2. E[i + 1].kind = "word"
      BY <1>2, <3>1 DEF Settled
    <3>3. i + 1 # k
      BY <3>2 DEF Removes
    <3>4. i + 1 \in 1..Len(F) /\ i + 1 < k
      BY <1>0, <1>1, <2>1, <3>3
    <3> QED
      BY <1>0, <3>2, <3>4
  <2>2. CASE ~(i < k)
    <3>1. F[i] = E[i + d] /\ i + d \in 1..Len(E)
      BY <1>0, <2>2
    <3>2. i + d < Len(E) /\ E[(i + d) + 1].kind = "word"
      BY <1>2, <3>1 DEF Settled
    <3>3. i + 1 \in 1..Len(F) /\ ~(i + 1 < k) /\ (i + 1) + d = (i + d) + 1
      BY <1>0, <2>2, <3>2
    <3>4. F[i + 1] = E[(i + 1) + d]
      BY <1>0, <3>3
    <3> QED
      BY <1>0, <3>2, <3>3, <3>4
  <2> QED
    BY <2>1, <2>2
<1> QED
  BY <1>2 DEF Settled

LEMMA NoneGiven ==
  ASSUME NEW A, NEW v \in Seq(A), \A i \in 1..Len(v) : v[i].kind \notin {"settings", "joined"}
  PROVE  Read(v).settings = << >>
<1> DEFINE n == Len(v)
<1>0. n \in Nat
  OBVIOUS
<1>1. PICK f : ReadFrom(f, v) /\ Read(v) = f[1]
  BY <1>0, ReadScans, Zenon
<1> DEFINE G == {i \in Nat : i > 0 => f[i].settings = << >>}
<1>2. ASSUME NEW i \in Nat, i > n PROVE i \in G
  <2>1. StepsAt(f, v, i) /\ i > Len(v)
    BY <1>0, <1>1, <1>2, ReadSteps
  <2> QED
    BY <2>1 DEF StepsAt
<1>3. ASSUME NEW i \in 1..n, \A j \in Nat : j > i => j \in G
      PROVE  i \in G
  <2>1. StepsAt(f, v, i) /\ i <= Len(v)
    BY <1>0, <1>1, ReadSteps
  <2>2. f[i + 1].settings = << >> /\ f[i + 2].settings = << >>
    <3>1. i + 1 \in G /\ i + 2 \in G
      BY <1>3
    <3> QED
      BY <3>1
  <2> QED
    BY <2>1, <2>2 DEF StepsAt
<1>4. \A i \in Nat \ {0} : i \in G
  <2> HIDE DEF G, n
  <2> QED
    BY <1>0, <1>2, <1>3, CountingDown
<1> QED
  BY <1>1, <1>4

\* Without its --ephemeral options a command is read the same.
LEMMA StrippedReadsTheSame ==
  ASSUME NEW A, NEW v \in Seq(A), Settled(v), NEW debug
  PROVE  /\ Read(StripEphemeral(v, debug)).operands = Read(v).operands
         /\ Read(StripEphemeral(v, debug)).settings = Read(v).settings
<1> DEFINE n == Len(v)
           ps == [i \in DOMAIN v |-> IF v[i].kind = "ephemeral" THEN << >> ELSE <<v[i]>>]
<1>1. CASE ~debug
  BY <1>1 DEF StripEphemeral
<1>2. CASE debug
  <2>0. /\ n \in Nat /\ ps \in Seq(Seq(A)) /\ Len(ps) = n
        /\ \A i \in 1..n : ps[i] = IF v[i].kind = "ephemeral" THEN << >> ELSE <<v[i]>>
    <3>1. DOMAIN v = 1..n /\ n \in Nat
      OBVIOUS
    <3>2. \A i \in 1..n : (IF v[i].kind = "ephemeral" THEN << >> ELSE <<v[i]>>) \in Seq(A)
      OBVIOUS
    <3>3. ps \in [1..n -> Seq(A)]
      BY <3>1, <3>2
    <3> QED
      BY <3>1, <3>3
  <2>1. StripEphemeral(v, debug) = FlattenSeq(ps)
    BY <1>2 DEF StripEphemeral
  <2>n. v \in [1..n -> A]
    OBVIOUS
  <2> HIDE DEF ps
  <2>2. PICK h \in [Nat -> Seq(A)] :
          FlattenSeq(ps) = h[1] /\ h[Len(ps) + 1] = << >> /\ Flattens(h, ps)
    BY <2>0, Flattening
  <2>3. PICK f : ReadFrom(f, v) /\ Read(v) = f[1]
    BY <2>0, ReadScans, Zenon
  <2> DEFINE Claim(i) == /\ Read(h[i]).operands = f[i].operands
                         /\ Read(h[i]).settings = f[i].settings
             G == {i \in Nat : i <= n + 1 => Claim(i)}
  <2>4. \A i \in Nat : i > n + 1 => i \in G
    BY <2>0
  <2>5. ASSUME NEW i \in 1..(n + 1), \A j \in Nat : j > i => j \in G
        PROVE  i \in G
    <3> SUFFICES Claim(i)
      OBVIOUS
    <3>0. i \in Nat \ {0} /\ Len(v) \in Nat
      BY <2>0, SMTT(30)
    <3>1. StepsAt(f, v, i)
      BY <2>3, <3>0, ReadSteps
    <3>2. CASE i = n + 1
      <4>1. h[i] = << >>
        BY <2>0, <2>2, <3>2
      <4>2. f[i].operands = << >> /\ f[i].settings = << >>
        BY <2>0, <3>1, <3>2 DEF StepsAt
      <4>3. Read(<< >>).operands = << >> /\ Read(<< >>).settings = << >>
        <5>1. Len(<< >>) = 0 /\ Len(<< >>) \in Nat /\ 1 \in Nat \ {0}
          OBVIOUS
        <5>2. PICK g : ReadFrom(g, << >>) /\ Read(<< >>) = g[1]
          BY <5>1, ReadScans, Zenon
        <5>3. StepsAt(g, << >>, 1)
          BY <5>1, <5>2, ReadSteps
        <5> QED
          BY <5>1, <5>2, <5>3 DEF StepsAt
      <4> QED
        BY <4>1, <4>2, <4>3
    <3>3. CASE i # n + 1
      <4>0. i \in 1..n /\ i <= Len(v) /\ v[i] \in A
        <5>1. n \in Nat
          BY <2>0
        <5>2. i \in 1..n /\ i <= Len(v)
          BY <3>3, <5>1, SMTT(30)
        <5> QED
          BY <2>n, <5>2
      <4>n. n \in Nat /\ i \in Nat
        BY <2>0, <3>0
      <4>h. h[i] = ps[i] \o h[i + 1] /\ h[i + 1] \in Seq(A)
        <5>1. h[i] = ps[i] \o h[i + 1]
          BY <2>0, <2>2, <4>0 DEF Flattens
        <5> QED
          BY <2>2, <3>0, <5>1
      <4>1. Claim(i + 1)
        <5>1. i + 1 \in G /\ i + 1 <= n + 1
          <6>1. i + 1 \in Nat /\ i + 1 > i /\ i + 1 <= n + 1
            BY <4>n, <4>0
          <6> HIDE DEF G, n
          <6> QED
            BY <2>5, <6>1
        <5> HIDE DEF Claim
        <5> QED
          BY <5>1
      <4>2. CASE v[i].kind = "ephemeral"
        <5>1. h[i] = h[i + 1]
          <6>1. ps[i] = << >>
            BY <2>0, <4>0, <4>2
          <6> QED
            BY <4>h, <6>1
        <5>2. f[i].operands = f[i + 1].operands /\ f[i].settings = f[i + 1].settings
          BY <3>1, <4>0, <4>2 DEF StepsAt, WantsValue, IsOperand
        <5> QED
          BY <4>1, <5>1, <5>2
      <4>3. CASE WantsValue(v[i])
        <5>1. i < Len(v) /\ v[i + 1].kind = "word" /\ i + 1 \in 1..n /\ v[i + 1] \in A
          <6>1. i < Len(v) /\ v[i + 1].kind = "word"
            BY <4>0, <4>3 DEF Settled
          <6>2. i + 1 \in 1..n
            BY <2>0, <3>0, <6>1
          <6> QED
            BY <6>1, <6>2
        <5>2. Claim(i + 2) /\ h[i + 2] \in Seq(A)
          <6>1. i + 2 \in G /\ i + 2 <= n + 1 /\ i + 2 \in Nat
            <7>1. i + 2 \in Nat /\ i + 2 > i /\ i + 2 <= n + 1
              <8>1. \A k, m \in Nat : k + 1 \in 1..m => k + 2 \in Nat /\ k + 2 > k /\ k + 2 <= m + 1
                OBVIOUS
              <8>2. i + 1 \in 1..n
                BY <5>1
              <8> HIDE DEF n
              <8> QED
                BY <4>n, <8>1, <8>2
            <7> HIDE DEF G, n
            <7> QED
              BY <2>5, <7>1
          <6> HIDE DEF Claim
          <6> QED
            BY <2>2, <6>1
        <5>3. h[i] = <<v[i]>> \o (<<v[i + 1]>> \o h[i + 2])
          <6>1. ps[i] = <<v[i]>>
            BY <2>0, <4>0, <4>3 DEF WantsValue
          <6>2. ps[i + 1] = <<v[i + 1]>>
            BY <2>0, <5>1
          <6>3. h[i + 1] = ps[i + 1] \o h[(i + 1) + 1] /\ (i + 1) + 1 = i + 2
            <7>1. i + 1 \in 1..Len(ps)
              BY <2>0, <5>1
            <7>2. (i + 1) + 1 = i + 2
              BY <4>n
            <7> QED
              BY <2>2, <7>1, <7>2, Zenon DEF Flattens
          <6> QED
            BY <4>h, <6>1, <6>2, <6>3
        <5>4. /\ Read(h[i]).operands = Read(h[i + 2]).operands
              /\ Read(h[i]).settings = IF v[i].kind = "settings"
                                       THEN <<v[i + 1].dir>> \o Read(h[i + 2]).settings
                                       ELSE Read(h[i + 2]).settings
          <6> DEFINE x == v[i]
                     y == v[i + 1]
                     s == h[i + 2]
          <6>1. x \in A /\ y \in A /\ s \in Seq(A) /\ WantsValue(x)
            BY <4>0, <4>3, <5>1, <5>2
          <6>2. h[i] = <<x>> \o (<<y>> \o s)
            BY <5>3
          <6> HIDE DEF x, y, s
          <6>3. /\ Read(<<x>> \o (<<y>> \o s)).operands = Read(s).operands
                /\ Read(<<x>> \o (<<y>> \o s)).settings =
                     IF x.kind = "settings" THEN <<y.dir>> \o Read(s).settings
                     ELSE Read(s).settings
            BY <6>1, ReadTaken, SMTT(30)
          <6>4. /\ Read(h[i]).operands = Read(s).operands
                /\ Read(h[i]).settings =
                     IF x.kind = "settings" THEN <<y.dir>> \o Read(s).settings
                     ELSE Read(s).settings
            BY <6>2, <6>3, Zenon
          <6> QED
            BY <6>4 DEF x, y, s
        <5> QED
          BY <3>1, <4>0, <4>3, <5>1, <5>2, <5>4 DEF StepsAt
      <4>4. CASE v[i].kind # "ephemeral" /\ ~WantsValue(v[i])
        <5>1. h[i] = <<v[i]>> \o h[i + 1]
          <6>1. ps[i] = <<v[i]>>
            BY <2>0, <4>0, <4>4
          <6> QED
            BY <4>h, <6>1
        <5>2. /\ Read(h[i]).operands = IF IsOperand(v[i])
                                       THEN <<v[i]>> \o Read(h[i + 1]).operands
                                       ELSE Read(h[i + 1]).operands
              /\ Read(h[i]).settings = IF v[i].kind = "joined"
                                       THEN <<v[i].dir>> \o Read(h[i + 1]).settings
                                       ELSE Read(h[i + 1]).settings
          <6> DEFINE y == <<v[i]>> \o h[i + 1]
          <6>1. /\ Read(y).operands = IF IsOperand(v[i])
                                      THEN <<v[i]>> \o Read(h[i + 1]).operands
                                      ELSE Read(h[i + 1]).operands
                /\ Read(y).settings = IF v[i].kind = "joined"
                                      THEN <<v[i].dir>> \o Read(h[i + 1]).settings
                                      ELSE Read(h[i + 1]).settings
            BY <4>0, <4>h, <4>4, ReadPlain, Zenon
          <6> QED
            BY <5>1, <6>1, Zenon
        <5> QED
          BY <3>1, <4>0, <4>1, <4>4, <5>2 DEF StepsAt
      <4> QED
        BY <4>2, <4>3, <4>4
    <3> QED
      BY <3>2, <3>3
  <2>6. \A i \in Nat \ {0} : i \in G
    <3>1. n + 1 \in Nat
      BY <2>0
    <3> HIDE DEF G, n
    <3> QED
      BY <2>4, <2>5, <3>1, CountingDown
  <2>7. Claim(1)
    BY <2>0, <2>6
  <2> QED
    BY <2>1, <2>2, <2>3, <2>7
<1> QED
  BY <1>1, <1>2

LEMMA SequenceOfNone == SetToSeq({}) = << >>
<1>1. Cardinality({}) = 0
  BY FS_EmptySet
<1>2. << >> \in [1..0 -> {}] /\ IsInjective(<< >>)
  BY DEF IsInjective
<1>3. SetToSeq({}) \in [1..0 -> {}]
  BY <1>1, <1>2 DEF SetToSeq
<1> QED
  BY <1>3

LEMMA SequenceOfOne == ASSUME NEW x PROVE SetToSeq({x}) = <<x>>
<1>1. Cardinality({x}) = 1
  BY FS_Singleton
<1>2. <<x>> \in [1..1 -> {x}] /\ IsInjective(<<x>>)
  BY DEF IsInjective
<1> DEFINE f == SetToSeq({x})
<1>3. f \in [1..1 -> {x}]
  BY <1>1, <1>2 DEF SetToSeq
<1> HIDE DEF f
<1>4. f = <<x>>
  BY <1>3
<1> QED
  BY <1>4 DEF f

LEMMA TwoInARow == ASSUME NEW a, NEW b PROVE <<a>> \o <<b>> = <<a, b>>
<1> DEFINE A == {a, b}
           u == <<a>>
           v == <<b>>
           w == <<a, b>>
<1>1. u \in Seq(A) /\ v \in Seq(A) /\ Len(u) = 1 /\ Len(v) = 1 /\ u[1] = a /\ v[1] = b
  OBVIOUS
<1>2. w \in Seq(A) /\ Len(w) = 2 /\ w[1] = a /\ w[2] = b
  OBVIOUS
<1> HIDE DEF A, u, v, w
<1>3. /\ u \o v \in Seq(A) /\ Len(u \o v) = 2
      /\ (u \o v)[1] = a /\ (u \o v)[2] = b
  <2>1. /\ u \o v \in Seq(A) /\ Len(u \o v) = Len(u) + Len(v)
        /\ \A i \in 1..(Len(u) + Len(v)) :
             (u \o v)[i] = IF i <= Len(u) THEN u[i] ELSE v[i - Len(u)]
    BY <1>1, ConcatProperties, Zenon
  <2>2. /\ (u \o v)[1] = IF 1 <= Len(u) THEN u[1] ELSE v[1 - Len(u)]
        /\ (u \o v)[2] = IF 2 <= Len(u) THEN u[2] ELSE v[2 - Len(u)]
    <3>1. 1 \in 1..(Len(u) + Len(v)) /\ 2 \in 1..(Len(u) + Len(v))
      BY <1>1
    <3> QED
      BY <2>1, <3>1, Zenon
  <2>3. 2 - 1 = 1 /\ 1 + 1 = 2 /\ 1 <= 1 /\ ~(2 <= 1)
    OBVIOUS
  <2> QED
    BY <1>1, <2>1, <2>2, <2>3
<1>4. u \o v = w
  <2>1. \A i \in 1..Len(w) : (u \o v)[i] = w[i]
    <3>1. \A i \in 1..2 : i = 1 \/ i = 2
      OBVIOUS
    <3> QED
      BY <1>2, <1>3, <3>1
  <2> QED
    BY <1>2, <1>3, <2>1, SeqEqual
<1> QED
  BY <1>4 DEF u, v, w

\* What is handed to one provider.
Expanded(words) == [i \in DOMAIN words |-> ExpandTilde(words[i])]
Handed(name, words, request) ==
  [name |-> name,
   argv |-> StripEphemeral(Append(IF name = "claude" /\ ~request.placed
                                  THEN WithoutSettings(words) ELSE words, Prompt),
                           request.debug)]

LEMMA ProviderChanged ==
  ASSUME NEW n, NEW a, NEW b
  PROVE  [[name |-> n, argv |-> a] EXCEPT !.argv = b] = [name |-> n, argv |-> b]
<1> DEFINE r == [name |-> n, argv |-> a]
<1>1. r \in [name : {n}, argv : {a}] /\ r.name = n
  OBVIOUS
<1> HIDE DEF r
<1>2. [r EXCEPT !.argv = b] = [name |-> r.name, argv |-> b]
  BY <1>1
<1> QED
  BY <1>1, <1>2 DEF r

LEMMA HandedOut ==
  ASSUME NEW words, NEW request, NEW n \in {"codex", "claude"}
  PROVE  LET p == [name |-> n, argv |-> words]
             q == IF p.name = "claude" /\ ~request.placed
                  THEN [p EXCEPT !.argv = WithoutSettings(@)] ELSE p
         IN [q EXCEPT !.argv = StripEphemeral(Append(@, Prompt), request.debug)] =
              Handed(n, words, request)
<1> DEFINE p == [name |-> n, argv |-> words]
           q == IF p.name = "claude" /\ ~request.placed
                THEN [p EXCEPT !.argv = WithoutSettings(@)] ELSE p
           kept == IF n = "claude" /\ ~request.placed THEN WithoutSettings(words) ELSE words
<1>1. p.name = n /\ p.argv = words
  OBVIOUS
<1>2. [p EXCEPT !.argv = WithoutSettings(@)] = [name |-> n, argv |-> WithoutSettings(words)]
  BY <1>1, ProviderChanged, SMTT(30)
<1>3. q = [name |-> n, argv |-> kept]
  BY <1>1, <1>2
<1>4. [q EXCEPT !.argv = StripEphemeral(Append(@, Prompt), request.debug)] =
        [name |-> n, argv |-> StripEphemeral(Append(kept, Prompt), request.debug)]
  <2>1. q.argv = kept
    BY <1>3
  <2> HIDE DEF q, kept
  <2> QED
    BY <1>3, <2>1, ProviderChanged, Zenon
<1> QED
  BY <1>4 DEF Handed

LEMMA LaunchedAre ==
  ASSUME NEW words, NEW request
  PROVE  Launched(words, request) =
           IF request.other = "words"
           THEN <<Handed("codex", Expanded(words), request),
                  Handed("claude", Expanded(words), request)>>
           ELSE <<Handed("claude", Expanded(words), request)>>
<1> DEFINE e == Expanded(words)
           P(n) == [name |-> n, argv |-> e]
           first == [written |-> request.other, argv |-> words]
           second == [written |-> "words", argv |-> words]
           all == ResolveProviders(first, second)
           kept == EnsureSettings(all, request.placed)
<1>1. Parse("claude", second) = {P("claude")}
  <2>1. second.written = "words" /\ second.argv = words
    OBVIOUS
  <2> QED
    BY <2>1 DEF Parse, Expanded
<1>2. Parse("codex", first) = IF request.other = "words" THEN {P("codex")} ELSE {}
  <2>1. first.written = request.other /\ first.argv = words
    OBVIOUS
  <2> QED
    BY <2>1 DEF Parse, Expanded
<1> HIDE DEF e
<1>3. all = IF request.other = "words" THEN <<P("codex"), P("claude")>> ELSE <<P("claude")>>
  <2>1. SetToSeq({P("claude")}) = <<P("claude")>> /\ SetToSeq({P("codex")}) = <<P("codex")>>
    BY SequenceOfOne
  <2>2. <<P("codex")>> \o <<P("claude")>> = <<P("codex"), P("claude")>>
    <3> HIDE DEF P
    <3> QED
      BY TwoInARow
  <2>3. << >> \o <<P("claude")>> = <<P("claude")>>
    OBVIOUS
  <2> HIDE DEF P, first, second
  <2> QED
    BY <1>1, <1>2, <2>1, <2>2, <2>3, SequenceOfNone DEF ResolveProviders
<1> DEFINE Q(p) == IF p.name = "claude" /\ ~request.placed
                   THEN [p EXCEPT !.argv = WithoutSettings(@)] ELSE p
           R(q) == [q EXCEPT !.argv = StripEphemeral(Append(@, Prompt), request.debug)]
<1>4. kept = [i \in DOMAIN all |-> Q(all[i])]
  BY Zenon DEF EnsureSettings
<1>5. Launched(words, request) = [i \in DOMAIN kept |-> R(kept[i])]
  BY Zenon DEF Launched
<1>6. \A n \in {"codex", "claude"} : R(Q(P(n))) = Handed(n, e, request)
  BY HandedOut, Zenon
<1> HIDE DEF P, Q, R, all, kept
<1>7. Launched(words, request) = [i \in DOMAIN all |-> R(Q(all[i]))]
  <2>1. DOMAIN kept = DOMAIN all /\ \A i \in DOMAIN all : kept[i] = Q(all[i])
    BY <1>4
  <2> QED
    BY <1>5, <2>1
<1>8. CASE request.other = "words"
  <2>1. all = <<P("codex"), P("claude")>>
    BY <1>3, <1>8
  <2>2. [i \in DOMAIN all |-> R(Q(all[i]))] = <<R(Q(P("codex"))), R(Q(P("claude")))>>
    BY <2>1
  <2> QED
    BY <1>6, <1>7, <1>8, <2>2 DEF e
<1>9. CASE request.other # "words"
  <2>1. all = <<P("claude")>>
    BY <1>3, <1>9
  <2>2. [i \in DOMAIN all |-> R(Q(all[i]))] = <<R(Q(P("claude")))>>
    BY <2>1
  <2> QED
    BY <1>6, <1>7, <1>9, <2>2 DEF e
<1> QED
  BY <1>8, <1>9

RequestSays(words, request) ==
  LET launched == Launched(words, request)
      own == Read(Expanded(words))
  IN /\ Last(launched).name = "claude"
     /\ Len(launched) = 2 <=> request.other = "words"
     /\ \A i \in DOMAIN launched :
          LET read == Read(launched[i].argv)
              drops == launched[i].name = "claude" /\ ~request.placed
          IN /\ read.operands = Append(own.operands, Prompt)
             /\ drops /\ Len(own.settings) < 2 => read.settings = << >>
             /\ ~drops => read.settings = own.settings

\* A command behind which the prompt is put.
LEMMA PromptIsLast ==
  ASSUME NEW A, NEW v \in Seq(A), Settled(v), NEW debug
  PROVE  LET read == Read(StripEphemeral(Append(v, Prompt), debug))
         IN /\ read.operands = Append(Read(v).operands, Prompt)
            /\ read.settings = Read(v).settings
<1> DEFINE u == Append(v, Prompt)
<1>1. Prompt.kind = "prompt"
  BY DEF Prompt, Spoken
<1>2. IsOperand(Prompt) /\ ~WantsValue(Prompt)
  BY <1>1 DEF IsOperand, WantsValue
<1>3. u \in Seq(A \cup {Prompt}) /\ Len(u) = Len(v) + 1 /\ Len(v) \in Nat
  OBVIOUS
<1>4. u[Len(v) + 1] = Prompt /\ \A i \in 1..Len(v) : u[i] = v[i]
  OBVIOUS
<1>5. /\ Read(u).operands = Append(Read(v).operands, Prompt)
      /\ Read(u).settings = Read(v).settings
  BY <1>2, ReadsLast
<1> HIDE DEF u
<1>6. Settled(u)
  <2> SUFFICES ASSUME NEW i \in 1..Len(u), WantsValue(u[i])
               PROVE  i < Len(u) /\ u[i + 1].kind = "word"
    BY DEF Settled
  <2>1. i # Len(v) + 1
    BY <1>2, <1>4
  <2>2. i \in 1..Len(v)
    BY <1>3, <2>1
  <2>3. i < Len(v) /\ v[i + 1].kind = "word"
    BY <1>4, <2>2 DEF Settled
  <2>4. i + 1 \in 1..Len(v)
    BY <1>3, <2>2, <2>3
  <2> QED
    BY <1>3, <1>4, <2>3, <2>4
<1>7. /\ Read(StripEphemeral(u, debug)).operands = Read(u).operands
      /\ Read(StripEphemeral(u, debug)).settings = Read(u).settings
  BY <1>3, <1>6, StrippedReadsTheSame
<1> QED
  BY <1>5, <1>7 DEF u

\* What one provider makes of what is handed to it.
LEMMA HandedIsRead ==
  ASSUME NEW A, NEW v \in Seq(A), Settled(v), NEW request, NEW n \in {"codex", "claude"}
  PROVE  LET read == Read(Handed(n, v, request).argv)
             drops == n = "claude" /\ ~request.placed
         IN /\ read.operands = Append(Read(v).operands, Prompt)
            /\ drops /\ Len(Read(v).settings) < 2 => read.settings = << >>
            /\ ~drops => read.settings = Read(v).settings
<1> DEFINE drops == n = "claude" /\ ~request.placed
           w == IF drops THEN WithoutSettings(v) ELSE v
           read == Read(Handed(n, v, request).argv)
<1>1. Handed(n, v, request).argv = StripEphemeral(Append(w, Prompt), request.debug)
  BY DEF Handed
<1>2. CASE ~drops
  <2>1. w = v
    BY <1>2
  <2>2. read.operands = Append(Read(v).operands, Prompt) /\ read.settings = Read(v).settings
    <3> HIDE DEF w, drops
    <3> QED
      BY <1>1, <2>1, PromptIsLast
  <2> HIDE DEF read, w
  <2> QED
    BY <1>2, <2>2 DEF read
<1>3. CASE drops
  <2>0. w = WithoutSettings(v)
    BY <1>3
  <2> HIDE DEF w
  <2>1. /\ w \in Seq(A)
        /\ \/ w = v /\ \A i \in 1..Len(v) : v[i].kind \notin {"settings", "joined"}
           \/ \E k, d : Removes(v, w, k, d)
    BY <2>0, DroppedIsAnOption
  <2>2. Settled(w)
    BY <2>1, RemovedIsSettled
  <2>3. read.operands = Append(Read(w).operands, Prompt) /\ read.settings = Read(w).settings
    BY <1>1, <2>1, <2>2, PromptIsLast
  <2>4. /\ Read(w).operands = Read(v).operands
        /\ Len(Read(v).settings) < 2 => Read(w).settings = << >>
    <3>1. CASE w = v /\ \A i \in 1..Len(v) : v[i].kind \notin {"settings", "joined"}
      BY <3>1, NoneGiven
    <3>2. CASE \E k, d : Removes(v, w, k, d)
      <4>1. PICK k, d : Removes(v, w, k, d)
        BY <3>2
      <4>2. /\ Read(w).operands = Read(v).operands
            /\ Len(Read(v).settings) = Len(Read(w).settings) + 1
            /\ \E D : Read(w).settings \in Seq(D)
        BY <4>1, RemovedIsUnread
      <4>3. PICK D : Read(w).settings \in Seq(D)
        BY <4>2
      <4>4. Len(Read(w).settings) \in Nat
        BY <4>3
      <4>5. Len(Read(v).settings) < 2 => Len(Read(w).settings) = 0
        BY <4>2, <4>4
      <4> QED
        BY <4>2, <4>3, <4>5
    <3> QED
      BY <2>1, <3>1, <3>2
  <2> HIDE DEF read
  <2> QED
    BY <1>3, <2>3, <2>4 DEF read
<1> QED
  BY <1>2, <1>3

LEMMA RequestsAreWhole ==
  ASSUME NEW words \in Seq(RequestWords), Settled(words), NEW request
  PROVE  RequestSays(words, request)
<1> DEFINE v == Expanded(words)
           A == {ExpandTilde(w) : w \in RequestWords}
<1>1. /\ v \in Seq(A) /\ Len(v) = Len(words) /\ Len(v) \in Nat
      /\ \A i \in 1..Len(words) : v[i] = ExpandTilde(words[i]) /\ words[i] \in RequestWords
  <2>1. words \in [1..Len(words) -> RequestWords] /\ Len(words) \in Nat
    OBVIOUS
  <2>2. v \in [1..Len(words) -> A] /\ \A i \in 1..Len(words) : v[i] = ExpandTilde(words[i])
    BY <2>1 DEF Expanded
  <2> HIDE DEF v, A
  <2> QED
    BY <2>1, <2>2
<1> HIDE DEF v, A
<1>2. \A w \in RequestWords : ExpandTilde(w).kind = w.kind
  BY DEF ExpandTilde, RequestWords, Spoken
<1>3. Settled(words)
  OBVIOUS
<1>4. Settled(v)
  <2> SUFFICES ASSUME NEW i \in 1..Len(v), WantsValue(v[i])
               PROVE  i < Len(v) /\ v[i + 1].kind = "word"
    BY DEF Settled
  <2>1. WantsValue(words[i])
    BY <1>1, <1>2 DEF WantsValue
  <2>2. i < Len(words) /\ words[i + 1].kind = "word"
    BY <1>1, <1>3, <2>1 DEF Settled
  <2>3. i + 1 \in 1..Len(words)
    BY <1>1, <2>2
  <2> QED
    BY <1>1, <1>2, <2>2, <2>3
<1> DEFINE H(n) == Handed(n, v, request)
<1>5. Launched(words, request) = IF request.other = "words" THEN <<H("codex"), H("claude")>>
                                 ELSE <<H("claude")>>
  BY LaunchedAre DEF v
<1>6. \A n \in {"codex", "claude"} :
        LET read == Read(H(n).argv)
            drops == n = "claude" /\ ~request.placed
        IN /\ read.operands = Append(Read(v).operands, Prompt)
           /\ drops /\ Len(Read(v).settings) < 2 => read.settings = << >>
           /\ ~drops => read.settings = Read(v).settings
  BY <1>1, <1>4, HandedIsRead
<1>7. H("claude").name = "claude" /\ H("codex").name = "codex"
  BY DEF Handed
<1> HIDE DEF H
<1> DEFINE launched == Launched(words, request)
<1>8. /\ launched[Len(launched)] = H("claude")
      /\ Len(launched) = 2 <=> request.other = "words"
      /\ \A i \in DOMAIN launched : launched[i] \in {H("codex"), H("claude")}
  <2>1. CASE request.other = "words"
    <3>1. launched = <<H("codex"), H("claude")>>
      BY <1>5, <2>1
    <3> HIDE DEF launched
    <3> QED
      BY <2>1, <3>1
  <2>2. CASE request.other # "words"
    <3>1. launched = <<H("claude")>>
      BY <1>5, <2>2
    <3> HIDE DEF launched
    <3> QED
      BY <2>2, <3>1
  <2> QED
    BY <2>1, <2>2
<1> HIDE DEF launched
<1>9. Last(launched).name = "claude"
  BY <1>7, <1>8 DEF Last
<1>10. ASSUME NEW i \in DOMAIN launched
       PROVE  LET read == Read(launched[i].argv)
                  drops == launched[i].name = "claude" /\ ~request.placed
              IN /\ read.operands = Append(Read(v).operands, Prompt)
                 /\ drops /\ Len(Read(v).settings) < 2 => read.settings = << >>
                 /\ ~drops => read.settings = Read(v).settings
  <2>1. CASE launched[i] = H("codex")
    BY <1>6, <1>7, <2>1
  <2>2. CASE launched[i] = H("claude")
    BY <1>6, <1>7, <2>2
  <2> QED
    BY <1>8, <2>1, <2>2
<1> QED
  BY <1>8, <1>9, <1>10 DEF RequestSays, launched, v

-----------------------------------------------------------------------------
(* The prompt. *)

IsPlaced(text, i) == \E n \in Names : StartsAt(text, i, n)

SubstitutedFrom(f, text, value) ==
  \A i \in Nat : f[i] = IF i > Len(text) THEN << >>
                        ELSE IF IsPlaced(text, i) THEN value[text[i + 1]] \o f[i + 2]
                        ELSE <<text[i]>> \o f[i + 1]

LEMMA SubstituteScans ==
  ASSUME NEW text, Len(text) \in Nat, NEW P, NEW value \in [Names -> Seq(P)]
  PROVE  \E f : SubstitutedFrom(f, text, value) /\ Substitute(text, value) = f[1]
<1> DEFINE A == P \cup {text[i] : i \in Nat}
           v(F, i) == IF i > Len(text) THEN << >>
                      ELSE IF \E n \in Names : StartsAt(text, i, n)
                           THEN value[text[i + 1]] \o F[i + 2]
                           ELSE <<text[i]>> \o F[i + 1]
           Eq(F) == F = [i \in Nat |->
                          IF i > Len(text) THEN << >>
                          ELSE IF \E n \in Names : StartsAt(text, i, n)
                               THEN value[text[i + 1]] \o F[i + 2]
                               ELSE <<text[i]>> \o F[i + 1]]
           next == [i \in Nat |-> IF IsPlaced(text, i) THEN i + 2 ELSE i + 1]
           add == [i \in Nat |-> IF IsPlaced(text, i) THEN value[text[i + 1]] ELSE <<text[i]>>]
<1>1. \A i \in Nat : next[i] \in Nat /\ next[i] > i /\ add[i] \in Seq(A)
  <2>1. ASSUME NEW i \in Nat PROVE <<text[i]>> \in Seq(A)
    <3>1. text[i] \in A
      OBVIOUS
    <3> HIDE DEF A
    <3> QED
      BY <3>1
  <2>2. ASSUME NEW i \in Nat, IsPlaced(text, i) PROVE value[text[i + 1]] \in Seq(A)
    <3>1. text[i + 1] \in Names
      BY <2>2 DEF IsPlaced, StartsAt
    <3>2. value[text[i + 1]] \in Seq(P) /\ P \subseteq A
      BY <3>1
    <3> HIDE DEF A
    <3> QED
      BY <3>2
  <2> HIDE DEF A
  <2> QED
    BY <2>1, <2>2
<1>2. PICK f \in [Nat -> Seq(A)] : Concatenates(f, Len(text), next, add)
  <2> HIDE DEF A, next, add
  <2> QED
    BY <1>1, Concatenating
<1>3. Eq(f)
  <2> DEFINE h == [i \in Nat |-> v(f, i)]
  <2>1. ASSUME NEW i \in Nat PROVE f[i] = h[i]
    <3>1. f[i] = IF i > Len(text) THEN << >> ELSE add[i] \o f[next[i]]
      BY <1>2 DEF Concatenates
    <3>2. /\ IsPlaced(text, i) => add[i] = value[text[i + 1]] /\ next[i] = i + 2
          /\ ~IsPlaced(text, i) => add[i] = <<text[i]>> /\ next[i] = i + 1
      OBVIOUS
    <3>3. h[i] = IF i > Len(text) THEN << >>
                 ELSE IF IsPlaced(text, i) THEN value[text[i + 1]] \o f[i + 2]
                 ELSE <<text[i]>> \o f[i + 1]
      BY Zenon DEF IsPlaced
    <3> HIDE DEF add, next, h
    <3> QED
      BY <3>1, <3>2, <3>3
  <2>2. f = [i \in Nat |-> f[i]] /\ h = [i \in Nat |-> h[i]]
    BY <1>2
  <2>3. f = h
    <3> HIDE DEF h
    <3> QED
      BY <2>1, <2>2, SameValues
  <2> QED
    BY <2>3, Zenon
<1> DEFINE g == CHOOSE F : Eq(F)
<1>4. Eq(g)
  <2> HIDE DEF Eq
  <2> QED
    BY <1>3
<1>5. Substitute(text, value) = g[1]
  BY Zenon DEF Substitute
<1> HIDE DEF g
<1>6. SubstitutedFrom(g, text, value)
  BY <1>4 DEF SubstitutedFrom, IsPlaced
<1> QED
  BY <1>5, <1>6

\* What a text holds.
LEMMA PartIsHeld ==
  ASSUME NEW A, NEW pre \in Seq(A), NEW part \in Seq(A), part # << >>, NEW rest \in Seq(A)
  PROVE  Holds(pre \o (part \o rest), part)
<1> DEFINE text == pre \o (part \o rest)
           m == Len(part)
           p == Len(text) - Len(part \o rest) + 1
           tail == SubSeq(text, p, Len(text))
<1>1. Stands(text, part, rest)
  BY PartsStand
<1>2. /\ m \in Nat /\ m >= 1 /\ text \in Seq(A) /\ Len(text) \in Nat /\ DOMAIN text = 1..Len(text)
  OBVIOUS
<1>3. /\ p \in Nat /\ p >= 1 /\ p + m - 1 <= Len(text)
      /\ \A k \in 1..m : text[p + k - 1] = part[k]
  BY <1>1 DEF Stands
<1> HIDE DEF text, m, p
<1>4. /\ p \in 1..Len(text)
      /\ tail \in Seq(A) /\ Len(tail) = Len(text) - p + 1
      /\ \A k \in 1..(Len(text) - p + 1) : tail[k] = text[p + k - 1]
  <2>1. p \in 1..Len(text)
    BY <1>2, <1>3
  <2> QED
    BY <1>2, <2>1, SubSeqProperties
<1> HIDE DEF tail
<1>5. IsPrefix(part, tail)
  <2>1. Len(part) <= Len(tail) /\ m <= Len(tail) /\ Len(tail) \in Nat
    BY <1>2, <1>3, <1>4 DEF m
  <2>2. \A k \in 1..m : tail[k] = part[k]
    BY <1>2, <1>3, <1>4
  <2>3. SubSeq(part, 1, m) = part
    BY SubSeqFull DEF m
  <2> DEFINE head == SubSeq(tail, 1, m)
  <2>4. /\ head \in Seq(A) /\ Len(head) = m
        /\ \A k \in 1..m : head[k] = tail[k]
    BY <1>2, <1>4, <2>1, SubSeqProperties
  <2> HIDE DEF head
  <2>5. head = part
    BY <2>2, <2>4, SeqEqual DEF m
  <2> QED
    BY <2>1, <2>3, <2>5 DEF IsPrefix, head, m
<1> QED
  BY <1>2, <1>4, <1>5 DEF Holds, tail, text

LEMMA PlaceholderIsPlaced ==
  ASSUME NEW A, NEW text \in Seq(A), NEW n \in Names, Holds(text, Placeholder(n))
  PROVE  \E i \in 1..Len(text) : StartsAt(text, i, n)
<1> DEFINE u == <<"brace", n>>
<1>1. PICK i \in DOMAIN text : IsPrefix(u, SubSeq(text, i, Len(text)))
  BY Zenon DEF Holds, Placeholder
<1>2. i \in 1..Len(text) /\ Len(text) \in Nat
  OBVIOUS
<1> DEFINE tail == SubSeq(text, i, Len(text))
<1>3. /\ tail \in Seq(A) /\ Len(tail) = Len(text) - i + 1
      /\ \A k \in 1..(Len(text) - i + 1) : tail[k] = text[i + k - 1]
  BY <1>2, SubSeqProperties
<1>4. IsPrefix(u, tail)
  BY <1>1
<1> HIDE DEF tail
<1>5. Len(u) = 2 /\ u[1] = "brace" /\ u[2] = n /\ SubSeq(u, 1, 2) = u
  <2>1. u \in Seq({"brace", n}) /\ Len(u) = 2 /\ u[1] = "brace" /\ u[2] = n
    OBVIOUS
  <2> HIDE DEF u
  <2>2. SubSeq(u, 1, 2) = u
    BY <2>1, SubSeqFull
  <2> QED
    BY <2>1, <2>2
<1> HIDE DEF u
<1>6. 2 <= Len(tail) /\ u = SubSeq(tail, 1, 2)
  BY <1>4, <1>5 DEF IsPrefix
<1>7. u[1] = tail[1] /\ u[2] = tail[2]
  <2> DEFINE head == SubSeq(tail, 1, 2)
  <2>1. \A k \in 1..2 : head[k] = tail[k]
    BY <1>3, <1>6, SubSeqProperties
  <2> HIDE DEF head
  <2>2. 1 \in 1..2 /\ 2 \in 1..2
    OBVIOUS
  <2> QED
    BY <1>6, <2>1, <2>2 DEF head
<1>8. i < Len(text) /\ text[i] = "brace" /\ text[i + 1] = n
  <2>1. 1 \in 1..(Len(text) - i + 1) /\ 2 \in 1..(Len(text) - i + 1) /\ i < Len(text)
    BY <1>2, <1>3, <1>6
  <2>2. i + 1 - 1 = i /\ i + 2 - 1 = i + 1
    BY <1>2
  <2> QED
    BY <1>3, <1>5, <1>7, <2>1, <2>2
<1> QED
  BY <1>2, <1>8 DEF StartsAt

Pieces == Names \cup {"brace", "text", "blank", "print", "/work/", "about", "newline", "python"}

LEMMA FormatStandsOnce ==
  ASSUME NEW P, Format \notin P, NEW pre \in Seq(P), NEW t, t = pre \o <<Format>>
  PROVE  Cardinality({i \in DOMAIN t : t[i] = Format}) = 1
<1> DEFINE A == P \cup {Format}
           last == <<Format>>
           n == Len(pre)
<1>1. /\ pre \in Seq(A) /\ last \in Seq(A) /\ Len(last) = 1 /\ last[1] = Format
      /\ n \in Nat /\ \A i \in 1..n : pre[i] \in P
  OBVIOUS
<1> HIDE DEF A, last
<1>2. /\ t \in Seq(A) /\ Len(t) = n + 1
      /\ \A i \in 1..(n + 1) : t[i] = IF i <= n THEN pre[i] ELSE last[i - n]
  BY <1>1, ConcatProperties DEF last
<1> HIDE DEF n
<1>3. DOMAIN t = 1..(n + 1)
  BY <1>1, <1>2
<1>4. t[n + 1] = Format
  <2>1. n + 1 \in 1..(n + 1) /\ ~(n + 1 <= n) /\ n + 1 - n = 1
    BY <1>1
  <2> QED
    BY <1>1, <1>2, <2>1
<1>5. ASSUME NEW i \in 1..(n + 1), i # n + 1 PROVE t[i] # Format
  <2>1. i \in 1..n /\ i <= n
    BY <1>1, <1>5
  <2> QED
    BY <1>1, <1>2, <2>1
<1>6. n + 1 \in 1..(n + 1)
  BY <1>1
<1>7. {i \in DOMAIN t : t[i] = Format} = {n + 1}
  BY <1>3, <1>4, <1>5, <1>6
<1> QED
  BY <1>7, FS_Singleton

\* What is put in the places.
Values(extra) == [n \in Names |-> CASE n = "language" -> <<"python">>
                                    [] n = "code" -> Code
                                    [] n = "cwd" -> Cwd
                                    [] n = "extractor_context" -> extra]

LEMMA ValuesAre ==
  ASSUME NEW extra \in Seq(Pieces)
  PROVE  /\ Values(extra) \in [Names -> Seq(Pieces)]
         /\ Values(extra)["language"] = <<"python">> /\ Values(extra)["code"] = Code
         /\ Values(extra)["cwd"] = Cwd /\ Values(extra)["extractor_context"] = extra
         /\ <<"python">> \in Seq(Pieces) /\ Code \in Seq(Pieces) /\ Cwd \in Seq(Pieces)
         /\ Code # << >> /\ Cwd # << >>
<1>1. /\ "python" \in Pieces /\ "print" \in Pieces /\ "brace" \in Pieces /\ "/work/" \in Pieces
      /\ "cwd" \in Pieces /\ "code" \in Pieces /\ "extractor_context" \in Pieces
  BY DEF Pieces, Names
<1> HIDE DEF Pieces
<1>2. <<"python">> \in Seq(Pieces) /\ Code \in Seq(Pieces) /\ Cwd \in Seq(Pieces)
  BY <1>1 DEF Code, Cwd
<1>3. Code # << >> /\ Cwd # << >>
  BY DEF Code, Cwd
<1>4. /\ Values(extra)["language"] = <<"python">> /\ Values(extra)["code"] = Code
      /\ Values(extra)["cwd"] = Cwd /\ Values(extra)["extractor_context"] = extra
  BY DEF Values, Names
<1>5. Values(extra) \in [Names -> Seq(Pieces)]
  <2>1. ASSUME NEW n \in Names PROVE Values(extra)[n] \in Seq(Pieces)
    BY <1>2, <1>4 DEF Names
  <2>2. Values(extra) = [n \in Names |-> Values(extra)[n]]
    <3> DEFINE put(n) == CASE n = "language" -> <<"python">>
                           [] n = "code" -> Code
                           [] n = "cwd" -> Cwd
                           [] n = "extractor_context" -> extra
    <3>1. Values(extra) = [n \in Names |-> put(n)]
      BY Zenon DEF Values
    <3> HIDE DEF put
    <3> QED
      BY <3>1
  <2> QED
    BY <2>1, <2>2
<1> QED
  BY <1>2, <1>3, <1>4, <1>5

IsPair(u, t, a, b) ==
  /\ Len(u) = Len(t) + 2 /\ \A i \in 1..Len(t) : u[i] = t[i]
  /\ u[Len(t) + 1] = a /\ u[Len(t) + 2] = b

LEMMA Pair ==
  ASSUME NEW A, NEW t \in Seq(A), NEW a \in A, NEW b \in A
  PROVE  t \o <<a, b>> \in Seq(A) /\ IsPair(t \o <<a, b>>, t, a, b)
<1> DEFINE w == <<a, b>>
           u == t \o w
<1>1. w \in Seq(A) /\ Len(w) = 2 /\ w[1] = a /\ w[2] = b /\ Len(t) \in Nat
  OBVIOUS
<1> HIDE DEF w
<1>2. /\ u \in Seq(A) /\ Len(u) = Len(t) + Len(w)
      /\ \A i \in 1..(Len(t) + Len(w)) : u[i] = IF i <= Len(t) THEN t[i] ELSE w[i - Len(t)]
  BY <1>1, ConcatProperties, Zenon
<1> HIDE DEF u
<1>3. u[Len(t) + 1] = a /\ u[Len(t) + 2] = b
  <2>1. /\ Len(t) + 1 \in 1..(Len(t) + 2) /\ Len(t) + 2 \in 1..(Len(t) + 2)
        /\ ~(Len(t) + 1 <= Len(t)) /\ ~(Len(t) + 2 <= Len(t))
        /\ Len(t) + 1 - Len(t) = 1 /\ Len(t) + 2 - Len(t) = 2
    BY <1>1
  <2> QED
    BY <1>1, <1>2, <2>1
<1>4. \A i \in 1..Len(t) : u[i] = t[i]
  BY <1>1, <1>2
<1> QED
  BY <1>1, <1>2, <1>3, <1>4 DEF u, w, IsPair

LEMMA TemplateIs ==
  /\ Len(Template) = 11 /\ Template[11] = Format
  /\ Template[1] = "brace" /\ Template[2] = "language" /\ Template[3] = "brace" /\ Template[4] = "cwd"
  /\ Template[5] = "brace" /\ Template[6] = "extractor_context"
  /\ Template[7] = "brace" /\ Template[8] = "language" /\ Template[9] = "brace" /\ Template[10] = "code"
<1> DEFINE A == Pieces \cup {Format}
           t1 == <<"brace", "language">>
           t2 == t1 \o <<"brace", "cwd">>
           t3 == t2 \o <<"brace", "extractor_context">>
           t4 == t3 \o <<"brace", "language">>
           t5 == t4 \o <<"brace", "code">>
           last == <<Format>>
<1>1. /\ "brace" \in A /\ "language" \in A /\ "cwd" \in A /\ "extractor_context" \in A
      /\ "code" \in A /\ Format \in A
  BY DEF Pieces, Names
<1> HIDE DEF A
<1>2. /\ t1 \in Seq(A) /\ Len(t1) = 2 /\ t1[1] = "brace" /\ t1[2] = "language"
      /\ last \in Seq(A) /\ Len(last) = 1 /\ last[1] = Format
  BY <1>1
<1>3. Template = t5 \o last
  BY DEF Template, Placeholder
<1> HIDE DEF t1, last
<1>4. /\ t2 \in Seq(A) /\ Len(t2) = 4 /\ \A i \in 1..2 : t2[i] = t1[i]
      /\ t2[3] = "brace" /\ t2[4] = "cwd"
  <2>1. t2 \in Seq(A) /\ IsPair(t2, t1, "brace", "cwd")
    BY <1>1, <1>2, Pair, Zenon
  <2> HIDE DEF t2
  <2>2. 2 + 1 = 3 /\ 2 + 2 = 4
    OBVIOUS
  <2> QED
    BY <1>2, <2>1, <2>2 DEF IsPair
<1> HIDE DEF t2
<1>5. /\ t3 \in Seq(A) /\ Len(t3) = 6 /\ \A i \in 1..4 : t3[i] = t2[i]
      /\ t3[5] = "brace" /\ t3[6] = "extractor_context"
  <2>1. t3 \in Seq(A) /\ IsPair(t3, t2, "brace", "extractor_context")
    BY <1>1, <1>4, Pair, Zenon
  <2> HIDE DEF t3
  <2>2. 4 + 1 = 5 /\ 4 + 2 = 6
    OBVIOUS
  <2> QED
    BY <1>4, <2>1, <2>2 DEF IsPair
<1> HIDE DEF t3
<1>6. /\ t4 \in Seq(A) /\ Len(t4) = 8 /\ \A i \in 1..6 : t4[i] = t3[i]
      /\ t4[7] = "brace" /\ t4[8] = "language"
  <2>1. t4 \in Seq(A) /\ IsPair(t4, t3, "brace", "language")
    BY <1>1, <1>5, Pair, Zenon
  <2> HIDE DEF t4
  <2>2. 6 + 1 = 7 /\ 6 + 2 = 8
    OBVIOUS
  <2> QED
    BY <1>5, <2>1, <2>2 DEF IsPair
<1> HIDE DEF t4
<1>7. /\ t5 \in Seq(A) /\ Len(t5) = 10 /\ \A i \in 1..8 : t5[i] = t4[i]
      /\ t5[9] = "brace" /\ t5[10] = "code"
  <2>1. t5 \in Seq(A) /\ IsPair(t5, t4, "brace", "code")
    BY <1>1, <1>6, Pair, Zenon
  <2> HIDE DEF t5
  <2>2. 8 + 1 = 9 /\ 8 + 2 = 10
    OBVIOUS
  <2> QED
    BY <1>6, <2>1, <2>2 DEF IsPair
<1> HIDE DEF t5
<1>8. /\ Len(Template) = 11
      /\ \A i \in 1..11 : Template[i] = IF i <= 10 THEN t5[i] ELSE last[i - 10]
  <2>1. /\ Len(Template) = Len(t5) + Len(last)
        /\ \A i \in 1..(Len(t5) + Len(last)) :
             Template[i] = IF i <= Len(t5) THEN t5[i] ELSE last[i - Len(t5)]
    BY <1>2, <1>3, <1>7, ConcatProperties, ZenonT(30)
  <2>2. Len(t5) = 10 /\ Len(t5) + Len(last) = 11
    BY <1>2, <1>7
  <2> QED
    BY <2>1, <2>2
<1>9. Template[11] = Format /\ \A i \in 1..10 : Template[i] = t5[i]
  <2>1. 11 \in 1..11 /\ ~(11 <= 10) /\ 11 - 10 = 1
    OBVIOUS
  <2> QED
    BY <1>2, <1>8, <2>1
<1>10. t5[1] = "brace" /\ t5[2] = "language"
  BY <1>2, <1>4, <1>5, <1>6, <1>7
<1>11. t5[3] = "brace" /\ t5[4] = "cwd"
  BY <1>4, <1>5, <1>6, <1>7
<1>12. t5[5] = "brace" /\ t5[6] = "extractor_context" /\ t5[7] = "brace" /\ t5[8] = "language"
  BY <1>5, <1>6, <1>7
<1> QED
  BY <1>7, <1>8, <1>9, <1>10, <1>11, <1>12

\* The prompt that longline comes with.
LEMMA TemplateIsFilled ==
  ASSUME NEW extra \in Seq(Pieces)
  PROVE  Substitute(Template, Values(extra)) =
           <<"python">> \o (Cwd \o (extra \o (<<"python">> \o (Code \o <<Format>>))))
<1> DEFINE V == Values(extra)
<1>1. PICK f : SubstitutedFrom(f, Template, V) /\ Substitute(Template, V) = f[1]
  <2>1. Len(Template) \in Nat
    BY TemplateIs
  <2>2. V \in [Names -> Seq(Pieces)]
    BY ValuesAre
  <2> HIDE DEF V
  <2> QED
    BY <2>1, <2>2, SubstituteScans, Zenon
<1>2. ASSUME NEW i \in 1..10, Template[i] = "brace", Template[i + 1] \in Names
      PROVE  f[i] = V[Template[i + 1]] \o f[i + 2]
  <2>1. IsPlaced(Template, i) /\ ~(i > Len(Template))
    BY <1>2, TemplateIs DEF IsPlaced, StartsAt
  <2>2. i \in Nat
    OBVIOUS
  <2> HIDE DEF V
  <2> QED
    BY <1>1, <2>1, <2>2, Zenon DEF SubstitutedFrom
<1>3. f[12] = << >>
  <2>1. 12 \in Nat /\ 12 > Len(Template)
    BY TemplateIs
  <2> HIDE DEF V
  <2> QED
    BY <1>1, <2>1, Zenon DEF SubstitutedFrom
<1>4. f[11] = <<Format>>
  <2>1. ~IsPlaced(Template, 11) /\ ~(11 > Len(Template))
    BY TemplateIs DEF IsPlaced, StartsAt
  <2>2. f[11] = <<Format>> \o f[12]
    <3>1. 11 \in Nat /\ 11 + 1 = 12 /\ Template[11] = Format
      BY TemplateIs
    <3>2. f[11] = <<Template[11]>> \o f[11 + 1]
      <4> HIDE DEF V
      <4> QED
        BY <1>1, <2>1, <3>1, Zenon DEF SubstitutedFrom
    <3> QED
      BY <3>1, <3>2
  <2>3. <<Format>> \o << >> = <<Format>>
    OBVIOUS
  <2> QED
    BY <1>3, <2>2, <2>3
<1>5. /\ "language" \in Names /\ "cwd" \in Names /\ "extractor_context" \in Names
      /\ "code" \in Names
  BY DEF Names
<1> HIDE DEF V
<1>6. /\ f[9] = V["code"] \o f[11] /\ f[7] = V["language"] \o f[9]
      /\ f[5] = V["extractor_context"] \o f[7] /\ f[3] = V["cwd"] \o f[5]
      /\ f[1] = V["language"] \o f[3]
  <2>1. f[9] = V["code"] \o f[11]
    <3>1. 9 \in 1..10 /\ 9 + 1 = 10 /\ 9 + 2 = 11
      OBVIOUS
    <3>2. Template[9] = "brace" /\ Template[10] = "code"
      BY TemplateIs
    <3> QED
      BY <1>2, <1>5, <3>1, <3>2, Zenon
  <2>2. f[7] = V["language"] \o f[9]
    <3>1. 7 \in 1..10 /\ 7 + 1 = 8 /\ 7 + 2 = 9
      OBVIOUS
    <3>2. Template[7] = "brace" /\ Template[8] = "language"
      BY TemplateIs
    <3> QED
      BY <1>2, <1>5, <3>1, <3>2, Zenon
  <2>3. f[5] = V["extractor_context"] \o f[7]
    <3>1. 5 \in 1..10 /\ 5 + 1 = 6 /\ 5 + 2 = 7
      OBVIOUS
    <3>2. Template[5] = "brace" /\ Template[6] = "extractor_context"
      BY TemplateIs
    <3> QED
      BY <1>2, <1>5, <3>1, <3>2, Zenon
  <2>4. f[3] = V["cwd"] \o f[5]
    <3>1. 3 \in 1..10 /\ 3 + 1 = 4 /\ 3 + 2 = 5
      OBVIOUS
    <3>2. Template[3] = "brace" /\ Template[4] = "cwd"
      BY TemplateIs
    <3> QED
      BY <1>2, <1>5, <3>1, <3>2, Zenon
  <2>5. f[1] = V["language"] \o f[3]
    <3>1. 1 \in 1..10 /\ 1 + 1 = 2 /\ 1 + 2 = 3
      OBVIOUS
    <3>2. Template[1] = "brace" /\ Template[2] = "language"
      BY TemplateIs
    <3> QED
      BY <1>2, <1>5, <3>1, <3>2, Zenon
  <2> QED
    BY <2>1, <2>2, <2>3, <2>4, <2>5
<1>7. /\ V["language"] = <<"python">> /\ V["code"] = Code
      /\ V["cwd"] = Cwd /\ V["extractor_context"] = extra
  BY ValuesAre DEF V
<1>8. f[1] = <<"python">> \o (Cwd \o (extra \o (<<"python">> \o (Code \o <<Format>>))))
  <2>1. f[9] = Code \o <<Format>>
    BY <1>4, <1>6, <1>7, Zenon
  <2>2. f[7] = <<"python">> \o (Code \o <<Format>>)
    BY <1>6, <1>7, <2>1, Zenon
  <2>3. f[5] = extra \o (<<"python">> \o (Code \o <<Format>>))
    BY <1>6, <1>7, <2>2, Zenon
  <2>4. f[3] = Cwd \o (extra \o (<<"python">> \o (Code \o <<Format>>)))
    BY <1>6, <1>7, <2>3, Zenon
  <2> QED
    BY <1>6, <1>7, <2>4, Zenon
<1> QED
  BY <1>1, <1>8, Zenon DEF V

\* What stands in the places of a project's prompt.
Given(project, extra, i) ==
  CASE StartsAt(project, i, "code") -> Code
    [] StartsAt(project, i, "cwd") -> Cwd
    [] StartsAt(project, i, "language") -> <<"python">>
    [] StartsAt(project, i, "extractor_context") -> extra
    [] i > 1 /\ \E n \in Names : StartsAt(project, i - 1, n) -> << >>
    [] OTHER -> <<project[i]>>
Filled(project, extra) == [i \in DOMAIN project |-> Given(project, extra, i)]

LEMMA GivenIs ==
  ASSUME NEW project \in Seq(Pieces), NEW extra \in Seq(Pieces), NEW i \in 1..Len(project)
  PROVE  /\ IsPlaced(project, i) =>
              /\ project[i + 1] \in Names /\ i < Len(project) /\ ~IsPlaced(project, i + 1)
              /\ Given(project, extra, i) = Values(extra)[project[i + 1]]
         /\ ~IsPlaced(project, i) /\ i > 1 /\ IsPlaced(project, i - 1) =>
              Given(project, extra, i) = << >>
         /\ ~IsPlaced(project, i) /\ ~(i > 1 /\ IsPlaced(project, i - 1)) =>
              Given(project, extra, i) = <<project[i]>>
         /\ Given(project, extra, i) \in Seq(Pieces)
<1> DEFINE g == Given(project, extra, i)
           V == Values(extra)
           next == project[i + 1]
<1>0. project[i] \in Pieces
  OBVIOUS
<1>1. ASSUME IsPlaced(project, i)
      PROVE  /\ next \in Names /\ i < Len(project) /\ ~IsPlaced(project, i + 1)
             /\ g = V[next]
  <2>1. PICK n \in Names : StartsAt(project, i, n)
    BY <1>1 DEF IsPlaced
  <2>2. i < Len(project) /\ project[i] = "brace" /\ next = n
    BY <2>1 DEF StartsAt
  <2>3. ~IsPlaced(project, i + 1)
    BY <2>2 DEF IsPlaced, StartsAt, Names
  <2>4. \A m \in Names : StartsAt(project, i, m) <=> m = n
    BY <2>2 DEF StartsAt
  <2>5. g = V[n]
    <3>1. /\ V["language"] = <<"python">> /\ V["code"] = Code
          /\ V["cwd"] = Cwd /\ V["extractor_context"] = extra
      BY ValuesAre
    <3> HIDE DEF V
    <3>2. "code" \in Names /\ "cwd" \in Names /\ "language" \in Names /\ "extractor_context" \in Names
      BY DEF Names
    <3>n. ~(i > 1 /\ \E m \in Names : StartsAt(project, i - 1, m))
      <4>1. i - 1 + 1 = i
        OBVIOUS
      <4> QED
        BY <2>2, <4>1 DEF StartsAt, Names
    <3>3. n = "code" \/ n = "cwd" \/ n = "language" \/ n = "extractor_context"
      BY DEF Names
    <3>4. CASE n = "code"
      <4>1. /\ StartsAt(project, i, "code") /\ ~StartsAt(project, i, "cwd")
            /\ ~StartsAt(project, i, "language") /\ ~StartsAt(project, i, "extractor_context")
        BY <2>4, <3>2, <3>4
      <4> QED
        BY <3>1, <3>n, <3>4, <4>1 DEF Given
    <3>5. CASE n = "cwd"
      <4>1. /\ ~StartsAt(project, i, "code") /\ StartsAt(project, i, "cwd")
            /\ ~StartsAt(project, i, "language") /\ ~StartsAt(project, i, "extractor_context")
        BY <2>4, <3>2, <3>5
      <4> QED
        BY <3>1, <3>n, <3>5, <4>1 DEF Given
    <3>6. CASE n = "language"
      <4>1. /\ ~StartsAt(project, i, "code") /\ ~StartsAt(project, i, "cwd")
            /\ StartsAt(project, i, "language") /\ ~StartsAt(project, i, "extractor_context")
        BY <2>4, <3>2, <3>6
      <4> QED
        BY <3>1, <3>n, <3>6, <4>1 DEF Given
    <3>7. CASE n = "extractor_context"
      <4>1. /\ ~StartsAt(project, i, "code") /\ ~StartsAt(project, i, "cwd")
            /\ ~StartsAt(project, i, "language") /\ StartsAt(project, i, "extractor_context")
        BY <2>4, <3>2, <3>7
      <4> QED
        BY <3>1, <3>n, <3>7, <4>1 DEF Given
    <3> QED
      BY <3>3, <3>4, <3>5, <3>6, <3>7
  <2> QED
    BY <2>2, <2>3, <2>5
<1>2. ASSUME ~IsPlaced(project, i)
      PROVE  g = IF i > 1 /\ IsPlaced(project, i - 1) THEN << >> ELSE <<project[i]>>
  <2>1. /\ ~StartsAt(project, i, "code") /\ ~StartsAt(project, i, "cwd")
        /\ ~StartsAt(project, i, "language") /\ ~StartsAt(project, i, "extractor_context")
    BY <1>2 DEF IsPlaced, Names
  <2>2. IsPlaced(project, i - 1) <=> \E n \in Names : StartsAt(project, i - 1, n)
    BY DEF IsPlaced
  <2> QED
    BY <2>1, <2>2 DEF Given
<1>3. g \in Seq(Pieces)
  <2>1. CASE IsPlaced(project, i)
    <3>1. g = V[next] /\ next \in Names
      BY <1>1, <2>1
    <3>2. V \in [Names -> Seq(Pieces)]
      BY ValuesAre
    <3> HIDE DEF g, V, next
    <3> QED
      BY <3>1, <3>2
  <2>2. CASE ~IsPlaced(project, i)
    <3>1. g = << >> \/ g = <<project[i]>>
      BY <1>2, <2>2
    <3>2. << >> \in Seq(Pieces) /\ <<project[i]>> \in Seq(Pieces)
      BY <1>0
    <3> HIDE DEF g
    <3> QED
      BY <3>1, <3>2
  <2> QED
    BY <2>1, <2>2
<1> QED
  BY <1>1, <1>2, <1>3

\* What is substituted is what is given, one piece after the other.
LEMMA SubstitutedIsFilled ==
  ASSUME NEW project \in Seq(Pieces), NEW extra \in Seq(Pieces)
  PROVE  Substitute(project, Values(extra)) = FlattenSeq(Filled(project, extra))
<1> DEFINE V == Values(extra)
           n == Len(project)
           ps == Filled(project, extra)
           given(i) == Given(project, extra, i)
           placed(i) == IsPlaced(project, i)
<1>1. n \in Nat /\ n = Len(project) /\ DOMAIN project = 1..n /\ \A i \in 1..n : project[i] \in Pieces
  OBVIOUS
<1>n. n \in Nat
  OBVIOUS
<1> HIDE DEF n
<1>2. \A i \in 1..n :
        /\ placed(i) => /\ project[i + 1] \in Names /\ i < n /\ ~placed(i + 1)
                        /\ given(i) = V[project[i + 1]]
        /\ ~placed(i) /\ i > 1 /\ placed(i - 1) => given(i) = << >>
        /\ ~placed(i) /\ ~(i > 1 /\ placed(i - 1)) => given(i) = <<project[i]>>
        /\ given(i) \in Seq(Pieces)
  BY GivenIs DEF n
<1>3. PICK f : SubstitutedFrom(f, project, V) /\ Substitute(project, V) = f[1]
  <2>1. V \in [Names -> Seq(Pieces)]
    BY ValuesAre
  <2> HIDE DEF V
  <2> QED
    BY <1>1, <2>1, SubstituteScans
<1>4. ps \in Seq(Seq(Pieces)) /\ Len(ps) = n /\ \A i \in 1..n : ps[i] = given(i)
  <2>1. ps = [i \in 1..n |-> given(i)]
    BY <1>1 DEF Filled
  <2> HIDE DEF ps, given
  <2>2. ps \in [1..n -> Seq(Pieces)]
    BY <1>2, <2>1
  <2> QED
    BY <1>1, <2>1, <2>2
<1> HIDE DEF ps, given, V, placed
<1>5. PICK h \in [Nat -> Seq(Pieces)] :
        FlattenSeq(ps) = h[1] /\ h[n + 1] = << >> /\ Flattens(h, ps)
  BY <1>4, Flattening
<1>6. \A i \in 1..n : h[i] = given(i) \o h[i + 1]
  BY <1>4, <1>5 DEF Flattens
<1>7. \A i \in Nat : f[i] = IF i > n THEN << >>
                            ELSE IF placed(i) THEN V[project[i + 1]] \o f[i + 2]
                            ELSE <<project[i]>> \o f[i + 1]
  BY <1>1, <1>3 DEF SubstitutedFrom, placed
<1> DEFINE G == {i \in Nat : i \in 1..(n + 1) /\ ~(i > 1 /\ placed(i - 1)) => f[i] = h[i]}
<1>8. ASSUME NEW i \in Nat, i > n PROVE i \in G
  <2>1. CASE i = n + 1
    BY <1>5, <1>7, <1>8, <2>1
  <2>2. CASE i # n + 1
    <3>1. i \notin 1..(n + 1)
      BY <1>n, <1>8, <2>2
    <3> QED
      BY <3>1
  <2> QED
    BY <2>1, <2>2
<1>9. ASSUME NEW i \in 1..n, \A j \in Nat : j > i => j \in G PROVE i \in G
  <2> SUFFICES ASSUME ~(i > 1 /\ placed(i - 1)) PROVE f[i] = h[i]
    BY <1>1
  <2>1. /\ i \in Nat /\ i + 1 \in Nat /\ i + 2 \in Nat /\ i + 1 > i /\ i + 2 > i /\ ~(i > n)
        /\ i + 1 \in 1..(n + 1) /\ i + 1 > 1 /\ i + 1 - 1 = i
        /\ i + 2 - 1 = i + 1 /\ i + 1 + 1 = i + 2
    BY <1>1
  <2>2. h[i] = given(i) \o h[i + 1] /\ h[i + 1] \in Seq(Pieces) /\ h[i + 2] \in Seq(Pieces)
    BY <1>5, <1>6, <2>1
  <2>3. CASE placed(i)
    <3>1. project[i + 1] \in Names /\ i < n /\ ~placed(i + 1) /\ given(i) = V[project[i + 1]]
      BY <1>2, <2>3
    <3>2. i + 1 \in 1..n /\ i + 2 \in 1..(n + 1)
      <4>1. i < n
        BY <3>1
      <4> QED
        BY <1>n, <4>1
    <3>3. given(i + 1) = << >>
      BY <1>2, <2>1, <2>3, <3>1, <3>2
    <3>4. h[i + 1] = h[i + 2]
      <4>1. h[i + 1] = given(i + 1) \o h[i + 2]
        BY <1>6, <2>1, <3>2
      <4>2. << >> \o h[i + 2] = h[i + 2]
        BY <2>2
      <4> QED
        BY <3>3, <4>1, <4>2
    <3>5. f[i + 2] = h[i + 2]
      <4>1. i + 2 \in G
        <5> HIDE DEF G
        <5> QED
          BY <1>9, <2>1
      <4> QED
        BY <2>1, <3>1, <3>2, <4>1
    <3>6. f[i] = V[project[i + 1]] \o f[i + 2]
      BY <1>7, <2>1, <2>3
    <3> QED
      BY <2>2, <3>1, <3>4, <3>5, <3>6
  <2>4. CASE ~placed(i)
    <3>1. given(i) = <<project[i]>>
      BY <1>2, <2>4
    <3>2. f[i + 1] = h[i + 1]
      <4>1. i + 1 \in G
        <5> HIDE DEF G
        <5> QED
          BY <1>9, <2>1
      <4> QED
        BY <2>1, <2>4, <4>1
    <3>3. f[i] = <<project[i]>> \o f[i + 1]
      BY <1>7, <2>1, <2>4
    <3> QED
      BY <2>2, <3>1, <3>2, <3>3
  <2> QED
    BY <2>3, <2>4
<1>10. f[1] = h[1]
  <2>1. \A i \in Nat \ {0} : i \in G
    <3> HIDE DEF G
    <3> QED
      BY <1>1, <1>8, <1>9, CountingDown
  <2>2. 1 \in G
    <3> HIDE DEF G
    <3> QED
      BY <2>1
  <2>3. 1 \in 1..(n + 1) /\ ~(1 > 1)
    BY <1>1
  <2> QED
    BY <2>2, <2>3
<1> QED
  BY <1>3, <1>5, <1>10 DEF ps, V

LEMMA FormatIsNoPiece == Format \notin Pieces
BY DEF Format, Pieces, Names

LEMMA FilledPieces ==
  ASSUME NEW project \in Seq(Pieces), NEW extra \in Seq(Pieces)
  PROVE  LET ps == Filled(project, extra)
         IN ps \in Seq(Seq(Pieces)) /\ Len(ps) = Len(project)
            /\ \A i \in 1..Len(project) : ps[i] = Given(project, extra, i)
<1> DEFINE ps == Filled(project, extra)
           n == Len(project)
           given(i) == Given(project, extra, i)
<1>1. n \in Nat /\ DOMAIN project = 1..n
  OBVIOUS
<1>2. \A i \in 1..n : given(i) \in Seq(Pieces)
  BY GivenIs
<1>3. ps = [i \in 1..n |-> given(i)]
  BY <1>1 DEF Filled
<1> HIDE DEF ps, given, n
<1>4. ps \in [1..n -> Seq(Pieces)]
  BY <1>2, <1>3
<1>5. ps \in Seq(Seq(Pieces)) /\ Len(ps) = n /\ \A i \in 1..n : ps[i] = given(i)
  BY <1>1, <1>3, <1>4
<1> QED
  BY <1>5 DEF ps, given, n

\* What stands for a placeholder is in the prompt.
LEMMA PlacedIsHeld ==
  ASSUME NEW project \in Seq(Pieces), NEW extra \in Seq(Pieces), NEW n \in Names,
         Holds(project, Placeholder(n)), Values(extra)[n] # << >>
  PROVE  Holds(FlattenSeq(Filled(project, extra)) \o <<Format>>, Values(extra)[n])
<1> DEFINE A == Pieces \cup {Format}
           ps == Filled(project, extra)
           part == Values(extra)[n]
           last == <<Format>>
<1>1. PICK i \in 1..Len(project) : StartsAt(project, i, n)
  BY PlaceholderIsPlaced
<1>2. /\ ps \in Seq(Seq(Pieces)) /\ Len(ps) = Len(project)
      /\ \A j \in 1..Len(project) : ps[j] = Given(project, extra, j)
  BY FilledPieces
<1>3. ps[i] = part /\ part \in Seq(Pieces)
  <2>1. IsPlaced(project, i) /\ project[i + 1] = n
    BY <1>1 DEF IsPlaced, StartsAt
  <2>2. Given(project, extra, i) = Values(extra)[n]
    BY <2>1, GivenIs
  <2>3. Values(extra)[n] \in Seq(Pieces)
    BY ValuesAre
  <2> HIDE DEF ps
  <2> QED
    BY <1>2, <2>2, <2>3
<1> HIDE DEF ps, part
<1>4. PICK h \in [Nat -> Seq(Pieces)] :
        /\ FlattenSeq(ps) = h[1] /\ Flattens(h, ps)
        /\ \A j \in 1..Len(ps) : \E pre \in Seq(Pieces) : h[1] = pre \o h[j]
  BY <1>2, Flattening
<1>5. PICK pre \in Seq(Pieces) : h[1] = pre \o h[i]
  BY <1>2, <1>4
<1> DEFINE rest == h[i + 1]
<1>6. h[i] = part \o rest /\ rest \in Seq(Pieces)
  <2>1. h[i] = ps[i] \o h[i + 1]
    BY <1>2, <1>4 DEF Flattens
  <2>2. i + 1 \in Nat
    OBVIOUS
  <2> QED
    BY <1>3, <1>4, <2>1, <2>2
<1> HIDE DEF rest
<1>7. pre \in Seq(A) /\ part \in Seq(A) /\ rest \in Seq(A) /\ last \in Seq(A)
  <2>1. last \in Seq(A) /\ \A s \in Seq(Pieces) : s \in Seq(A)
    OBVIOUS
  <2> HIDE DEF A, last
  <2> QED
    BY <1>3, <1>6, <2>1
<1> HIDE DEF A, last
<1>8. rest \o last \in Seq(A) /\ part \o rest \in Seq(A)
  BY <1>7, ConcatProperties
<1>9. (pre \o (part \o rest)) \o last = pre \o (part \o (rest \o last))
  <2>1. Regroups(A)
    BY Regrouping
  <2>2. pre \o ((part \o rest) \o last) = (pre \o (part \o rest)) \o last
    BY <1>7, <1>8, <2>1, ZenonT(30) DEF Regroups
  <2>3. part \o (rest \o last) = (part \o rest) \o last
    BY <1>7, <2>1, Zenon DEF Regroups
  <2> QED
    BY <2>2, <2>3, Zenon
<1>10. Holds(pre \o (part \o (rest \o last)), part)
  <2>1. part # << >>
    BY DEF part
  <2> QED
    BY <1>7, <1>8, <2>1, PartIsHeld, Zenon
<1>11. Holds(FlattenSeq(ps) \o last, part)
  BY <1>4, <1>5, <1>6, <1>9, <1>10, Zenon
<1> QED
  BY <1>11, Zenon DEF ps, part, last

LEMMA WrittenInPieces ==
  ASSUME NEW words \in Seq(PromptWords) PROVE FlattenSeq(words) \in Seq(Pieces)
<1>1. PromptWords \subseteq Seq(Pieces)
  <2>1. ASSUME NEW w \in PromptWords PROVE w \in Seq(Pieces)
    <3>1. CASE \E n \in Names : w = Placeholder(n)
      <4>1. PICK n \in Names : w = <<"brace", n>>
        BY <3>1 DEF Placeholder
      <4>2. "brace" \in Pieces /\ n \in Pieces
        BY DEF Pieces
      <4> QED
        BY <4>1, <4>2
    <3>2. CASE w \in {<<"brace">>, <<"code">>, <<"cwd">>, <<"text">>, <<"blank">>}
      <4>1. /\ "brace" \in Pieces /\ "code" \in Pieces /\ "cwd" \in Pieces
            /\ "text" \in Pieces /\ "blank" \in Pieces
        BY DEF Pieces, Names
      <4> HIDE DEF Pieces
      <4>2. /\ <<"brace">> \in Seq(Pieces) /\ <<"code">> \in Seq(Pieces)
            /\ <<"cwd">> \in Seq(Pieces) /\ <<"text">> \in Seq(Pieces)
            /\ <<"blank">> \in Seq(Pieces)
        BY <4>1
      <4> QED
        BY <3>2, <4>2, Zenon
    <3> QED
      BY <3>1, <3>2 DEF PromptWords
  <2> QED
    BY <2>1
<1>2. words \in Seq(Seq(Pieces))
  BY <1>1
<1>3. PICK h \in [Nat -> Seq(Pieces)] : FlattenSeq(words) = h[1]
  BY <1>2, Flattening
<1> QED
  BY <1>3

LEMMA ContextsWritten ==
  ASSUME NEW c \in DOMAIN Contexts PROVE Contexts[c] \in Seq(Pieces)
<1>1. "about" \in Pieces /\ "brace" \in Pieces /\ "code" \in Pieces /\ "blank" \in Pieces
  BY DEF Pieces, Names
<1>2. << >> \in Seq(Pieces) /\ <<"blank">> \in Seq(Pieces) /\ <<"about", "brace", "code">> \in Seq(Pieces)
  BY <1>1
<1>3. /\ Contexts["none"] = << >> /\ Contexts["blank"] = <<"blank">>
      /\ Contexts["some"] = <<"about", "brace", "code">>
  BY DEF Contexts
<1>4. DOMAIN Contexts = {"none", "blank", "some"}
  BY DEF Contexts
<1>5. CASE c = "none"
  BY <1>2, <1>3, <1>5, Zenon
<1>6. CASE c = "blank"
  BY <1>2, <1>3, <1>6, Zenon
<1>7. CASE c = "some"
  BY <1>2, <1>3, <1>7, Zenon
<1> QED
  BY <1>4, <1>5, <1>6, <1>7, Zenon

\* The prompt that longline comes with: the code and the directory are in it.
LEMMA OwnPromptIsWhole ==
  ASSUME NEW extra \in Seq(Pieces)
  PROVE  LET prompt == Substitute(Template, Values(extra))
         IN /\ Holds(prompt, Code) /\ Holds(prompt, Cwd)
            /\ Cardinality({i \in DOMAIN prompt : prompt[i] = Format}) = 1
<1> DEFINE A == Pieces \cup {Format}
           py == <<"python">>
           last == <<Format>>
           prompt == Substitute(Template, Values(extra))
<1>1. prompt = py \o (Cwd \o (extra \o (py \o (Code \o last))))
  BY TemplateIsFilled
<1>2. /\ py \in Seq(Pieces) /\ Code \in Seq(Pieces) /\ Cwd \in Seq(Pieces)
      /\ Code # << >> /\ Cwd # << >>
  BY ValuesAre
<1>3. last \in Seq(A) /\ \A s \in Seq(Pieces) : s \in Seq(A)
  OBVIOUS
<1>4. py \in Seq(A) /\ Code \in Seq(A) /\ Cwd \in Seq(A) /\ extra \in Seq(A)
  BY <1>2, <1>3
<1> HIDE DEF prompt, py, A
<1> DEFINE x == Code \o last
           a == extra \o py
           b == Cwd \o a
           c == py \o b
           d == c \o Code
<1>5. /\ a \in Seq(Pieces) /\ b \in Seq(Pieces) /\ c \in Seq(Pieces) /\ d \in Seq(Pieces)
  <2>1. a \in Seq(Pieces)
    BY <1>2
  <2> HIDE DEF a
  <2>2. b \in Seq(Pieces)
    BY <1>2, <2>1
  <2> HIDE DEF b
  <2>3. c \in Seq(Pieces)
    BY <1>2, <2>2
  <2> HIDE DEF c
  <2> QED
    BY <1>2, <2>1, <2>2, <2>3
<1>6. /\ a \in Seq(A) /\ b \in Seq(A) /\ c \in Seq(A) /\ x \in Seq(A)
      /\ extra \o (py \o x) \in Seq(A)
  <2>1. a \in Seq(A) /\ b \in Seq(A) /\ c \in Seq(A)
    <3> HIDE DEF a, b, c
    <3> QED
      BY <1>3, <1>5
  <2>2. x \in Seq(A)
    <3> HIDE DEF last
    <3> QED
      BY <1>3, <1>4
  <2> HIDE DEF x
  <2>3. py \o x \in Seq(A)
    BY <1>4, <2>2
  <2>4. extra \o (py \o x) \in Seq(A)
    BY <1>4, <2>3, ConcatProperties, Zenon
  <2> QED
    BY <2>1, <2>2, <2>4
<1> HIDE DEF x, last
<1>7. prompt = c \o x
  <2>1. Regroups(A)
    BY Regrouping
  <2> HIDE DEF a, b, c
  <2>2. extra \o (py \o x) = a \o x
    BY <1>4, <1>6, <2>1, SMTT(30) DEF Regroups, a
  <2>3. Cwd \o (a \o x) = b \o x
    BY <1>4, <1>6, <2>1, SMTT(30) DEF Regroups, b
  <2>4. py \o (b \o x) = c \o x
    <3>1. py \o (b \o x) = (py \o b) \o x
      <4>1. py \in Seq(A) /\ b \in Seq(A) /\ x \in Seq(A)
        BY <1>4, <1>6
      <4>2. \A u, v, w \in Seq(A) : u \o (v \o w) = (u \o v) \o w
        BY <2>1, Zenon DEF Regroups
      <4> QED
        BY <4>1, <4>2
    <3> QED
      BY <3>1, Zenon DEF c
  <2> QED
    BY <1>1, <2>2, <2>3, <2>4, Zenon DEF x
<1>8. prompt = d \o last
  <2>1. Regroups(A)
    BY Regrouping
  <2> HIDE DEF c
  <2>2. c \o (Code \o last) = (c \o Code) \o last
    <3>1. last \in Seq(A) /\ c \in Seq(A) /\ Code \in Seq(A)
      BY <1>3, <1>4, <1>6
    <3>2. \A u, v, w \in Seq(A) : u \o (v \o w) = (u \o v) \o w
      BY <2>1, Zenon DEF Regroups
    <3> QED
      BY <3>1, <3>2
  <2> QED
    BY <1>7, <2>2, Zenon DEF x
<1> HIDE DEF a, b, c, d
<1>9. Holds(prompt, Code)
  BY <1>2, <1>3, <1>4, <1>6, <1>7, PartIsHeld, Zenon DEF x
<1>10. Holds(prompt, Cwd)
  BY <1>1, <1>2, <1>4, <1>6, PartIsHeld, Zenon DEF x
<1>11. Cardinality({i \in DOMAIN prompt : prompt[i] = Format}) = 1
  BY <1>5, <1>8, FormatIsNoPiece, FormatStandsOnce, Zenon DEF last
<1> QED
  BY <1>9, <1>10, <1>11 DEF prompt

PromptSays(words, context) ==
  LET project == FlattenSeq(words)
      prompt == BuildPrompt(project, context)
  IN /\ PromptIsValid(project) => Holds(prompt, Code) /\ Holds(prompt, Cwd)
     /\ ~IsBlank(project) =>
          prompt = FlattenSeq(Filled(project, context)) \o <<Format>>
     /\ Cardinality({i \in DOMAIN prompt : prompt[i] = Format}) = 1

LEMMA PromptIsBuilt ==
  ASSUME NEW project, NEW context
  PROVE  BuildPrompt(project, context) =
           IF ~IsBlank(project) THEN Substitute(project, Values(context)) \o <<Format>>
           ELSE Substitute(Template, Values(IF IsBlank(context) THEN << >>
                                            ELSE <<"newline">> \o context \o <<"newline">>))
BY Zenon DEF BuildPrompt, Values, Suffix

LEMMA PromptsAreWhole ==
  ASSUME NEW words \in Seq(PromptWords), NEW context \in Seq(Pieces)
  PROVE  PromptSays(words, context)
<1> DEFINE project == FlattenSeq(words)
           prompt == BuildPrompt(project, context)
<1>1. project \in Seq(Pieces)
  BY WrittenInPieces
<1> HIDE DEF project
<1>2. CASE IsBlank(project)
  <2> DEFINE extra == IF IsBlank(context) THEN << >>
                      ELSE <<"newline">> \o context \o <<"newline">>
  <2>1. extra \in Seq(Pieces)
    <3>1. "newline" \in Pieces
      BY DEF Pieces
    <3>2. <<"newline">> \in Seq(Pieces)
      BY <3>1
    <3>3. << >> \in Seq(Pieces)
      OBVIOUS
    <3>4. (<<"newline">> \o context) \o <<"newline">> \in Seq(Pieces)
      BY <3>2, ConcatProperties
    <3> QED
      BY <3>3, <3>4
  <2> HIDE DEF extra
  <2>2. prompt = Substitute(Template, Values(extra))
    BY <1>2, PromptIsBuilt, Zenon DEF extra
  <2>3. /\ Holds(prompt, Code) /\ Holds(prompt, Cwd)
        /\ Cardinality({i \in DOMAIN prompt : prompt[i] = Format}) = 1
    BY <2>1, <2>2, OwnPromptIsWhole
  <2> QED
    BY <1>2, <2>3 DEF PromptSays, project
<1>3. CASE ~IsBlank(project)
  <2> DEFINE filled == FlattenSeq(Filled(project, context))
  <2>1. prompt = filled \o <<Format>>
    BY <1>1, <1>3, PromptIsBuilt, SubstitutedIsFilled, Zenon
  <2>2. filled \in Seq(Pieces)
    <3>1. Filled(project, context) \in Seq(Seq(Pieces))
      BY <1>1, FilledPieces
    <3>2. PICK h \in [Nat -> Seq(Pieces)] : filled = h[1]
      BY <3>1, Flattening
    <3> HIDE DEF filled
    <3> QED
      BY <3>2
  <2>3. ASSUME PromptIsValid(project) PROVE Holds(prompt, Code) /\ Holds(prompt, Cwd)
    <3>1. Holds(project, Placeholder("code")) /\ Holds(project, Placeholder("cwd"))
      BY <1>3, <2>3 DEF PromptIsValid
    <3>2. "code" \in Names /\ "cwd" \in Names
      BY DEF Names
    <3>3. /\ Values(context)["code"] = Code /\ Values(context)["cwd"] = Cwd
          /\ Code # << >> /\ Cwd # << >>
      BY ValuesAre
    <3>4. /\ Holds(filled \o <<Format>>, Values(context)["code"])
          /\ Holds(filled \o <<Format>>, Values(context)["cwd"])
      BY <1>1, <3>1, <3>2, <3>3, PlacedIsHeld
    <3> QED
      BY <2>1, <3>3, <3>4
  <2>4. Cardinality({i \in DOMAIN prompt : prompt[i] = Format}) = 1
    <3> HIDE DEF prompt, filled
    <3> QED
      BY <2>1, <2>2, FormatIsNoPiece, FormatStandsOnce, Zenon
  <2> QED
    BY <1>3, <2>1, <2>3, <2>4 DEF PromptSays, project
<1> QED
  BY <1>2, <1>3
=============================================================================
