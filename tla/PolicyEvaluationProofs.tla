------------------------ MODULE PolicyEvaluationProofs ------------------------
(***************************************************************************)
(* DenialIsFinal, AllowIsVouched and OneMoreNeverHelps of PolicyEvaluation *)
(* for statement trees of any size, any facts and any depth limit.         *)
(*                                                                         *)
(* The first two rest on coverage: unless a chain of wrappers is longer    *)
(* than MAX_UNWRAP_DEPTH, each statement of the tree is among what         *)
(* evaluate looks at; the third on what the functions that collect lose    *)
(* and gain from one tree to the next.  They are recursive; Recursion has  *)
(* the lemmas that they are defined at all, and by which to prove what     *)
(* they collect: by the first node or depth without the property.          *)
(***************************************************************************)
EXTENDS PolicyEvaluation, Recursion, TLAPS

-----------------------------------------------------------------------------
(* The tree.                                                               *)

NodeInv(n) ==
  /\ n = Root => tree[n].parent = 0 /\ tree[n].edge = "root"
  /\ n # Root =>
       /\ tree[n].parent \in Nodes /\ tree[n].parent < n /\ tree[n].edge \in Edges
       /\ Kind(tree[n].parent) \in IF tree[n].edge = "part" THEN {"pipeline", "list"}
                                                            ELSE {"command"}
  /\ tree[n].edge \in {"wraps", "execs"} => Kind(n) = "command" /\ Kids(n, "subst") = {}

Nodelike == [kind : Kinds, parent : Nat, edge : Edges \cup {"root"}, facts : SUBSET Facts]

TreeInv == tree \in Seq(Nodelike) /\ Root \in Nodes /\ \A n \in Nodes : NodeInv(n)

\* The facts about a statement are facts.
LEMMA FactsAreFacts ==
  ASSUME NEW kind \in Kinds, NEW facts \in FactsOf(kind)
  PROVE  facts \in SUBSET Facts
BY PolicyAssumption DEF FactsOf, Kinds, Facts

\* A single statement is a tree.
LEMMA TreeInvInit == Init => TreeInv
<1> SUFFICES ASSUME Init PROVE TreeInv
  OBVIOUS
<1>0. PICK kind \in Kinds : \E facts \in FactsOf(kind) : tree = <<Node(kind, 0, "root", facts)>>
  BY DEF Init
<1>1. PICK facts \in FactsOf(kind) : tree = <<Node(kind, 0, "root", facts)>>
  BY <1>0
<1>2. facts \in SUBSET Facts
  BY FactsAreFacts
<1>3. DOMAIN tree = {1} /\ tree[1] = Node(kind, 0, "root", facts)
  BY <1>1
<1>4. tree \in Seq(Nodelike)
  BY <1>1, <1>2 DEF Node, Nodelike
<1> QED
  BY <1>3, <1>4 DEF TreeInv, NodeInv, Node, Nodes, Root, Kids

\* What the parser adds to a tree makes a tree.
LEMMA TreeInvStep == TreeInv /\ [Next]_tree => TreeInv'
<1> SUFFICES ASSUME TreeInv, [Next]_tree PROVE TreeInv'
  OBVIOUS
<1>1. CASE UNCHANGED tree
  BY <1>1 DEF TreeInv, NodeInv, Nodes, Kind, Kids
<1>2. ASSUME NEW n \in Nodes, NEW edge \in Edges, NEW kind \in Kinds, NEW facts \in FactsOf(kind),
             Write(n, edge, kind, facts)
      PROVE  TreeInv'
  <2> DEFINE new == Node(kind, n, edge, facts)
  <2>0. PICK last \in Nat : last = Len(tree) + 1
    BY DEF TreeInv
  <2>1. tree' = Append(tree, new) /\ Fits(n, edge, kind) /\ tree \in Seq(Nodelike)
    BY <1>2 DEF Write, TreeInv
  <2>2. /\ new.parent = n /\ new.edge = edge /\ new.kind = kind
        /\ new \in Nodelike /\ n \in Nat /\ n < last
    BY <2>0, <2>1, FactsAreFacts DEF Node, Nodes, Nodelike
  <2> HIDE DEF new
  <2>3. /\ Nodes = 1..Len(tree) /\ Nodes' = Nodes \cup {last} /\ last \notin Nodes
        /\ \A m \in Nodes : tree'[m] = tree[m]
        /\ tree'[last] = new /\ tree' \in Seq(Nodelike)
    BY <2>0, <2>1, <2>2 DEF Nodes
  <2>4. /\ Root \in Nodes' /\ last # Root
        /\ \A m \in Nodes : Kind(m)' = Kind(m)
    BY <2>3 DEF TreeInv, Kind
  <2>5. ASSUME NEW m \in Nodes PROVE NodeInv(m)'
    <3>1. NodeInv(m) /\ tree'[m] = tree[m] /\ Kind(m)' = Kind(m)
      BY <2>3, <2>4 DEF TreeInv
    <3>2. Kids(m, "subst")' = Kids(m, "subst") \cup
            (IF m = n /\ edge = "subst" THEN {last} ELSE {})
      BY <2>2, <2>3 DEF Kids
    <3>3. tree[m].edge \in {"wraps", "execs"} => ~(m = n /\ edge = "subst")
      BY <2>1 DEF Fits
    <3>4. m # Root => Kind(tree[m].parent)' = Kind(tree[m].parent)
      BY <2>4, <3>1 DEF NodeInv, Kind
    <3> QED
      BY <2>3, <3>1, <3>2, <3>3, <3>4 DEF NodeInv
  <2>6. NodeInv(last)'
    <3>1. Kids(last, "subst")' = {}
      <4>1. \A m \in Nodes : tree[m].parent \in Nodes \cup {0}
        BY DEF TreeInv, NodeInv
      <4>2. last # 0 /\ n # last
        BY <2>0, <2>2, <2>3 DEF TreeInv
      <4> QED
        BY <2>2, <2>3, <4>1, <4>2 DEF Kids
    <3>2. /\ Kind(n) \in IF edge = "part" THEN {"pipeline", "list"} ELSE {"command"}
          /\ edge \in {"wraps", "execs"} => kind = "command"
      BY <2>1 DEF Fits, Edges
    <3>3. tree'[last].parent = n /\ Kind(n)' = Kind(n) /\ Kind(last)' = kind
      BY <2>2, <2>3, <2>4 DEF Kind
    <3> QED
      BY <2>2, <2>3, <2>4, <3>1, <3>2, <3>3 DEF NodeInv
  <2> QED
    BY <2>3, <2>4, <2>5, <2>6 DEF TreeInv
<1> QED
  BY <1>1, <1>2 DEF Next

\* Every tree the parser can build is one in which what hangs on what is known.
THEOREM TreeCorrect == Spec => []TreeInv
BY TreeInvInit, TreeInvStep, PTL DEF Spec
-----------------------------------------------------------------------------
(* The functions that collect satisfy their equations.                     *)

Joined(n) == Kind(n) \in {"pipeline", "list"}

\* Children are nodes,
LEMMA KidsAreNodes == \A n, e : Kids(n, e) \subseteq Nodes
BY DEF Kids

\* and every node has one of the kinds and facts.
LEMMA KindIsKind ==
  ASSUME TreeInv, NEW n \in Nodes
  PROVE  Kind(n) \in Kinds /\ tree[n].facts \subseteq Facts
<1>1. tree \in Seq(Nodelike) /\ n \in DOMAIN tree
  BY DEF TreeInv, Nodes
<1>2. tree[n] \in Nodelike
  BY <1>1
<1> QED
  BY <1>2 DEF Nodelike, Kind

\* Flatten is what parser::flatten computes.
LEMMA FlattenUnfolds ==
  ASSUME TreeInv, NEW n \in Nodes
  PROVE  Flatten[n] = CASE Kind(n) = "command" -> {n} \cup UNION {Flatten[m] : m \in Kids(n, "subst")}
                        [] Kind(n) \in {"pipeline", "list"} ->
                             UNION {Flatten[m] : m \in Kids(n, "part")}
                        [] Kind(n) \in {"opaque", "empty"} -> {n}
<1> DEFINE Rule(f, x) ==
             CASE Kind(x) = "command" -> {x} \cup UNION {f[m] : m \in Kids(x, "subst")}
               [] Kind(x) \in {"pipeline", "list"} -> UNION {f[m] : m \in Kids(x, "part")}
               [] Kind(x) \in {"opaque", "empty"} -> {x}
           base == [x \in Nodes |-> IF Joined(x) THEN {} ELSE {x}]
           kids == [x \in Nodes |-> IF Kind(x) = "command" THEN Kids(x, "subst")
                                    ELSE IF Joined(x) THEN Kids(x, "part") ELSE {}]
<1>1. \A x \in Nodes : kids[x] \subseteq Nodes
  BY KidsAreNodes
<1>2. PICK f : Solves(f, Nodes, base, kids)
  <2> HIDE DEF base, kids
  <2> QED
    BY <1>1, LeastSolution
<1>3. ASSUME NEW x \in Nodes PROVE f[x] = Rule(f, x)
  <2>1. f[x] = base[x] \cup UNION {f[y] : y \in kids[x]}
    BY <1>2 DEF Solves
  <2>2. Kind(x) \in Kinds
    BY KindIsKind
  <2>3. CASE Kind(x) = "command"
    BY <2>1, <2>3 DEF Joined
  <2>4. CASE Kind(x) \in {"pipeline", "list"}
    BY <2>1, <2>4 DEF Joined
  <2>5. CASE Kind(x) \in {"opaque", "empty"}
    BY <2>1, <2>5 DEF Joined
  <2> QED
    BY <2>2, <2>3, <2>4, <2>5 DEF Kinds
<1>4. f = [x \in Nodes |-> Rule(f, x)]
  <2>1. f = [x \in Nodes |-> f[x]]
    BY <1>2 DEF Solves
  <2> HIDE DEF Rule
  <2> QED
    BY <1>3, <2>1
<1>5. Flatten = [x \in Nodes |-> Rule(Flatten, x)]
  <2>1. Flatten = CHOOSE g : g = [x \in Nodes |-> Rule(g, x)]
    BY Zenon DEF Flatten
  <2> HIDE DEF Rule
  <2> QED
    BY <1>4, <2>1
<1> QED
  BY <1>5
\* f[n] is flatten_top_only of statement n.
IsTopOnly(f) ==
  /\ FlattenTopOnly = f[Root]
  /\ \A n \in Nodes : f[n] = IF Kind(n) \in {"pipeline", "list"}
                             THEN UNION {f[m] : m \in Kids(n, "part")} ELSE {n}

\* Such a function exists, by LeastSolution.
LEMMA TopOnlyExists == \E f : IsTopOnly(f)
<1> DEFINE Rule(f, x) == IF Kind(x) \in {"pipeline", "list"}
                         THEN UNION {f[m] : m \in Kids(x, "part")} ELSE {x}
           Eq(f) == f = [x \in Nodes |-> Rule(f, x)]
           base == [x \in Nodes |-> IF Joined(x) THEN {} ELSE {x}]
           kids == [x \in Nodes |-> IF Joined(x) THEN Kids(x, "part") ELSE {}]
<1>1. \A x \in Nodes : kids[x] \subseteq Nodes
  BY KidsAreNodes
<1>2. PICK f : Solves(f, Nodes, base, kids)
  <2> HIDE DEF base, kids
  <2> QED
    BY <1>1, LeastSolution
<1>3. ASSUME NEW x \in Nodes PROVE f[x] = Rule(f, x)
  <2>1. f[x] = base[x] \cup UNION {f[y] : y \in kids[x]}
    BY <1>2 DEF Solves
  <2>2. CASE Joined(x)
    BY <2>1, <2>2 DEF Joined
  <2>3. CASE ~Joined(x)
    BY <2>1, <2>3 DEF Joined
  <2> QED
    BY <2>2, <2>3
<1>4. Eq(f)
  <2>1. f = [x \in Nodes |-> f[x]]
    BY <1>2 DEF Solves
  <2> HIDE DEF Rule
  <2> QED
    BY <1>3, <2>1
<1> DEFINE h == CHOOSE g : Eq(g)
<1>5. FlattenTopOnly = h[Root]
  BY Zenon DEF FlattenTopOnly
<1>6. Eq(h)
  <2> HIDE DEF Eq
  <2> QED
    BY <1>4
<1>7. \A x \in Nodes : h[x] = Rule(h, x)
  <2> HIDE DEF h, Rule
  <2> QED
    BY <1>6
<1>8. IsTopOnly(h)
  <2> HIDE DEF h
  <2> QED
    BY <1>5, <1>7 DEF IsTopOnly
<1> QED
  BY <1>8

\* u[<<n, d>>] is what unwrap_recursive finds for statement n at depth d.
IsUnwrapRecursive(u) ==
  /\ \A n \in Nodes : Unwrapped[n] = u[<<n, 0>>]
  /\ \A n \in Nodes, d \in Depths :
       u[<<n, d>>] = UNION {IF d = MaxUnwrapDepth THEN {TooDeep} ELSE {m} \cup u[<<m, d + 1>>] :
                              m \in Kids(n, "wraps")}

\* Such a function exists, by LeastSolution over nodes and depths.
LEMMA UnwrapRecursiveExists == \E u : IsUnwrapRecursive(u)
<1> DEFINE S == Nodes \X Depths
           Rule(f, n, d) == UNION {IF d = MaxUnwrapDepth THEN {TooDeep}
                                   ELSE {m} \cup f[<<m, d + 1>>] : m \in Kids(n, "wraps")}
           Eq(f) == f = [x \in S |-> Rule(f, x[1], x[2])]
           base == [x \in S |-> IF x[2] = MaxUnwrapDepth
                                THEN {TooDeep : m \in Kids(x[1], "wraps")} ELSE Kids(x[1], "wraps")]
           kids == [x \in S |-> IF x[2] = MaxUnwrapDepth THEN {}
                                ELSE {<<m, x[2] + 1>> : m \in Kids(x[1], "wraps")}]
<1>0. \A d \in Depths : d # MaxUnwrapDepth => d + 1 \in Depths
  BY PolicyAssumption DEF Depths
<1>1. \A x \in S : kids[x] \subseteq S
  BY <1>0, KidsAreNodes
<1>2. PICK f : Solves(f, S, base, kids)
  <2> HIDE DEF base, kids, S
  <2> QED
    BY <1>1, LeastSolution
<1>3. ASSUME NEW x \in S PROVE f[x] = Rule(f, x[1], x[2])
  <2>1. f[x] = base[x] \cup UNION {f[y] : y \in kids[x]}
    BY <1>2 DEF Solves
  <2>2. CASE x[2] = MaxUnwrapDepth
    BY <2>1, <2>2
  <2>3. CASE x[2] # MaxUnwrapDepth
    <3>1. base[x] = Kids(x[1], "wraps") /\ kids[x] = {<<m, x[2] + 1>> : m \in Kids(x[1], "wraps")}
      BY <2>3
    <3> HIDE DEF base, kids
    <3>2. UNION {f[y] : y \in kids[x]} = UNION {f[<<m, x[2] + 1>>] : m \in Kids(x[1], "wraps")}
      BY <3>1
    <3> QED
      BY <2>1, <2>3, <3>1, <3>2
  <2> QED
    BY <2>2, <2>3
<1>4. Eq(f)
  <2>1. f = [x \in S |-> f[x]]
    BY <1>2 DEF Solves
  <2> HIDE DEF Rule, S
  <2> QED
    BY <1>3, <2>1
<1> DEFINE h == CHOOSE g : Eq(g)
<1>5. Unwrapped = [n \in Nodes |-> h[<<n, 0>>]]
  BY Zenon DEF Unwrapped
<1>6. Eq(h)
  <2> HIDE DEF Eq
  <2> QED
    BY <1>4
<1>7. \A n \in Nodes, d \in Depths : h[<<n, d>>] = Rule(h, n, d)
  <2> HIDE DEF h, Rule
  <2> QED
    BY <1>6
<1>8. IsUnwrapRecursive(h)
  <2> HIDE DEF h
  <2> QED
    BY <1>5, <1>7 DEF IsUnwrapRecursive
<1> QED
  BY <1>8
-----------------------------------------------------------------------------
(* Induction, over sets of depths and of nodes.                            *)

\* From the depth limit up,
LEMMA DepthInduction ==
  ASSUME NEW G, MaxUnwrapDepth \in G, \A d \in Depths : d + 1 \in Depths /\ d + 1 \in G => d \in G
  PROVE  Depths \subseteq G
<1> DEFINE T == {k \in Depths : MaxUnwrapDepth - k \notin G}
<1>0. MaxUnwrapDepth \in Nat /\ T \subseteq Nat /\ \A k \in Depths : MaxUnwrapDepth - k \in Depths
  BY PolicyAssumption DEF Depths
<1>1. ASSUME T # {} PROVE FALSE
  <2>1. PICK k \in T : \A j \in T : k <= j
    BY <1>0, <1>1, LeastNumber
  <2>2. k # 0 /\ k \in Depths /\ k - 1 \in Depths /\ k \in Nat
    BY <1>0, <2>1 DEF Depths
  <2>3. ~(k <= k - 1)
    BY <2>2
  <2>4. MaxUnwrapDepth - (k - 1) \in G
    BY <2>1, <2>2, <2>3
  <2>5. MaxUnwrapDepth - (k - 1) = (MaxUnwrapDepth - k) + 1 /\ MaxUnwrapDepth - (k - 1) \in Depths
    BY <1>0, <2>2
  <2> QED
    BY <1>0, <2>1, <2>2, <2>4, <2>5
<1>2. ASSUME NEW d \in Depths PROVE d \in G
  <2>1. MaxUnwrapDepth - (MaxUnwrapDepth - d) = d
    BY <1>0 DEF Depths
  <2>2. MaxUnwrapDepth - d \notin T
    BY <1>1, Zenon
  <2> QED
    BY <1>0, <2>1, <2>2
<1> QED
  BY <1>2

\* from the root down,
LEMMA NodeInduction ==
  ASSUME TreeInv, NEW G, \A n \in Nodes : (\A m \in Nodes : m < n => m \in G) => n \in G
  PROVE  Nodes \subseteq G
<1> DEFINE T == Nodes \ G
<1>1. Nodes \subseteq Nat
  BY DEF TreeInv, Nodes
<1>2. ASSUME T # {} PROVE FALSE
  <2>1. PICK n \in T : \A m \in T : n <= m
    BY <1>1, <1>2, LeastNumber
  <2>2. \A m \in Nodes : m < n => m \in G
    BY <1>1, <2>1
  <2> QED
    BY <2>1, <2>2
<1> QED
  BY <1>2

\* and from the last nodes up.
LEMMA NodeInductionUp ==
  ASSUME TreeInv, NEW G, \A n \in Nodes : (\A m \in Nodes : n < m => m \in G) => n \in G
  PROVE  Nodes \subseteq G
<1> DEFINE T == {k \in Nat : Len(tree) - k \in Nodes \ G}
<1>1. Nodes = 1..Len(tree) /\ Len(tree) \in Nat
  BY DEF TreeInv, Nodes
<1>2. ASSUME T # {} PROVE FALSE
  <2>1. PICK k \in T : \A j \in T : k <= j
    BY <1>2, LeastNumber
  <2>2. ASSUME NEW m \in Nodes, Len(tree) - k < m PROVE m \in G
    <3>1. Len(tree) - m \in Nat /\ Len(tree) - m < k /\ Len(tree) - (Len(tree) - m) = m
      BY <1>1, <2>1, <2>2
    <3>2. Len(tree) - m \notin T
      BY <2>1, <3>1
    <3> QED
      BY <3>1, <3>2
  <2> QED
    BY <2>1, <2>2
<1>3. ASSUME NEW n \in Nodes PROVE n \in G
  <2>1. Len(tree) - n \in Nat /\ Len(tree) - (Len(tree) - n) = n
    BY <1>1
  <2>2. Len(tree) - n \notin T
    BY <1>2, Zenon
  <2> QED
    BY <2>1, <2>2
<1> QED
  BY <1>3

-----------------------------------------------------------------------------
(* What wrappers wrap.                                                     *)

Within(edges, n) == {m \in Nodes : n < m /\ tree[m].edge \in edges} \cup {TooDeep}

\* A node is before what hangs on it.
LEMMA KidsFollow ==
  ASSUME TreeInv, NEW n \in Nodes, NEW e, NEW m \in Kids(n, e)
  PROVE  /\ m \in Nodes /\ m # Root /\ tree[m].edge = e /\ e \in Edges
         /\ n < m /\ n \in Nat /\ m \in Nat /\ tree[m].parent = n
         /\ Kind(n) \in IF e = "part" THEN {"pipeline", "list"} ELSE {"command"}
<1>1. m \in Nodes /\ tree[m].parent = n /\ tree[m].edge = e
  BY DEF Kids
<1>2. NodeInv(m) /\ n # 0 /\ n \in Nat /\ m \in Nat
  BY <1>1 DEF TreeInv, Nodes
<1> QED
  BY <1>1, <1>2 DEF NodeInv

\* What is unwrapped is nodes on "wraps" edges further down,
LEMMA UnwrapsNodes ==
  ASSUME TreeInv, NEW u, IsUnwrapRecursive(u)
  PROVE  \A d \in Depths : \A n \in Nodes : u[<<n, d>>] \subseteq Within({"wraps"}, n)
<1> DEFINE P(d) == \A n \in Nodes : u[<<n, d>>] \subseteq Within({"wraps"}, n)
           G == {d \in Depths : P(d)}
<1>1. ASSUME NEW d \in Depths, d = MaxUnwrapDepth \/ (d + 1 \in Depths /\ P(d + 1)) PROVE P(d)
  <2> SUFFICES ASSUME NEW n \in Nodes, NEW x \in u[<<n, d>>] PROVE x \in Within({"wraps"}, n)
    OBVIOUS
  <2>1. u[<<n, d>>] = UNION {IF d = MaxUnwrapDepth THEN {TooDeep} ELSE {m} \cup u[<<m, d + 1>>] :
                              m \in Kids(n, "wraps")}
    BY DEF IsUnwrapRecursive
  <2>2. PICK m \in Kids(n, "wraps") :
          x \in IF d = MaxUnwrapDepth THEN {TooDeep} ELSE {m} \cup u[<<m, d + 1>>]
    BY <2>1
  <2>3. m \in Nodes /\ tree[m].edge = "wraps" /\ n < m /\ n \in Nat /\ m \in Nat
    BY KidsFollow
  <2>4. CASE x = TooDeep
    BY <2>4 DEF Within
  <2>5. CASE x = m
    BY <2>3, <2>5 DEF Within
  <2>6. CASE d # MaxUnwrapDepth /\ x \in u[<<m, d + 1>>]
    <3>1. x \in Within({"wraps"}, m)
      BY <1>1, <2>3, <2>6
    <3>2. \A y \in Nodes : y \in Nat
      BY DEF TreeInv, Nodes
    <3> QED
      BY <2>3, <3>1, <3>2 DEF Within
  <2> QED
    BY <2>2, <2>4, <2>5, <2>6
<1>2. MaxUnwrapDepth \in G
  BY <1>1, PolicyAssumption DEF Depths
<1>3. \A d \in Depths : d + 1 \in Depths /\ d + 1 \in G => d \in G
  BY <1>1
<1> HIDE DEF G
<1>4. Depths \subseteq G
  BY <1>2, <1>3, DepthInduction
<1> USE DEF G
<1> QED
  BY <1>4

\* and unless they go too deep, with what is wrapped by them.
LEMMA UnwrapsAll ==
  ASSUME TreeInv, NEW u, IsUnwrapRecursive(u)
  PROVE  \A d \in Depths : \A n \in Nodes : TooDeep \notin u[<<n, d>>] =>
           /\ Kids(n, "wraps") \subseteq u[<<n, d>>]
           /\ \A m \in u[<<n, d>>] : Kids(m, "wraps") \subseteq u[<<n, d>>]
<1> DEFINE P(d) == \A n \in Nodes : TooDeep \notin u[<<n, d>>] =>
                     /\ Kids(n, "wraps") \subseteq u[<<n, d>>]
                     /\ \A m \in u[<<n, d>>] : Kids(m, "wraps") \subseteq u[<<n, d>>]
           G == {d \in Depths : P(d)}
<1>1. ASSUME NEW d \in Depths, d = MaxUnwrapDepth \/ (d + 1 \in Depths /\ P(d + 1)) PROVE P(d)
  <2> SUFFICES ASSUME NEW n \in Nodes, TooDeep \notin u[<<n, d>>]
               PROVE  /\ Kids(n, "wraps") \subseteq u[<<n, d>>]
                      /\ \A m \in u[<<n, d>>] : Kids(m, "wraps") \subseteq u[<<n, d>>]
    OBVIOUS
  <2>1. u[<<n, d>>] = UNION {IF d = MaxUnwrapDepth THEN {TooDeep} ELSE {m} \cup u[<<m, d + 1>>] :
                              m \in Kids(n, "wraps")}
    BY DEF IsUnwrapRecursive
  <2>2. CASE d = MaxUnwrapDepth
    BY <2>1, <2>2
  <2>3. CASE d # MaxUnwrapDepth
    <3>1. \A x : x \in u[<<n, d>>] <=>
            \E m \in Kids(n, "wraps") : x = m \/ x \in u[<<m, d + 1>>]
      BY <2>1, <2>3
    <3>2. \A m \in Kids(n, "wraps") : m \in Nodes /\ TooDeep \notin u[<<m, d + 1>>]
      BY <3>1, KidsFollow
    <3>3. P(d + 1)
      BY <1>1, <2>3
    <3> HIDE DEF P
    <3>4. ASSUME NEW x \in u[<<n, d>>], NEW y \in Kids(x, "wraps") PROVE y \in u[<<n, d>>]
      <4>1. PICK m \in Kids(n, "wraps") : x = m \/ x \in u[<<m, d + 1>>]
        BY <3>1
      <4>2. y \in u[<<m, d + 1>>]
        BY <3>2, <3>3, <4>1 DEF P
      <4> QED
        BY <3>1, <4>2
    <3> QED
      BY <3>1, <3>4
  <2> QED
    BY <2>2, <2>3
<1>2. MaxUnwrapDepth \in G
  BY <1>1, PolicyAssumption DEF Depths
<1>3. \A d \in Depths : d + 1 \in Depths /\ d + 1 \in G => d \in G
  BY <1>1
<1> HIDE DEF G
<1>4. Depths \subseteq G
  BY <1>2, <1>3, DepthInduction
<1> USE DEF G
<1> QED
  BY <1>4

\* The mark of what is nested too deep is no node.
LEMMA TooDeepIsNoNode == TreeInv => TooDeep \notin Nodes
BY DEF TreeInv, Nodes, TooDeep

\* The same of what a statement wraps, and of what find or xargs runs first.
LEMMA UnwrappedIsAll ==
  ASSUME TreeInv, NEW n \in Nodes
  PROVE  /\ Unwrapped[n] \subseteq Within({"wraps"}, n)
         /\ TooDeep \notin Unwrapped[n] =>
              /\ Kids(n, "wraps") \subseteq Unwrapped[n]
              /\ \A m \in Unwrapped[n] : Kids(m, "wraps") \subseteq Unwrapped[n]
<1>1. PICK u : IsUnwrapRecursive(u)
  BY UnwrapRecursiveExists
<1>2. 0 \in Depths /\ Unwrapped[n] = u[<<n, 0>>]
  BY <1>1, PolicyAssumption DEF IsUnwrapRecursive, Depths
<1>3. u[<<n, 0>>] \subseteq Within({"wraps"}, n)
  BY <1>1, <1>2, UnwrapsNodes
<1>4. TooDeep \notin u[<<n, 0>>] =>
        /\ Kids(n, "wraps") \subseteq u[<<n, 0>>]
        /\ \A m \in u[<<n, 0>>] : Kids(m, "wraps") \subseteq u[<<n, 0>>]
  BY <1>1, <1>2, UnwrapsAll
<1> QED
  BY <1>2, <1>3, <1>4

\* Found has the statement, what it wraps, and nothing else.
LEMMA FoundIsAll ==
  ASSUME TreeInv, NEW n \in Nodes
  PROVE  /\ n \in Found(n) /\ Found(n) \subseteq {n} \cup Within({"wraps"}, n)
         /\ TooDeep \notin Found(n) => \A m \in Found(n) : Kids(m, "wraps") \subseteq Found(n)
BY UnwrappedIsAll DEF Found

\* x[<<n, d>>] is what collect_find_xargs_extras finds for statement n at depth d.
IsCollectFindXargs(x) ==
  /\ \A n \in Nodes : Executed[n] = x[<<n, 0>>]
  /\ \A n \in Nodes, d \in Depths :
       x[<<n, d>>] = UNION {IF d = MaxUnwrapDepth THEN {TooDeep}
                            ELSE Found(m) \cup UNION {x[<<c, d + 1>>] : c \in Found(m) \ {TooDeep}} :
                              m \in Kids(n, "execs")}

\* Such a function exists, by LeastSolution over nodes and depths.
LEMMA CollectFindXargsExists == TreeInv => \E x : IsCollectFindXargs(x)
<1> SUFFICES ASSUME TreeInv PROVE \E x : IsCollectFindXargs(x)
  OBVIOUS
<1> DEFINE S == Nodes \X Depths
           Rule(f, n, d) ==
             UNION {IF d = MaxUnwrapDepth THEN {TooDeep}
                    ELSE Found(m) \cup UNION {f[<<c, d + 1>>] : c \in Found(m) \ {TooDeep}} :
                      m \in Kids(n, "execs")}
           Eq(f) == f = [x \in S |-> Rule(f, x[1], x[2])]
           FoundBy(n) == UNION {Found(m) : m \in Kids(n, "execs")}
           base == [x \in S |-> IF x[2] = MaxUnwrapDepth
                                THEN {TooDeep : m \in Kids(x[1], "execs")} ELSE FoundBy(x[1])]
           kids == [x \in S |-> IF x[2] = MaxUnwrapDepth THEN {}
                                ELSE {<<c, x[2] + 1>> : c \in FoundBy(x[1]) \ {TooDeep}}]
<1>0. \A d \in Depths : d # MaxUnwrapDepth => d + 1 \in Depths
  BY PolicyAssumption DEF Depths
<1>1. \A x \in S : kids[x] \subseteq S
  <2>1. \A n \in Nodes : FoundBy(n) \ {TooDeep} \subseteq Nodes
    BY FoundIsAll, KidsAreNodes DEF Within
  <2> HIDE DEF FoundBy
  <2> QED
    BY <1>0, <2>1
<1>2. PICK f : Solves(f, S, base, kids)
  <2> HIDE DEF base, kids, S
  <2> QED
    BY <1>1, LeastSolution
<1>3. ASSUME NEW x \in S PROVE f[x] = Rule(f, x[1], x[2])
  <2>1. f[x] = base[x] \cup UNION {f[y] : y \in kids[x]}
    BY <1>2 DEF Solves
  <2>2. CASE x[2] = MaxUnwrapDepth
    BY <2>1, <2>2
  <2>3. CASE x[2] # MaxUnwrapDepth
    <3>1. /\ base[x] = FoundBy(x[1])
          /\ kids[x] = {<<c, x[2] + 1>> : c \in FoundBy(x[1]) \ {TooDeep}}
      BY <2>3
    <3> HIDE DEF base, kids, FoundBy
    <3>2. UNION {f[y] : y \in kids[x]} = UNION {f[<<c, x[2] + 1>>] : c \in FoundBy(x[1]) \ {TooDeep}}
      BY <3>1
    <3>3. Rule(f, x[1], x[2])
            = UNION {Found(m) \cup UNION {f[<<c, x[2] + 1>>] : c \in Found(m) \ {TooDeep}} :
                       m \in Kids(x[1], "execs")}
      BY <2>3
    <3>4. FoundBy(x[1]) \cup UNION {f[<<c, x[2] + 1>>] : c \in FoundBy(x[1]) \ {TooDeep}}
            = UNION {Found(m) \cup UNION {f[<<c, x[2] + 1>>] : c \in Found(m) \ {TooDeep}} :
                       m \in Kids(x[1], "execs")}
      <4> DEFINE K == Kids(x[1], "execs")
                 More(c) == f[<<c, x[2] + 1>>]
                 All == FoundBy(x[1])
      <4>1. \A c : c \in All <=> \E m \in K : c \in Found(m)
        BY DEF FoundBy
      <4> HIDE DEF K, More, All
      <4>2. All \cup UNION {More(c) : c \in All \ {TooDeep}}
              = UNION {Found(m) \cup UNION {More(c) : c \in Found(m) \ {TooDeep}} : m \in K}
        <5>1. ASSUME NEW y \in UNION {More(c) : c \in All \ {TooDeep}}
              PROVE  y \in UNION {Found(m) \cup UNION {More(c) : c \in Found(m) \ {TooDeep}} : m \in K}
          <6>1. PICK c \in All \ {TooDeep} : y \in More(c)
            OBVIOUS
          <6>2. PICK m \in K : c \in Found(m)
            BY <4>1
          <6> QED
            BY <6>1, <6>2
        <5>2. ASSUME NEW y \in UNION {Found(m) \cup UNION {More(c) : c \in Found(m) \ {TooDeep}} : m \in K}
              PROVE  y \in All \cup UNION {More(c) : c \in All \ {TooDeep}}
          BY <4>1
        <5>3. All \subseteq UNION {Found(m) \cup UNION {More(c) : c \in Found(m) \ {TooDeep}} : m \in K}
          BY <4>1
        <5> QED
          BY <5>1, <5>2, <5>3
      <4> QED
        BY <4>2 DEF K, More, All
    <3> QED
      BY <2>1, <3>1, <3>2, <3>3, <3>4
  <2> QED
    BY <2>2, <2>3
<1>4. Eq(f)
  <2>1. f = [x \in S |-> f[x]]
    BY <1>2 DEF Solves
  <2> HIDE DEF Rule, S
  <2> QED
    BY <1>3, <2>1
<1> DEFINE h == CHOOSE g : Eq(g)
<1>5. Executed = [n \in Nodes |-> h[<<n, 0>>]]
  BY Zenon DEF Executed
<1>6. Eq(h)
  <2> HIDE DEF Eq
  <2> QED
    BY <1>4
<1>7. \A n \in Nodes, d \in Depths : h[<<n, d>>] = Rule(h, n, d)
  <2> HIDE DEF h, Rule
  <2> QED
    BY <1>6
<1>8. IsCollectFindXargs(h)
  <2> HIDE DEF h
  <2> QED
    BY <1>5, <1>7 DEF IsCollectFindXargs
<1> QED
  BY <1>8
\* What find and xargs run is nodes on "wraps" and "execs" edges further down,
LEMMA ExecutesNodes ==
  ASSUME TreeInv, NEW x, IsCollectFindXargs(x)
  PROVE  \A d \in Depths : \A n \in Nodes : x[<<n, d>>] \subseteq Within({"wraps", "execs"}, n)
<1> DEFINE P(d) == \A n \in Nodes : x[<<n, d>>] \subseteq Within({"wraps", "execs"}, n)
           G == {d \in Depths : P(d)}
<1>1. ASSUME NEW d \in Depths, d = MaxUnwrapDepth \/ (d + 1 \in Depths /\ P(d + 1)) PROVE P(d)
  <2> SUFFICES ASSUME NEW n \in Nodes, NEW y \in x[<<n, d>>], y # TooDeep
               PROVE  y \in Within({"wraps", "execs"}, n)
    BY DEF Within
  <2>1. x[<<n, d>>] = UNION {IF d = MaxUnwrapDepth THEN {TooDeep}
                             ELSE Found(m) \cup
                                    UNION {x[<<c, d + 1>>] : c \in Found(m) \ {TooDeep}} :
                               m \in Kids(n, "execs")}
    BY DEF IsCollectFindXargs
  <2>2. d # MaxUnwrapDepth /\ \E m \in Kids(n, "execs") :
          y \in Found(m) \/ \E c \in Found(m) \ {TooDeep} : y \in x[<<c, d + 1>>]
    BY <2>1
  <2>3. PICK m \in Kids(n, "execs") :
          y \in Found(m) \/ \E c \in Found(m) \ {TooDeep} : y \in x[<<c, d + 1>>]
    BY <2>2
  <2>4. m \in Nodes /\ tree[m].edge = "execs" /\ n < m
    BY KidsFollow
  <2>5. \A k \in Nodes : k \in Nat
    BY DEF TreeInv, Nodes
  <2>6. \A c \in Found(m) \ {TooDeep} :
          c \in Nodes /\ n < c /\ tree[c].edge \in {"wraps", "execs"}
    BY <2>4, <2>5, FoundIsAll DEF Within
  <2>7. CASE y \in Found(m)
    BY <2>6, <2>7 DEF Within
  <2>8. CASE y \notin Found(m)
    <3>1. PICK c \in Found(m) \ {TooDeep} : y \in x[<<c, d + 1>>]
      BY <2>3, <2>8
    <3>2. y \in Within({"wraps", "execs"}, c)
      BY <1>1, <2>2, <2>6, <3>1
    <3> QED
      BY <2>5, <2>6, <3>1, <3>2 DEF Within
  <2> QED
    BY <2>7, <2>8
<1>2. MaxUnwrapDepth \in G
  BY <1>1, PolicyAssumption DEF Depths
<1>3. \A d \in Depths : d + 1 \in Depths /\ d + 1 \in G => d \in G
  BY <1>1
<1> HIDE DEF G
<1>4. Depths \subseteq G
  BY <1>2, <1>3, DepthInduction
<1> USE DEF G
<1> QED
  BY <1>4

\* and unless they go too deep, with what is wrapped or run by them.
LEMMA ExecutesAll ==
  ASSUME TreeInv, NEW x, IsCollectFindXargs(x)
  PROVE  \A d \in Depths : \A n \in Nodes : TooDeep \notin x[<<n, d>>] =>
           /\ Kids(n, "execs") \subseteq x[<<n, d>>]
           /\ \A m \in x[<<n, d>>] : Kids(m, "wraps") \cup Kids(m, "execs") \subseteq x[<<n, d>>]
<1> DEFINE P(d) == \A n \in Nodes : TooDeep \notin x[<<n, d>>] =>
                     /\ Kids(n, "execs") \subseteq x[<<n, d>>]
                     /\ \A m \in x[<<n, d>>] :
                          Kids(m, "wraps") \cup Kids(m, "execs") \subseteq x[<<n, d>>]
           G == {d \in Depths : P(d)}
<1>1. ASSUME NEW d \in Depths, d = MaxUnwrapDepth \/ (d + 1 \in Depths /\ P(d + 1)) PROVE P(d)
  <2> SUFFICES ASSUME NEW n \in Nodes, TooDeep \notin x[<<n, d>>]
               PROVE  /\ Kids(n, "execs") \subseteq x[<<n, d>>]
                      /\ \A m \in x[<<n, d>>] :
                           Kids(m, "wraps") \cup Kids(m, "execs") \subseteq x[<<n, d>>]
    OBVIOUS
  <2>1. x[<<n, d>>] = UNION {IF d = MaxUnwrapDepth THEN {TooDeep}
                             ELSE Found(m) \cup
                                    UNION {x[<<c, d + 1>>] : c \in Found(m) \ {TooDeep}} :
                               m \in Kids(n, "execs")}
    BY DEF IsCollectFindXargs
  <2>2. CASE d = MaxUnwrapDepth
    BY <2>1, <2>2
  <2>3. CASE d # MaxUnwrapDepth
    <3>1. \A y : y \in x[<<n, d>>] <=>
            \E m \in Kids(n, "execs") :
              y \in Found(m) \/ \E c \in Found(m) \ {TooDeep} : y \in x[<<c, d + 1>>]
      BY <2>1, <2>3
    <3>2. ASSUME NEW m \in Kids(n, "execs")
          PROVE  /\ m \in Nodes /\ TooDeep \notin Found(m) /\ Found(m) \subseteq Nodes
                 /\ \A c \in Found(m) : TooDeep \notin x[<<c, d + 1>>]
                                        /\ x[<<c, d + 1>>] \subseteq x[<<n, d>>]
                 /\ Found(m) \subseteq x[<<n, d>>] /\ m \in x[<<n, d>>]
      <4>1. m \in Nodes
        BY KidsFollow
      <4> QED
        BY <3>1, <4>1, FoundIsAll DEF Within
    <3>3. P(d + 1)
      BY <1>1, <2>3
    <3> HIDE DEF P
    <3>4. ASSUME NEW y \in x[<<n, d>>], NEW z \in Kids(y, "wraps") \cup Kids(y, "execs")
          PROVE  z \in x[<<n, d>>]
      <4>1. PICK m \in Kids(n, "execs") :
              y \in Found(m) \/ \E c \in Found(m) \ {TooDeep} : y \in x[<<c, d + 1>>]
        BY <3>1
      <4>2. CASE y \in Found(m) /\ z \in Kids(y, "wraps")
        <5>1. z \in Found(m)
          BY <3>2, <4>2, FoundIsAll
        <5> QED
          BY <3>2, <5>1
      <4>3. CASE y \in Found(m) /\ z \in Kids(y, "execs")
        <5>1. y \in Nodes /\ TooDeep \notin x[<<y, d + 1>>] /\ x[<<y, d + 1>>] \subseteq x[<<n, d>>]
          BY <3>2, <4>3
        <5>2. z \in x[<<y, d + 1>>]
          BY <3>3, <4>3, <5>1 DEF P
        <5> QED
          BY <5>1, <5>2
      <4>4. CASE \E c \in Found(m) \ {TooDeep} : y \in x[<<c, d + 1>>]
        <5>1. PICK c \in Found(m) : y \in x[<<c, d + 1>>]
          BY <4>4
        <5>2. c \in Nodes /\ TooDeep \notin x[<<c, d + 1>>] /\ x[<<c, d + 1>>] \subseteq x[<<n, d>>]
          BY <3>2, <5>1
        <5>3. z \in x[<<c, d + 1>>]
          BY <3>3, <5>1, <5>2 DEF P
        <5> QED
          BY <5>2, <5>3
      <4> QED
        BY <4>1, <4>2, <4>3, <4>4
    <3> QED
      BY <3>2, <3>4
  <2> QED
    BY <2>2, <2>3
<1>2. MaxUnwrapDepth \in G
  BY <1>1, PolicyAssumption DEF Depths
<1>3. \A d \in Depths : d + 1 \in Depths /\ d + 1 \in G => d \in G
  BY <1>1
<1> HIDE DEF G
<1>4. Depths \subseteq G
  BY <1>2, <1>3, DepthInduction
<1> USE DEF G
<1> QED
  BY <1>4

\* The same of what a statement has find or xargs run.
LEMMA ExecutedIsAll ==
  ASSUME TreeInv, NEW n \in Nodes
  PROVE  /\ Executed[n] \subseteq Within({"wraps", "execs"}, n)
         /\ TooDeep \notin Executed[n] =>
              /\ Kids(n, "execs") \subseteq Executed[n]
              /\ \A m \in Executed[n] :
                   Kids(m, "wraps") \cup Kids(m, "execs") \subseteq Executed[n]
<1>1. PICK x : IsCollectFindXargs(x)
  BY CollectFindXargsExists
<1>2. 0 \in Depths /\ Executed[n] = x[<<n, 0>>]
  BY <1>1, PolicyAssumption DEF IsCollectFindXargs, Depths
<1>3. x[<<n, 0>>] \subseteq Within({"wraps", "execs"}, n)
  BY <1>1, <1>2, ExecutesNodes
<1>4. TooDeep \notin x[<<n, 0>>] =>
        /\ Kids(n, "execs") \subseteq x[<<n, 0>>]
        /\ \A m \in x[<<n, 0>>] : Kids(m, "wraps") \cup Kids(m, "execs") \subseteq x[<<n, 0>>]
  BY <1>1, <1>2, ExecutesAll
<1> QED
  BY <1>2, <1>3, <1>4

\* What a command runs without a shell, found whole unless it goes too deep.
LEMMA InnerIsAll ==
  ASSUME TreeInv, NEW n \in Nodes
  PROVE  /\ Inner(n) \subseteq Within({"wraps", "execs"}, n)
         /\ TooDeep \notin Inner(n) =>
              \A m \in {n} \cup Inner(n) : Kids(m, "wraps") \cup Kids(m, "execs") \subseteq Inner(n)
<1>1. \A m \in Unwrapped[n] \ {TooDeep} : m \in Nodes /\ n < m
  BY UnwrappedIsAll DEF Within
<1>2. Nodes \subseteq Nat
  BY DEF TreeInv, Nodes
<1>3. Inner(n) \subseteq Within({"wraps", "execs"}, n)
  <2> SUFFICES ASSUME NEW y \in Inner(n), y # TooDeep
               PROVE  y \in Within({"wraps", "execs"}, n)
    BY DEF Within
  <2>1. CASE y \in Unwrapped[n]
    BY <2>1, UnwrappedIsAll DEF Within
  <2>2. CASE y \notin Unwrapped[n]
    <3>1. PICK m \in {n} \cup (Unwrapped[n] \ {TooDeep}) : y \in Executed[m]
      BY <2>2 DEF Inner
    <3>2. m \in Nodes /\ (m = n \/ n < m) /\ y \in Within({"wraps", "execs"}, m)
      BY <1>1, <3>1, ExecutedIsAll
    <3> QED
      BY <1>2, <3>2 DEF Within
  <2> QED
    BY <2>1, <2>2
<1>4. ASSUME TooDeep \notin Inner(n), NEW y \in {n} \cup Inner(n),
             NEW z \in Kids(y, "wraps") \cup Kids(y, "execs")
      PROVE  z \in Inner(n)
  <2>1. /\ TooDeep \notin Unwrapped[n] /\ Unwrapped[n] \subseteq Inner(n)
        /\ \A m \in {n} \cup Unwrapped[n] :
             m \in Nodes /\ TooDeep \notin Executed[m] /\ Executed[m] \subseteq Inner(n)
    BY <1>1, <1>4 DEF Inner
  <2>2. CASE y \in {n} \cup Unwrapped[n]
    <3>1. CASE z \in Kids(y, "wraps")
      BY <2>1, <2>2, <3>1, UnwrappedIsAll
    <3>2. CASE z \in Kids(y, "execs")
      BY <2>1, <2>2, <3>2, ExecutedIsAll
    <3> QED
      BY <1>4, <3>1, <3>2
  <2>3. CASE y \notin {n} \cup Unwrapped[n]
    <3>1. PICK m \in {n} \cup Unwrapped[n] : y \in Executed[m]
      BY <1>4, <2>3 DEF Inner
    <3>2. z \in Executed[m]
      BY <1>4, <2>1, <3>1, ExecutedIsAll
    <3> QED
      BY <2>1, <3>1, <3>2
  <2> QED
    BY <2>2, <2>3
<1> QED
  BY <1>3, <1>4
-----------------------------------------------------------------------------
(* What shells run.                                                        *)

\* What g gathers below statement n, shells being counted from depth inside on.
Gathered(g, n, inside) ==
  CASE Kind(n) = "command" ->
         Inner(n) \cup (UNION {g[<<"collect", m, 0>>] : m \in Kids(n, "subst")})
                  \cup (UNION {g[<<"shell", m, inside>>] : m \in Bodies(n)})
    [] Kind(n) \in {"pipeline", "list"} -> UNION {g[<<"collect", m, 0>>] : m \in Kids(n, "part")}
    [] Kind(n) \in {"opaque", "empty"} -> {}

\* g[<<"collect", n, d>>] is what collect_inner_commands finds for statement n, and
\* g[<<"shell", n, d>>] what collect_shell_c_recursive does at depth d.
IsCollectInner(g) ==
  /\ ExtractInnerCommands = g[<<"collect", Root, 0>>]
  /\ \A n \in Nodes, d \in Depths :
       /\ g[<<"collect", n, d>>] = Gathered(g, n, 0)
       /\ g[<<"shell", n, d>>] = IF d = MaxUnwrapDepth THEN {TooDeep}
                                 ELSE {n} \cup Gathered(g, n, d + 1)

\* Such a function exists, by LeastSolution over the calls of the two functions.
LEMMA CollectInnerExists == TreeInv => \E g : IsCollectInner(g)
<1> SUFFICES ASSUME TreeInv PROVE \E g : IsCollectInner(g)
  OBVIOUS
<1> DEFINE S == {"collect", "shell"} \X Nodes \X Depths
           Inside(x) == IF x[1] = "shell" THEN x[3] + 1 ELSE 0
           Ends(x) == x[1] = "shell" /\ x[3] = MaxUnwrapDepth
           Rule(f, x) == IF Ends(x) THEN {TooDeep}
                         ELSE (IF x[1] = "shell" THEN {x[2]} ELSE {}) \cup Gathered(f, x[2], Inside(x))
           Eq(f) == f = [x \in S |-> Rule(f, x)]
           Own(x) == (IF x[1] = "shell" THEN {x[2]} ELSE {}) \cup
                     (IF Kind(x[2]) = "command" THEN Inner(x[2]) ELSE {})
           Below(x) == IF Kind(x[2]) = "command"
                       THEN {<<"collect", m, 0>> : m \in Kids(x[2], "subst")} \cup
                            {<<"shell", m, Inside(x)>> : m \in Bodies(x[2])}
                       ELSE IF Joined(x[2])
                            THEN {<<"collect", m, 0>> : m \in Kids(x[2], "part")} ELSE {}
           base == [x \in S |-> IF Ends(x) THEN {TooDeep} ELSE Own(x)]
           kids == [x \in S |-> IF Ends(x) THEN {} ELSE Below(x)]
<1>0. /\ 0 \in Depths /\ \A d \in Depths : d # MaxUnwrapDepth => d + 1 \in Depths
      /\ \A n : Bodies(n) \subseteq Nodes
  BY PolicyAssumption, KidsAreNodes DEF Depths, Bodies
<1>1. \A x \in S : kids[x] \subseteq S
  <2> SUFFICES ASSUME NEW x \in S, ~Ends(x) PROVE Below(x) \subseteq S
    OBVIOUS
  <2>1. Inside(x) \in Depths
    BY <1>0
  <2> HIDE DEF Inside
  <2> QED
    BY <1>0, <2>1, KidsAreNodes
<1>2. PICK f : Solves(f, S, base, kids)
  <2> HIDE DEF base, kids, S
  <2> QED
    BY <1>1, LeastSolution
<1>3. ASSUME NEW x \in S PROVE f[x] = Rule(f, x)
  <2>1. f[x] = base[x] \cup UNION {f[y] : y \in kids[x]}
    BY <1>2 DEF Solves
  <2>2. CASE Ends(x)
    BY <2>1, <2>2
  <2>3. CASE ~Ends(x)
    <3>1. f[x] = Own(x) \cup UNION {f[y] : y \in Below(x)}
      BY <2>1, <2>3
    <3>2. Kind(x[2]) \in Kinds
      BY KindIsKind
    <3> HIDE DEF base, kids, S, Inside, Ends
    <3>3. CASE Kind(x[2]) = "command"
      <4>1. UNION {f[y] : y \in Below(x)}
              = (UNION {f[<<"collect", m, 0>>] : m \in Kids(x[2], "subst")}) \cup
                (UNION {f[<<"shell", m, Inside(x)>>] : m \in Bodies(x[2])})
        BY <3>3
      <4>2. Gathered(f, x[2], Inside(x))
              = Inner(x[2]) \cup (UNION {f[<<"collect", m, 0>>] : m \in Kids(x[2], "subst")}) \cup
                (UNION {f[<<"shell", m, Inside(x)>>] : m \in Bodies(x[2])})
        BY <3>3 DEF Gathered
      <4> HIDE DEF Below
      <4> QED
        BY <2>3, <3>1, <3>3, <4>1, <4>2
    <3>4. CASE Joined(x[2])
      <4>1. UNION {f[y] : y \in Below(x)} = UNION {f[<<"collect", m, 0>>] : m \in Kids(x[2], "part")}
        BY <3>4 DEF Joined
      <4>2. Gathered(f, x[2], Inside(x)) = UNION {f[<<"collect", m, 0>>] : m \in Kids(x[2], "part")}
        BY <3>4 DEF Gathered, Joined
      <4> HIDE DEF Below
      <4> QED
        BY <2>3, <3>1, <3>4, <4>1, <4>2 DEF Joined
    <3>5. CASE Kind(x[2]) \in {"opaque", "empty"}
      <4>1. UNION {f[y] : y \in Below(x)} = {} /\ Gathered(f, x[2], Inside(x)) = {}
        BY <3>5 DEF Gathered, Joined
      <4> HIDE DEF Below
      <4> QED
        BY <2>3, <3>1, <3>5, <4>1
    <3> QED
      BY <3>2, <3>3, <3>4, <3>5 DEF Kinds, Joined
  <2> QED
    BY <2>2, <2>3
<1>4. Eq(f)
  <2>1. f = [x \in S |-> f[x]]
    BY <1>2 DEF Solves
  <2> HIDE DEF Rule, S
  <2> QED
    BY <1>3, <2>1
<1> DEFINE h == CHOOSE g : Eq(g)
<1>5. ExtractInnerCommands = h[<<"collect", Root, 0>>]
  BY Zenon DEF ExtractInnerCommands, Gathered
<1>6. Eq(h)
  <2> HIDE DEF Eq
  <2> QED
    BY <1>4
<1>7. \A x \in S : h[x] = Rule(h, x)
  <2> HIDE DEF h, Rule
  <2> QED
    BY <1>6
<1> HIDE DEF h
<1>8. ASSUME NEW n \in Nodes, NEW d \in Depths
      PROVE  /\ h[<<"collect", n, d>>] = Gathered(h, n, 0)
             /\ h[<<"shell", n, d>>] = IF d = MaxUnwrapDepth THEN {TooDeep}
                                       ELSE {n} \cup Gathered(h, n, d + 1)
  <2>1. <<"collect", n, d>> \in S /\ <<"shell", n, d>> \in S
    OBVIOUS
  <2>2. h[<<"collect", n, d>>] = Gathered(h, n, 0)
    BY <1>7, <2>1
  <2>3. h[<<"shell", n, d>>] = IF d = MaxUnwrapDepth THEN {TooDeep}
                               ELSE {n} \cup Gathered(h, n, d + 1)
    BY <1>7, <2>1
  <2> QED
    BY <2>2, <2>3
<1>9. IsCollectInner(h)
  BY <1>5, <1>8 DEF IsCollectInner
<1> QED
  BY <1>9
-----------------------------------------------------------------------------
(* Coverage.                                                               *)

\* What evaluate looks at, TooDeep aside.
Seen == FlattenTopOnly \cup ExtraLeaves(ExtractInnerCommands) \cup CollectSubstitutionLeaves

\* Has everything below statement n been extracted?
Descended(g, n) == \E inside \in Depths : Gathered(g, n, inside) \subseteq ExtractInnerCommands

\* A statement is taken up as a leaf, or is run by a command that is.
TakenUp(f, g, n) ==
  \/ Descended(g, n) /\ (f[n] \subseteq FlattenTopOnly \/ Flatten[n] \subseteq Seen)
  \/ \E v \in Nodes : Kind(v) = "command" /\ Descended(g, v) /\ n \in Inner(v)

\* What flatten returns for a kid is in what it returns for the parent.
LEMMA FlattenGrows ==
  ASSUME TreeInv, NEW n \in Nodes, NEW e \in {"part", "subst"}, NEW m \in Kids(n, e)
  PROVE  Flatten[m] \subseteq Flatten[n]
<1>1. CASE Kind(n) = "command"
  <2>1. e = "subst"
    BY <1>1, KidsFollow
  <2>2. Flatten[n] = {n} \cup UNION {Flatten[k] : k \in Kids(n, "subst")}
    BY <1>1, FlattenUnfolds
  <2> QED
    BY <2>1, <2>2
<1>2. CASE Kind(n) \in {"pipeline", "list"}
  <2>1. e = "part"
    BY <1>2, KidsFollow
  <2>2. Flatten[n] = UNION {Flatten[k] : k \in Kids(n, "part")}
    BY <1>2, FlattenUnfolds
  <2> QED
    BY <2>1, <2>2
<1> QED
  BY <1>1, <1>2, KidsFollow

\* A statement that is no pipeline and no list is one of its own leaves.
LEMMA FlattenOwn ==
  ASSUME TreeInv, NEW n \in Nodes, ~Joined(n)
  PROVE  n \in Flatten[n]
<1>1. Kind(n) \in {"command", "opaque", "empty"}
  BY KindIsKind DEF Kinds, Joined
<1>2. CASE Kind(n) = "command"
  BY <1>2, FlattenUnfolds
<1>3. CASE Kind(n) \in {"opaque", "empty"}
  BY <1>3, FlattenUnfolds
<1> QED
  BY <1>1, <1>2, <1>3

\* and all of them are nodes.
LEMMA FlattenWithin ==
  ASSUME TreeInv, NEW n \in Nodes
  PROVE  Flatten[n] \subseteq Nodes
<1> DEFINE G == {k \in Nodes : Flatten[k] \subseteq Nodes}
<1>1. ASSUME NEW k \in Nodes, \A m \in Nodes : k < m => m \in G
      PROVE  Flatten[k] \subseteq Nodes
  <2>1. ASSUME NEW e \in {"part", "subst"}, NEW m \in Kids(k, e) PROVE Flatten[m] \subseteq Nodes
    <3>1. m \in Nodes /\ k < m
      BY KidsFollow
    <3> QED
      BY <1>1, <3>1
  <2>2. Kind(k) \in Kinds
    BY KindIsKind
  <2>3. CASE Kind(k) = "command"
    <3>1. Flatten[k] = {k} \cup UNION {Flatten[m] : m \in Kids(k, "subst")}
      BY <2>3, FlattenUnfolds
    <3>2. \A m \in Kids(k, "subst") : Flatten[m] \subseteq Nodes
      BY <2>1
    <3> QED
      BY <3>1, <3>2
  <2>4. CASE Kind(k) \in {"pipeline", "list"}
    <3>1. Flatten[k] = UNION {Flatten[m] : m \in Kids(k, "part")}
      BY <2>4, FlattenUnfolds
    <3>2. \A m \in Kids(k, "part") : Flatten[m] \subseteq Nodes
      BY <2>1
    <3> QED
      BY <3>1, <3>2
  <2>5. CASE Kind(k) \in {"opaque", "empty"}
    BY <2>5, FlattenUnfolds
  <2> QED
    BY <2>2, <2>3, <2>4, <2>5 DEF Kinds
<1>2. \A k \in Nodes : (\A m \in Nodes : k < m => m \in G) => k \in G
  BY <1>1
<1> HIDE DEF G
<1>3. Nodes \subseteq G
  BY <1>2, NodeInductionUp
<1> USE DEF G
<1> QED
  BY <1>3

\* If nothing is too deep, every statement is taken up.
LEMMA AllTakenUp ==
  ASSUME TreeInv, TooDeep \notin ExtractInnerCommands,
         NEW f, IsTopOnly(f), NEW g, IsCollectInner(g)
  PROVE  \A n \in Nodes : TakenUp(f, g, n)
<1> DEFINE G == {n \in Nodes : TakenUp(f, g, n)}
           E == ExtractInnerCommands
<1>0. 0 \in Depths /\ TooDeep \notin Nodes
  BY PolicyAssumption DEF Depths, TooDeep, TreeInv, Nodes
<1>1. ASSUME NEW n \in Nodes, \A m \in Nodes : m < n => m \in G
      PROVE  TakenUp(f, g, n)
  <2>0. NodeInv(n)
    BY DEF TreeInv
  <2>1. g[<<"collect", n, 0>>] = Gathered(g, n, 0)
    BY <1>0 DEF IsCollectInner
  <2>2. CASE n = Root
    <3>1. Gathered(g, n, 0) \subseteq E /\ f[n] \subseteq FlattenTopOnly
      BY <2>1, <2>2 DEF IsCollectInner, IsTopOnly
    <3> QED
      BY <1>0, <3>1 DEF TakenUp, Descended
  <2>3. CASE n # Root
    <3> DEFINE p == tree[n].parent
               e == tree[n].edge
    <3>1. p \in Nodes /\ e \in Edges /\ n \in Kids(p, e) /\ TakenUp(f, g, p)
      BY <1>1, <2>0, <2>3 DEF NodeInv, Kids
    <3>2. Kind(p) \in IF e = "part" THEN {"pipeline", "list"} ELSE {"command"}
      BY <2>0, <2>3 DEF NodeInv
    <3>3. ASSUME NEW v \in Nodes, p \in Inner(v)
          PROVE  Kind(p) = "command" /\ Kids(p, "subst") = {}
      <4>1. tree[p].edge \in {"wraps", "execs"}
        BY <1>0, <3>1, <3>3, InnerIsAll DEF Within
      <4>2. NodeInv(p)
        BY <3>1 DEF TreeInv
      <4> QED
        BY <4>1, <4>2 DEF NodeInv
    <3> HIDE DEF p, e
    <3>4. CASE e = "part"
      <4>1. Descended(g, p) /\ (f[p] \subseteq FlattenTopOnly \/ Flatten[p] \subseteq Seen)
        BY <3>1, <3>2, <3>3, <3>4 DEF TakenUp
      <4>2. PICK inside \in Depths : Gathered(g, p, inside) \subseteq E
        BY <4>1 DEF Descended
      <4>3. Gathered(g, p, inside) = UNION {g[<<"collect", m, 0>>] : m \in Kids(p, "part")}
        BY <3>2, <3>4 DEF Gathered
      <4>4. Descended(g, n)
        BY <1>0, <2>1, <3>1, <3>4, <4>2, <4>3 DEF Descended
      <4>5. f[p] = UNION {f[m] : m \in Kids(p, "part")}
        BY <3>1, <3>2, <3>4 DEF IsTopOnly
      <4>6. f[n] \subseteq f[p] /\ Flatten[n] \subseteq Flatten[p]
        BY <3>1, <3>4, <4>5, FlattenGrows
      <4> QED
        BY <4>1, <4>4, <4>6 DEF TakenUp
    <3>5. CASE e = "subst"
      <4>1. Descended(g, p) /\ (f[p] \subseteq FlattenTopOnly \/ Flatten[p] \subseteq Seen)
        BY <3>1, <3>3, <3>5 DEF TakenUp
      <4>2. PICK inside \in Depths : Gathered(g, p, inside) \subseteq E
        BY <4>1 DEF Descended
      <4>3. UNION {g[<<"collect", m, 0>>] : m \in Kids(p, "subst")} \subseteq Gathered(g, p, inside)
        BY <3>2, <3>5 DEF Gathered
      <4>4. Descended(g, n)
        BY <1>0, <2>1, <3>1, <3>5, <4>2, <4>3 DEF Descended
      <4>5. CASE f[p] \subseteq FlattenTopOnly
        <5>1. f[p] = {p}
          BY <3>1, <3>2, <3>5 DEF IsTopOnly
        <5>2. Flatten[n] \subseteq CollectSubstitutionLeaves
          BY <3>1, <3>5, <4>5, <5>1 DEF CollectSubstitutionLeaves
        <5> QED
          BY <4>4, <5>2 DEF TakenUp, Seen
      <4>6. CASE Flatten[p] \subseteq Seen
        <5>1. Flatten[n] \subseteq Flatten[p]
          BY <3>1, <3>5, FlattenGrows
        <5> QED
          BY <4>4, <4>6, <5>1 DEF TakenUp
      <4> QED
        BY <4>1, <4>5, <4>6
    <3>6. CASE e \in {"wraps", "execs", "shell"}
      <4>1. PICK v \in Nodes : Kind(v) = "command" /\ Descended(g, v) /\ p \in {v} \cup Inner(v)
        BY <3>1, <3>2, <3>6 DEF TakenUp
      <4>2. PICK inside \in Depths : Gathered(g, v, inside) \subseteq E
        BY <4>1 DEF Descended
      <4>3. /\ Inner(v) \subseteq E
            /\ UNION {g[<<"shell", m, inside>>] : m \in Bodies(v)} \subseteq E
        BY <4>1, <4>2 DEF Gathered
      <4>4. CASE e # "shell"
        <5>1. n \in Inner(v)
          BY <3>1, <3>6, <4>1, <4>3, <4>4, InnerIsAll
        <5> QED
          BY <4>1, <5>1 DEF TakenUp
      <4>5. CASE e = "shell"
        <5>1. n \in Bodies(v)
          BY <1>0, <3>1, <4>1, <4>5 DEF Bodies
        <5>2. g[<<"shell", n, inside>>] \subseteq E
          BY <4>3, <5>1
        <5>3. g[<<"shell", n, inside>>] = IF inside = MaxUnwrapDepth THEN {TooDeep}
                                          ELSE {n} \cup Gathered(g, n, inside + 1)
          BY DEF IsCollectInner
        <5>4. inside # MaxUnwrapDepth /\ n \in E /\ Gathered(g, n, inside + 1) \subseteq E
          BY <5>2, <5>3
        <5>5. inside + 1 \in Depths
          BY <5>4, PolicyAssumption DEF Depths
        <5>6. Flatten[n] \subseteq Seen
          BY <1>0, <5>4 DEF Seen, ExtraLeaves
        <5> QED
          BY <5>4, <5>5, <5>6 DEF TakenUp, Descended
      <4> QED
        BY <4>4, <4>5
    <3> QED
      BY <3>1, <3>4, <3>5, <3>6 DEF Edges
  <2> QED
    BY <2>2, <2>3
<1>2. Nodes \subseteq G
  <2>1. \A n \in Nodes : (\A m \in Nodes : m < n => m \in G) => n \in G
    BY <1>1
  <2> HIDE DEF G
  <2> QED
    BY <2>1, NodeInduction
<1> QED
  BY <1>2

\* If nothing is too deep, evaluate looks at every statement that is no pipeline
\* and no list, whatever it hangs on.
LEMMA Coverage ==
  ASSUME TreeInv, TooDeep \notin ExtractInnerCommands, NEW n \in Nodes, ~Joined(n)
  PROVE  n \in Seen
<1>1. PICK f : IsTopOnly(f)
  BY TopOnlyExists
<1>2. PICK g : IsCollectInner(g)
  BY CollectInnerExists
<1>3. TakenUp(f, g, n)
  BY <1>1, <1>2, AllTakenUp
<1>4. CASE f[n] \subseteq FlattenTopOnly
  BY <1>1, <1>4 DEF IsTopOnly, Joined, Seen
<1>5. CASE Flatten[n] \subseteq Seen
  BY <1>5, FlattenOwn
<1>6. CASE \E v \in Nodes : Kind(v) = "command" /\ Descended(g, v) /\ n \in Inner(v)
  <2>1. PICK v \in Nodes : Kind(v) = "command" /\ Descended(g, v) /\ n \in Inner(v)
    BY <1>6
  <2>2. n \in ExtractInnerCommands /\ n # TooDeep
    BY <2>1 DEF Descended, Gathered, TooDeep, TreeInv, Nodes
  <2> QED
    BY <2>2, FlattenOwn DEF Seen, ExtraLeaves
<1> QED
  BY <1>3, <1>4, <1>5, <1>6 DEF TakenUp
-----------------------------------------------------------------------------
(* Denials.                                                                *)

\* What goes into the worst decision.
LeafDecisions ==
  {EvaluateLeaf(n, FALSE) : n \in FlattenTopOnly} \cup
  {EvaluateLeaf(n, TRUE) : n \in ExtraLeaves(ExtractInnerCommands) \cup CollectSubstitutionLeaves}

\* The leaves' decisions bind the evaluation, whatever the default.
LEMMA LeavesBind ==
  /\ "deny" \in LeafDecisions => Evaluation = "deny"
  /\ Evaluation = "allow" /\ DefaultDecision = "ask" =>
       /\ LeafDecisions \cap {"deny", "ask"} = {}
       /\ AllCovered(FlattenTopOnly, ExtractInnerCommands, ExtraLeaves(ExtractInnerCommands),
                     CollectSubstitutionLeaves)
  /\ "ask" \in LeafDecisions => Evaluation \in {"ask", "deny"}
BY DEF Evaluation, Worst, GateIsDue, LeafDecisions

\* What is seen has been asked for.
LEMMA SeenIsEvaluated ==
  ASSUME NEW n \in Seen
  PROVE  EvaluateLeaf(n, FALSE) \in LeafDecisions \/ EvaluateLeaf(n, TRUE) \in LeafDecisions
BY DEF Seen, LeafDecisions

\* What is too deep is asked about.
LEMMA TooDeepIsAsked ==
  BeyondDepth => "ask" \in LeafDecisions
<1> SUFFICES ASSUME BeyondDepth PROVE "ask" \in LeafDecisions
  OBVIOUS
<1>1. TooDeep \in ExtraLeaves(ExtractInnerCommands)
  BY DEF BeyondDepth, ExtraLeaves
<1>2. EvaluateLeaf(TooDeep, TRUE) = "ask"
  BY DEF EvaluateLeaf
<1> QED
  BY <1>1, <1>2 DEF LeafDecisions

\* Holds of every tree.
LEMMA TreeDenialIsFinal == TreeInv => DenialIsFinal
<1> SUFFICES ASSUME TreeInv, NEW n \in Nodes, IsCommand(n), Has(n, "deny_rule")
             PROVE  Evaluation = "deny" \/ (BeyondDepth /\ Evaluation # "allow")
  BY DEF DenialIsFinal
<1>1. CASE BeyondDepth
  BY <1>1, TooDeepIsAsked, LeavesBind
<1>2. CASE ~BeyondDepth
  <2>1. n \in Seen
    BY <1>2, Coverage DEF BeyondDepth, IsCommand, Joined
  <2>2. n # TooDeep /\ Kind(n) # "opaque"
    BY DEF IsCommand, TooDeep, TreeInv, Nodes
  <2>3. EvaluateLeaf(n, FALSE) = "deny" /\ EvaluateLeaf(n, TRUE) = "deny"
    BY <2>2 DEF EvaluateLeaf
  <2> QED
    BY <2>1, <2>3, SeenIsEvaluated, LeavesBind
<1> QED
  BY <1>1, <1>2

\* However deep a denied command is hidden in pipelines, substitutions, wrappers,
\* find, xargs and shells, the line is denied, or at least not allowed if it is
\* deeper than MAX_UNWRAP_DEPTH: for trees of every size and every such limit.
THEOREM DenialAlwaysFinal == Spec => []DenialIsFinal
BY TreeCorrect, TreeDenialIsFinal, PTL
-----------------------------------------------------------------------------
(* Permissions.                                                            *)

\* What is_allowlisted makes of a statement ...
AllowlistedRule(n) ==
  IF Kind(n) = "command" /\ Has(n, "bare")
  THEN \A s \in Kids(n, "subst") : \A m \in Flatten[s] : IsAllowlisted[m]
  ELSE Kind(n) = "empty" \/ (Kind(n) = "command" /\ Has(n, "listed"))

\* ... is what it computes.
LEMMA AllowlistedUnfolds ==
  ASSUME TreeInv, NEW n \in Nodes
  PROVE  IsAllowlisted[n] = AllowlistedRule(n)
<1> DEFINE Bare(x) == Kind(x) = "command" /\ Has(x, "bare")
           Listed(x) == Kind(x) = "empty" \/ (Kind(x) = "command" /\ Has(x, "listed"))
           Rule(f, x) == IF Kind(x) = "command" /\ Has(x, "bare")
                         THEN \A s \in Kids(x, "subst") : \A m \in Flatten[s] : f[m]
                         ELSE Kind(x) = "empty" \/ (Kind(x) = "command" /\ Has(x, "listed"))
           base == [x \in Nodes |-> IF Bare(x) \/ Listed(x) THEN {} ELSE {x}]
           kids == [x \in Nodes |-> IF Bare(x) THEN UNION {Flatten[s] : s \in Kids(x, "subst")}
                                    ELSE {}]
<1>1. \A x \in Nodes : kids[x] \subseteq Nodes
  BY KidsAreNodes, FlattenWithin
<1>2. PICK F : Solves(F, Nodes, base, kids)
  <2> HIDE DEF base, kids
  <2> QED
    BY <1>1, LeastSolution
<1> DEFINE f == [x \in Nodes |-> F[x] = {}]
<1>3. ASSUME NEW x \in Nodes PROVE f[x] = Rule(f, x)
  <2>1. F[x] = base[x] \cup UNION {F[y] : y \in kids[x]}
    BY <1>2 DEF Solves
  <2>2. CASE Bare(x)
    <3>1. base[x] = {} /\ kids[x] = UNION {Flatten[s] : s \in Kids(x, "subst")}
      BY <2>2
    <3>2. f[x] <=> \A y \in kids[x] : F[y] = {}
      <4>1. f[x] <=> F[x] = {}
        OBVIOUS
      <4> HIDE DEF base, kids, Bare, f
      <4>2. F[x] = {} <=> \A y \in kids[x] : F[y] = {}
        BY <2>1, <3>1
      <4> QED
        BY <4>1, <4>2
    <3>3. \A y \in kids[x] : f[y] <=> F[y] = {}
      BY <1>1
    <3>4. f[x] <=> \A s \in Kids(x, "subst") : \A m \in Flatten[s] : f[m]
      <4> HIDE DEF f, kids, base, Bare
      <4> QED
        BY <3>1, <3>2, <3>3
    <3>5. f[x] \in BOOLEAN
      OBVIOUS
    <3> HIDE DEF f
    <3> QED
      BY <2>2, <3>4, <3>5
  <2>3. CASE ~Bare(x)
    <3>1. kids[x] = {} /\ base[x] = IF Listed(x) THEN {} ELSE {x}
      BY <2>3
    <3>2. f[x] <=> Listed(x)
      <4> HIDE DEF base, kids, Bare, Listed
      <4> QED
        BY <2>1, <3>1
    <3>3. f[x] \in BOOLEAN /\ Listed(x) \in BOOLEAN
      BY DEF Has
    <3> HIDE DEF f
    <3> QED
      BY <2>3, <3>2, <3>3
  <2> QED
    BY <2>2, <2>3
<1>4. f = [x \in Nodes |-> Rule(f, x)]
  <2>1. f = [x \in Nodes |-> f[x]]
    OBVIOUS
  <2> HIDE DEF Rule, f
  <2> QED
    BY <1>3, <2>1
<1>5. IsAllowlisted = [x \in Nodes |-> Rule(IsAllowlisted, x)]
  <2>1. IsAllowlisted = CHOOSE h : h = [x \in Nodes |-> Rule(h, x)]
    BY Zenon DEF IsAllowlisted
  <2> HIDE DEF Rule, f
  <2> QED
    BY <1>4, <2>1
<1> QED
  BY <1>5 DEF AllowlistedRule

\* A bare assignment aside, is_allowlisted is about the allowlist.
LEMMA AllowlistedIsListed ==
  ASSUME TreeInv, NEW n \in Nodes, Kind(n) = "command", IsAllowlisted[n]
  PROVE  Has(n, "listed") \/ Has(n, "bare")
BY AllowlistedUnfolds DEF AllowlistedRule

\* AsItStands is what its comment says.
LEMMA AsItStandsUnfolds ==
  ASSUME TreeInv, NEW n \in Nodes
  PROVE  AsItStands[n] <=> n = Root \/ (tree[n].edge = "part" /\ AsItStands[tree[n].parent])
<1> DEFINE Rule(f, x) == x = Root \/ (tree[x].edge = "part" /\ f[tree[x].parent])
           base == [x \in Nodes |-> IF x = Root THEN {x} ELSE {}]
           kids == [x \in Nodes |-> IF x # Root /\ tree[x].edge = "part" THEN {tree[x].parent} ELSE {}]
<1>1. \A x \in Nodes : kids[x] \subseteq Nodes
  BY DEF TreeInv, NodeInv
<1>2. PICK F : Solves(F, Nodes, base, kids)
  <2> HIDE DEF base, kids
  <2> QED
    BY <1>1, LeastSolution
<1> DEFINE f == [x \in Nodes |-> F[x] # {}]
<1>3. ASSUME NEW x \in Nodes PROVE f[x] = Rule(f, x)
  <2>1. F[x] = base[x] \cup UNION {F[y] : y \in kids[x]}
    BY <1>2 DEF Solves
  <2>2. CASE x = Root
    BY <2>1, <2>2
  <2>3. CASE x # Root /\ tree[x].edge = "part"
    <3>1. tree[x].parent \in Nodes
      BY <2>3 DEF TreeInv, NodeInv
    <3>2. F[x] = F[tree[x].parent]
      BY <2>1, <2>3
    <3> QED
      BY <2>3, <3>1, <3>2
  <2>4. CASE x # Root /\ tree[x].edge # "part"
    BY <2>1, <2>4
  <2> QED
    BY <2>2, <2>3, <2>4
<1>4. f = [x \in Nodes |-> Rule(f, x)]
  <2>1. f = [x \in Nodes |-> f[x]]
    OBVIOUS
  <2> HIDE DEF Rule, f
  <2> QED
    BY <1>3, <2>1
<1>5. AsItStands = [x \in Nodes |-> Rule(AsItStands, x)]
  <2>1. AsItStands = CHOOSE h : h = [x \in Nodes |-> Rule(h, x)]
    BY Zenon DEF AsItStands
  <2> HIDE DEF Rule, f
  <2> QED
    BY <1>4, <2>1
<1> QED
  BY <1>5

\* A kid stands as its parent does if it is a part of it, and else it does not.
LEMMA KidsStand ==
  ASSUME TreeInv, NEW n \in Nodes, NEW e, NEW m \in Kids(n, e)
  PROVE  AsItStands[m] <=> e = "part" /\ AsItStands[n]
BY KidsFollow, AsItStandsUnfolds

Standing == {n \in Nodes : AsItStands[n]}
Hidden == {n \in Nodes : ~AsItStands[n]}

\* The leaves of what is hidden are hidden.
LEMMA HiddenLeaves ==
  ASSUME TreeInv, NEW n \in Hidden
  PROVE  Flatten[n] \subseteq Hidden
<1> DEFINE G == {k \in Nodes : k \in Hidden => Flatten[k] \subseteq Hidden}
<1>1. ASSUME NEW k \in Nodes, \A m \in Nodes : k < m => m \in G, k \in Hidden
      PROVE  Flatten[k] \subseteq Hidden
  <2>1. ASSUME NEW e \in {"part", "subst"}, NEW m \in Kids(k, e) PROVE Flatten[m] \subseteq Hidden
    <3>1. m \in Nodes /\ k < m /\ ~AsItStands[m]
      BY <1>1, KidsFollow, KidsStand DEF Hidden
    <3> QED
      BY <1>1, <3>1 DEF Hidden
  <2>2. Kind(k) \in Kinds
    BY KindIsKind
  <2>3. CASE Kind(k) = "command"
    <3>1. Flatten[k] = {k} \cup UNION {Flatten[m] : m \in Kids(k, "subst")}
      BY <2>3, FlattenUnfolds
    <3>2. \A m \in Kids(k, "subst") : Flatten[m] \subseteq Hidden
      BY <2>1
    <3> QED
      BY <1>1, <3>1, <3>2
  <2>4. CASE Kind(k) \in {"pipeline", "list"}
    <3>1. Flatten[k] = UNION {Flatten[m] : m \in Kids(k, "part")}
      BY <2>4, FlattenUnfolds
    <3>2. \A m \in Kids(k, "part") : Flatten[m] \subseteq Hidden
      BY <2>1
    <3> QED
      BY <3>1, <3>2
  <2>5. CASE Kind(k) \in {"opaque", "empty"}
    BY <1>1, <2>5, FlattenUnfolds
  <2> QED
    BY <2>2, <2>3, <2>4, <2>5 DEF Kinds
<1>2. \A k \in Nodes : (\A m \in Nodes : k < m => m \in G) => k \in G
  BY <1>1
<1> HIDE DEF G
<1>3. Nodes \subseteq G
  BY <1>2, NodeInductionUp
<1> USE DEF G
<1> QED
  BY <1>3 DEF Hidden

\* What flatten_top_only returns stands.
LEMMA TopStands == TreeInv => FlattenTopOnly \subseteq Standing
<1> SUFFICES ASSUME TreeInv PROVE FlattenTopOnly \subseteq Standing
  OBVIOUS
<1>0. PICK f : IsTopOnly(f)
  BY TopOnlyExists
<1> DEFINE G == {k \in Nodes : k \in Standing => f[k] \subseteq Standing}
<1>1. ASSUME NEW k \in Nodes, \A m \in Nodes : k < m => m \in G, k \in Standing
      PROVE  f[k] \subseteq Standing
  <2>1. ASSUME NEW m \in Kids(k, "part") PROVE f[m] \subseteq Standing
    <3>1. m \in Nodes /\ k < m /\ AsItStands[m]
      BY <1>1, KidsFollow, KidsStand DEF Standing
    <3> QED
      BY <1>1, <3>1 DEF Standing
  <2>2. CASE Joined(k)
    <3>1. f[k] = UNION {f[m] : m \in Kids(k, "part")}
      BY <1>0, <2>2 DEF IsTopOnly, Joined
    <3> QED
      BY <2>1, <3>1
  <2>3. CASE ~Joined(k)
    BY <1>0, <1>1, <2>3 DEF IsTopOnly, Joined
  <2> QED
    BY <2>2, <2>3
<1>2. \A k \in Nodes : (\A m \in Nodes : k < m => m \in G) => k \in G
  BY <1>1
<1> HIDE DEF G
<1>3. Nodes \subseteq G
  BY <1>2, NodeInductionUp
<1>4. Root \in Standing
  BY AsItStandsUnfolds DEF Standing, TreeInv
<1> USE DEF G
<1> QED
  BY <1>0, <1>3, <1>4 DEF IsTopOnly, Standing

\* What is extracted is hidden.
LEMMA ExtrasAreHidden == TreeInv => ExtractInnerCommands \subseteq Hidden \cup {TooDeep}
<1> SUFFICES ASSUME TreeInv PROVE ExtractInnerCommands \subseteq Hidden \cup {TooDeep}
  OBVIOUS
<1>0. PICK g : IsCollectInner(g)
  BY CollectInnerExists
<1> DEFINE Out == Hidden \cup {TooDeep}
           G == {k \in Nodes : /\ g[<<"collect", k, 0>>] \subseteq Out
                               /\ tree[k].edge = "shell" =>
                                    \A d \in Depths : g[<<"shell", k, d>>] \subseteq Out}
<1>1. 0 \in Depths /\ (\A d \in Depths : d # MaxUnwrapDepth => d + 1 \in Depths) /\ Nodes \subseteq Nat
  BY PolicyAssumption DEF Depths, TreeInv, Nodes
<1>2. ASSUME NEW k \in Nodes, \A m \in Nodes : k < m => m \in G
      PROVE  k \in G
  <2>1. ASSUME NEW inside \in Depths PROVE Gathered(g, k, inside) \subseteq Out
    <3>1. ASSUME NEW e \in Edges, NEW m \in Kids(k, e) PROVE g[<<"collect", m, 0>>] \subseteq Out
      <4>1. m \in Nodes /\ k < m
        BY KidsFollow
      <4> QED
        BY <1>2, <4>1
    <3>2. Inner(k) \subseteq Out
      <4>1. ASSUME NEW m \in Nodes, tree[m].edge \in {"wraps", "execs"} PROVE ~AsItStands[m]
        <5>1. NodeInv(m)
          BY DEF TreeInv
        <5>2. m # Root /\ tree[m].edge # "part"
          BY <4>1, <5>1 DEF NodeInv
        <5> QED
          BY <5>2, AsItStandsUnfolds
      <4> QED
        BY <4>1, InnerIsAll DEF Within, Hidden
    <3>3. ASSUME NEW m \in Bodies(k) PROVE g[<<"shell", m, inside>>] \subseteq Out
      <4>1. PICK v \in ({k} \cup Inner(k)) \ {TooDeep} : m \in Kids(v, "shell")
        BY DEF Bodies
      <4>2. v \in Nodes /\ (v = k \/ k < v)
        BY <4>1, InnerIsAll DEF Within
      <4>3. m \in Nodes /\ v < m /\ tree[m].edge = "shell"
        BY <4>1, <4>2, KidsFollow
      <4>4. k < m
        BY <1>1, <4>2, <4>3
      <4> QED
        BY <1>2, <4>3, <4>4
    <3>4. Kind(k) \in Kinds
      BY KindIsKind
    <3> HIDE DEF Out, G
    <3>5. CASE Kind(k) = "command"
      BY <3>1, <3>2, <3>3, <3>5 DEF Gathered, Edges
    <3>6. CASE Kind(k) \in {"pipeline", "list"}
      BY <3>1, <3>6 DEF Gathered, Edges
    <3>7. CASE Kind(k) \in {"opaque", "empty"}
      BY <3>7 DEF Gathered
    <3> QED
      BY <3>4, <3>5, <3>6, <3>7 DEF Kinds
  <2>2. g[<<"collect", k, 0>>] \subseteq Out
    <3>1. g[<<"collect", k, 0>>] = Gathered(g, k, 0)
      BY <1>0, <1>1 DEF IsCollectInner
    <3> QED
      BY <1>1, <2>1, <3>1
  <2>3. ASSUME tree[k].edge = "shell", NEW d \in Depths PROVE g[<<"shell", k, d>>] \subseteq Out
    <3>1. g[<<"shell", k, d>>] = IF d = MaxUnwrapDepth THEN {TooDeep} ELSE {k} \cup Gathered(g, k, d + 1)
      BY <1>0 DEF IsCollectInner
    <3>2. NodeInv(k)
      BY DEF TreeInv
    <3>3. k # Root
      BY <2>3, <3>2 DEF NodeInv
    <3>4. k \in Hidden
      BY <2>3, <3>3, AsItStandsUnfolds DEF Hidden
    <3>5. d # MaxUnwrapDepth => Gathered(g, k, d + 1) \subseteq Out
      BY <1>1, <2>1
    <3> QED
      BY <3>1, <3>4, <3>5
  <2> QED
    BY <2>2, <2>3
<1>3. \A k \in Nodes : (\A m \in Nodes : k < m => m \in G) => k \in G
  BY <1>2
<1> HIDE DEF G
<1>4. Nodes \subseteq G
  BY <1>3, NodeInductionUp
<1> USE DEF G
<1> QED
  BY <1>0, <1>4 DEF IsCollectInner, TreeInv

\* Nothing that is denied, asked about or described by an ask is allowed as a leaf.
LEMMA LeafMayRun ==
  ASSUME NEW n \in Nodes, n # TooDeep, Kind(n) = "command", NEW isExtra \in BOOLEAN,
         EvaluateLeaf(n, isExtra) \notin {"deny", "ask"}
  PROVE  /\ {"deny_rule", "ask_rule", "sensitive"} \cap tree[n].facts = {}
         /\ "descriptive" \in tree[n].facts => {"listed", "first_hand"} \cap tree[n].facts # {}
BY DEF EvaluateLeaf, Has

\* What the gate lets pass is vouched for: for a leaf of the line itself,
LEMMA LeafCovered ==
  ASSUME TreeInv, NEW extras, NEW n \in FlattenTopOnly, n \in Nodes, Kind(n) = "command",
         IsAllowlisted[n] \/ ShellCovered(n, extras) \/ OtherwiseCovered(n, FALSE)
  PROVE  \/ {"listed", "allow_rule", "bare"} \cap tree[n].facts # {}
         \/ Has(n, "first_hand") /\ AsItStands[n]
         \/ ~Has(n, "redirected") /\ \E m \in Kids(n, "shell") : Kind(m) # "opaque"
<1>1. CASE IsAllowlisted[n]
  BY <1>1, AllowlistedIsListed DEF Has
<1>2. CASE ShellCovered(n, extras)
  BY <1>2 DEF ShellCovered, Body
<1>3. CASE OtherwiseCovered(n, FALSE)
  BY <1>3, TopStands DEF OtherwiseCovered, Has, Standing
<1> QED
  BY <1>1, <1>2, <1>3

\* and for a leaf of what is extracted.
LEMMA ExtraCovered ==
  ASSUME TreeInv, NEW extras, NEW n \in ExtraLeaves(ExtractInnerCommands), n \in Nodes,
         Kind(n) = "command",
         \/ IsAllowlisted[n] \/ NamedByEntry(n, FlattenTopOnly)
         \/ ShellCovered(n, extras) \/ OtherwiseCovered(n, TRUE)
  PROVE  \/ {"listed", "allow_rule", "bare"} \cap tree[n].facts # {}
         \/ /\ Has(n, "named") /\ ~AsItStands[n]
            /\ \E m \in Nodes : Has(m, "names") /\ AsItStands[m]
         \/ ~Has(n, "redirected") /\ \E m \in Kids(n, "shell") : Kind(m) # "opaque"
<1>1. CASE IsAllowlisted[n]
  BY <1>1, AllowlistedIsListed DEF Has
<1>2. CASE ShellCovered(n, extras)
  BY <1>2 DEF ShellCovered, Body
<1>3. CASE OtherwiseCovered(n, TRUE)
  BY <1>3 DEF OtherwiseCovered, Has
<1>4. CASE NamedByEntry(n, FlattenTopOnly)
  <2>1. PICK m \in FlattenTopOnly : IsCommand(m) /\ Has(m, "names")
    BY <1>4 DEF NamedByEntry
  <2>2. m \in Nodes /\ AsItStands[m]
    BY <2>1, TopStands DEF Standing
  <2>3. n # TooDeep
    BY DEF TooDeep, TreeInv, Nodes
  <2>4. PICK s \in ExtractInnerCommands : s # TooDeep /\ n \in Flatten[s]
    BY <2>3 DEF ExtraLeaves
  <2>5. s \in Hidden
    BY <2>4, ExtrasAreHidden
  <2>6. ~AsItStands[n]
    BY <2>4, <2>5, HiddenLeaves DEF Hidden
  <2> QED
    BY <1>4, <2>1, <2>2, <2>6 DEF NamedByEntry
<1> QED
  BY <1>1, <1>2, <1>3, <1>4

\* Holds of every tree.
LEMMA TreeAllowIsVouched == TreeInv => AllowIsVouched
<1> SUFFICES ASSUME TreeInv, DefaultDecision = "ask", Evaluation = "allow", NEW n \in Nodes
             PROVE  Kind(n) # "opaque" /\ (IsCommand(n) => Vouched(n))
  BY DEF AllowIsVouched
<1>1. /\ LeafDecisions \cap {"deny", "ask"} = {} /\ TooDeep \notin ExtractInnerCommands
      /\ AllCovered(FlattenTopOnly, ExtractInnerCommands, ExtraLeaves(ExtractInnerCommands),
                    CollectSubstitutionLeaves)
  BY LeavesBind, TooDeepIsAsked DEF BeyondDepth
<1>2. n # TooDeep
  BY DEF TooDeep, TreeInv, Nodes
<1>3. CASE Kind(n) = "opaque"
  <2>1. n \in Seen
    BY <1>1, <1>3, Coverage DEF Joined
  <2>2. EvaluateLeaf(n, FALSE) = "ask" /\ EvaluateLeaf(n, TRUE) = "ask"
    BY <1>2, <1>3 DEF EvaluateLeaf
  <2> QED
    BY <1>1, <2>1, <2>2, SeenIsEvaluated
<1>4. CASE Kind(n) = "command"
  <2>1. n \in Seen
    BY <1>1, <1>4, Coverage DEF Joined
  <2>2. PICK isExtra \in BOOLEAN : EvaluateLeaf(n, isExtra) \notin {"deny", "ask"}
    BY <1>1, <2>1, SeenIsEvaluated
  <2>3. /\ {"deny_rule", "ask_rule", "sensitive"} \cap tree[n].facts = {}
        /\ "descriptive" \in tree[n].facts => {"listed", "first_hand"} \cap tree[n].facts # {}
    BY <1>2, <1>4, <2>2, LeafMayRun
  <2>4. \/ {"listed", "allow_rule", "bare"} \cap tree[n].facts # {}
        \/ Has(n, "first_hand") /\ AsItStands[n]
        \/ /\ Has(n, "named") /\ ~AsItStands[n]
           /\ \E m \in Nodes : Has(m, "names") /\ AsItStands[m]
        \/ ~Has(n, "redirected") /\ \E m \in Kids(n, "shell") : Kind(m) # "opaque"
    <3>1. CASE n \in FlattenTopOnly
      BY <1>1, <1>4, <3>1, LeafCovered DEF AllCovered
    <3>2. CASE n \in ExtraLeaves(ExtractInnerCommands)
      BY <1>1, <1>4, <3>2, ExtraCovered DEF AllCovered
    <3>3. CASE n \in CollectSubstitutionLeaves
      BY <1>1, <1>4, <3>3, AllowlistedIsListed DEF AllCovered, OtherwiseCovered, Has
    <3> QED
      BY <2>1, <3>1, <3>2, <3>3 DEF Seen
  <2> QED
    BY <1>4, <2>3, <2>4 DEF Vouched
<1> QED
  BY <1>3, <1>4 DEF IsCommand

\* With the default to ask, a line is allowed only if every command in it, at
\* whatever depth, is vouched for by itself and nothing is opaque: for trees of
\* every size and every MAX_UNWRAP_DEPTH.
THEOREM AllowAlwaysVouched == Spec => []AllowIsVouched
BY TreeCorrect, TreeAllowIsVouched, PTL
-----------------------------------------------------------------------------
(* One more part.                                                          *)

\* CollectPipelines is what collect_pipelines computes.
LEMMA CollectPipelinesUnfolds ==
  ASSUME NEW n \in Nodes
  PROVE  CollectPipelines[n] =
           IF Kind(n) = "pipeline" THEN {n}
           ELSE UNION {CollectPipelines[m] : m \in Kids(n, "part") \cup Kids(n, "subst")}
<1> DEFINE Rule(f, x) == IF Kind(x) = "pipeline" THEN {x}
                         ELSE UNION {f[m] : m \in Kids(x, "part") \cup Kids(x, "subst")}
           base == [x \in Nodes |-> IF Kind(x) = "pipeline" THEN {x} ELSE {}]
           kids == [x \in Nodes |-> IF Kind(x) = "pipeline" THEN {}
                                    ELSE Kids(x, "part") \cup Kids(x, "subst")]
<1>1. \A x \in Nodes : kids[x] \subseteq Nodes
  BY KidsAreNodes
<1>2. PICK f : Solves(f, Nodes, base, kids)
  <2> HIDE DEF base, kids
  <2> QED
    BY <1>1, LeastSolution
<1>3. ASSUME NEW x \in Nodes PROVE f[x] = Rule(f, x)
  <2>1. f[x] = base[x] \cup UNION {f[y] : y \in kids[x]}
    BY <1>2 DEF Solves
  <2>2. CASE Kind(x) = "pipeline"
    BY <2>1, <2>2
  <2>3. CASE Kind(x) # "pipeline"
    BY <2>1, <2>3
  <2> QED
    BY <2>2, <2>3
<1>4. f = [x \in Nodes |-> Rule(f, x)]
  <2>1. f = [x \in Nodes |-> f[x]]
    BY <1>2 DEF Solves
  <2> HIDE DEF Rule
  <2> QED
    BY <1>3, <2>1
<1>5. CollectPipelines = [x \in Nodes |-> Rule(CollectPipelines, x)]
  <2>1. CollectPipelines = CHOOSE g : g = [x \in Nodes |-> Rule(g, x)]
    BY Zenon DEF CollectPipelines
  <2> HIDE DEF Rule
  <2> QED
    BY <1>4, <2>1
<1> QED
  BY <1>5

\* What each function that collects computes, of a tree ...
Equations ==
  TreeInv =>
    /\ \A n \in Nodes :
         /\ Kind(n) \in Kinds
         /\ Flatten[n] \subseteq Nodes
         /\ Flatten[n] = IF Kind(n) = "command"
                         THEN {n} \cup UNION {Flatten[m] : m \in Kids(n, "subst")}
                         ELSE IF Joined(n) THEN UNION {Flatten[m] : m \in Kids(n, "part")} ELSE {n}
         /\ CollectPipelines[n] =
              IF Kind(n) = "pipeline" THEN {n}
              ELSE UNION {CollectPipelines[m] : m \in Kids(n, "part") \cup Kids(n, "subst")}
         /\ IsAllowlisted[n] = AllowlistedRule(n)
    /\ \E f : IsTopOnly(f)
    /\ \E u : IsUnwrapRecursive(u)
    /\ \E x : IsCollectFindXargs(x)
    /\ \E g : IsCollectInner(g)

\* ... whichever it is,
LEMMA EquationsHold == Equations
<1> SUFFICES ASSUME TreeInv PROVE Equations
  BY DEF Equations
<1>1. ASSUME NEW n \in Nodes
      PROVE  /\ Kind(n) \in Kinds
             /\ Flatten[n] \subseteq Nodes
             /\ IsAllowlisted[n] = AllowlistedRule(n)
  BY KindIsKind, FlattenWithin, AllowlistedUnfolds
<1>2. ASSUME NEW n \in Nodes
      PROVE  Flatten[n] = IF Kind(n) = "command"
                          THEN {n} \cup UNION {Flatten[m] : m \in Kids(n, "subst")}
                          ELSE IF Joined(n) THEN UNION {Flatten[m] : m \in Kids(n, "part")} ELSE {n}
  <2>1. CASE Kind(n) = "command"
    BY <2>1, FlattenUnfolds
  <2>2. CASE Joined(n)
    BY <2>2, FlattenUnfolds DEF Joined
  <2>3. CASE Kind(n) \in {"opaque", "empty"}
    BY <2>3, FlattenUnfolds DEF Joined
  <2> QED
    BY <1>1, <2>1, <2>2, <2>3 DEF Kinds, Joined
<1> QED
  BY <1>1, <1>2, CollectPipelinesUnfolds, TopOnlyExists, UnwrapRecursiveExists, CollectFindXargsExists,
     CollectInnerExists DEF Equations

\* so also after a step.
LEMMA NextEquations == Equations'
BY EquationsHold, PTL

\* The leaves of a statement are not before it.
LEMMA FlattenBelow ==
  ASSUME TreeInv, NEW n \in Nodes
  PROVE  \A y \in Flatten[n] : y \in Nodes /\ (y = n \/ n < y)
<1> DEFINE G == {k \in Nodes : \A y \in Flatten[k] : y = k \/ k < y}
<1>1. ASSUME NEW k \in Nodes, \A m \in Nodes : k < m => m \in G, NEW y \in Flatten[k]
      PROVE  y = k \/ k < y
  <2>1. Flatten[k] = IF Kind(k) = "command"
                     THEN {k} \cup UNION {Flatten[m] : m \in Kids(k, "subst")}
                     ELSE IF Joined(k) THEN UNION {Flatten[m] : m \in Kids(k, "part")} ELSE {k}
    BY EquationsHold DEF Equations
  <2>2. CASE \E e \in {"part", "subst"} : \E m \in Kids(k, e) : y \in Flatten[m]
    <3>0. PICK e \in {"part", "subst"} : \E m \in Kids(k, e) : y \in Flatten[m]
      BY <2>2
    <3>1. PICK m \in Kids(k, e) : y \in Flatten[m]
      BY <3>0
    <3>2. m \in Nodes /\ k < m /\ (y = m \/ m < y)
      BY <1>1, <3>1, KidsFollow
    <3>3. y \in Nodes
      BY <3>1, <3>2, FlattenWithin
    <3> QED
      BY <3>2, <3>3 DEF TreeInv, Nodes
  <2>3. CASE y = k
    BY <2>3
  <2> QED
    BY <2>1, <2>2, <2>3
<1>2. \A k \in Nodes : (\A m \in Nodes : k < m => m \in G) => k \in G
  BY <1>1
<1> HIDE DEF G
<1>3. Nodes \subseteq G
  BY <1>2, NodeInductionUp
<1> USE DEF G
<1> QED
  BY <1>3, FlattenWithin

\* The parser writes one more part, last, of a pipeline or a list.
AddsPart(last) ==
  /\ TreeInv /\ TreeInv'
  /\ Nodes' = Nodes \cup {last} /\ last \notin Nodes
  /\ \A m \in Nodes : tree'[m] = tree[m]
  /\ tree'[last].edge = "part" /\ tree'[last].parent \in Nodes
  /\ "names" \notin tree'[last].facts

\* Nothing but a part is added, to one statement, and it is a leaf.
LEMMA PartIsAdded ==
  ASSUME NEW last, AddsPart(last)
  PROVE  /\ \A m \in Nodes : Kind(m)' = Kind(m) /\ (Joined(m)' <=> Joined(m))
         /\ \A m \in Nodes : \A fact : Has(m, fact)' <=> Has(m, fact)
         /\ \A m \in Nodes : \A e \in Edges \ {"part"} : Kids(m, e)' = Kids(m, e)
         /\ \A m \in Nodes : Kids(m, "part") \subseteq Kids(m, "part")'
         /\ \A m \in Nodes : Kids(m, "part")' \subseteq Kids(m, "part") \cup {last}
         /\ \A e : Kids(last, e)' = {}
         /\ last \in Nodes'
<1>1. ASSUME NEW m \in Nodes
      PROVE  /\ Kind(m)' = Kind(m) /\ (Joined(m)' <=> Joined(m))
             /\ \A fact : Has(m, fact)' <=> Has(m, fact)
  BY DEF AddsPart, Kind, Joined, Has
<1>2. ASSUME NEW m \in Nodes, NEW e
      PROVE  /\ Kids(m, e) \subseteq Kids(m, e)'
             /\ Kids(m, e)' \subseteq Kids(m, e) \cup {last}
             /\ e # "part" => Kids(m, e)' = Kids(m, e)
  BY DEF AddsPart, Kids
<1>3. ASSUME NEW e PROVE Kids(last, e)' = {}
  <2>1. last # 0 /\ \A m \in Nodes : tree[m].parent \in Nodes \cup {0}
    BY DEF AddsPart, TreeInv, NodeInv, Nodes
  <2>2. \A m \in Nodes' : tree'[m].parent # last
    BY <2>1 DEF AddsPart
  <2> QED
    BY <2>2 DEF Kids
<1> QED
  BY <1>1, <1>2, <1>3 DEF AddsPart

\* parser::flatten loses no leaf,
LEMMA FlattenKeeps ==
  ASSUME NEW last, AddsPart(last)
  PROVE  \A n \in Nodes : Flatten[n] \subseteq Flatten'[n]
<1> DEFINE G == {n \in Nodes : Flatten[n] \subseteq Flatten'[n]}
<1>1. ASSUME NEW n \in Nodes, \A m \in Nodes : n < m => m \in G
      PROVE  n \in G
  <2>1. n \in Nodes' /\ TreeInv /\ TreeInv' /\ Kind(n)' = Kind(n) /\ (Joined(n)' <=> Joined(n))
    BY PartIsAdded DEF AddsPart
  <2>2. Flatten[n] = IF Kind(n) = "command"
                     THEN {n} \cup UNION {Flatten[m] : m \in Kids(n, "subst")}
                     ELSE IF Joined(n) THEN UNION {Flatten[m] : m \in Kids(n, "part")} ELSE {n}
    BY <2>1, EquationsHold DEF Equations
  <2>3. Flatten'[n] = IF Kind(n) = "command"
                      THEN {n} \cup UNION {Flatten'[m] : m \in Kids(n, "subst")'}
                      ELSE IF Joined(n) THEN UNION {Flatten'[m] : m \in Kids(n, "part")'} ELSE {n}
    BY <2>1, NextEquations DEF Equations
  <2>4. ASSUME NEW e \in {"part", "subst"}, NEW m \in Kids(n, e)
        PROVE  Flatten[m] \subseteq Flatten'[m] /\ m \in Kids(n, e)'
    <3>1. m \in G
      BY <1>1, <2>1, KidsFollow
    <3> QED
      BY <3>1, PartIsAdded DEF Edges
  <2> HIDE DEF G
  <2>5. CASE Kind(n) = "command"
    BY <2>2, <2>3, <2>4, <2>5 DEF G
  <2>6. CASE Kind(n) # "command"
    BY <2>2, <2>3, <2>4, <2>6 DEF G
  <2> QED
    BY <2>5, <2>6
<1>2. \A n \in Nodes : (\A m \in Nodes : n < m => m \in G) => n \in G
  BY <1>1
<1> HIDE DEF G
<1>3. Nodes \subseteq G
  BY <1>2, NodeInductionUp DEF AddsPart
<1> USE DEF G
<1> QED
  BY <1>3

\* collect_pipelines loses no pipeline,
LEMMA PipelinesKeep ==
  ASSUME NEW last, AddsPart(last)
  PROVE  \A n \in Nodes : CollectPipelines[n] \subseteq CollectPipelines'[n]
<1> DEFINE G == {n \in Nodes : CollectPipelines[n] \subseteq CollectPipelines'[n]}
<1>1. ASSUME NEW n \in Nodes, \A m \in Nodes : n < m => m \in G
      PROVE  n \in G
  <2>1. n \in Nodes' /\ TreeInv /\ TreeInv' /\ Kind(n)' = Kind(n)
    BY PartIsAdded DEF AddsPart
  <2>2. CollectPipelines[n] =
          IF Kind(n) = "pipeline" THEN {n}
          ELSE UNION {CollectPipelines[m] : m \in Kids(n, "part") \cup Kids(n, "subst")}
    BY <2>1, EquationsHold DEF Equations
  <2>3. CollectPipelines'[n] =
          IF Kind(n) = "pipeline" THEN {n}
          ELSE UNION {CollectPipelines'[m] : m \in Kids(n, "part")' \cup Kids(n, "subst")'}
    BY <2>1, NextEquations DEF Equations
  <2>4. ASSUME NEW e \in {"part", "subst"}, NEW m \in Kids(n, e)
        PROVE  CollectPipelines[m] \subseteq CollectPipelines'[m] /\ m \in Kids(n, e)'
    <3>1. m \in G
      BY <1>1, <2>1, KidsFollow
    <3> QED
      BY <3>1, PartIsAdded DEF Edges
  <2> HIDE DEF G
  <2> QED
    BY <2>2, <2>3, <2>4 DEF G
<1>2. \A n \in Nodes : (\A m \in Nodes : n < m => m \in G) => n \in G
  BY <1>1
<1> HIDE DEF G
<1>3. Nodes \subseteq G
  BY <1>2, NodeInductionUp DEF AddsPart
<1> USE DEF G
<1> QED
  BY <1>3

\* and flatten_top_only gains nothing but the new part.
LEMMA TopOnlyGains ==
  ASSUME NEW last, AddsPart(last)
  PROVE  /\ FlattenTopOnly \subseteq FlattenTopOnly'
         /\ FlattenTopOnly' \subseteq FlattenTopOnly \cup {last}
         /\ FlattenTopOnly \subseteq Nodes
<1>0. TreeInv /\ TreeInv' /\ Nodes \subseteq Nodes' /\ last \in Nodes'
  BY DEF AddsPart
<1>1. PICK f : IsTopOnly(f)
  BY TopOnlyExists
<1>2. PICK g : IsTopOnly(g)'
  BY <1>0, NextEquations DEF Equations
<1> DEFINE G == {n \in Nodes : f[n] \subseteq g[n] /\ g[n] \subseteq f[n] \cup {last} /\ f[n] \subseteq Nodes}
<1>3. ASSUME NEW n \in Nodes, \A m \in Nodes : n < m => m \in G
      PROVE  n \in G
  <2>1. n \in Nodes' /\ (Joined(n)' <=> Joined(n))
    BY <1>0, PartIsAdded
  <2>2. f[n] = IF Joined(n) THEN UNION {f[m] : m \in Kids(n, "part")} ELSE {n}
    BY <1>1 DEF IsTopOnly, Joined
  <2>3. g[n] = IF Joined(n) THEN UNION {g[m] : m \in Kids(n, "part")'} ELSE {n}
    BY <1>2, <2>1 DEF IsTopOnly, Joined
  <2>4. g[last] \subseteq {last}
    <3>1. g[last] = IF Joined(last)' THEN UNION {g[m] : m \in Kids(last, "part")'} ELSE {last}
      BY <1>0, <1>2 DEF IsTopOnly, Joined
    <3>2. Kids(last, "part")' = {}
      BY PartIsAdded
    <3> QED
      BY <3>1, <3>2
  <2>5. ASSUME NEW m \in Kids(n, "part") PROVE m \in G /\ m \in Kids(n, "part")'
    BY <1>0, <1>3, KidsFollow, PartIsAdded
  <2>6. Kids(n, "part")' \subseteq Kids(n, "part") \cup {last}
    BY PartIsAdded
  <2>7. f[n] \subseteq g[n] /\ f[n] \subseteq Nodes
    BY <2>2, <2>3, <2>5
  <2>8. g[n] \subseteq f[n] \cup {last}
    <3>1. CASE Joined(n)
      <4>1. \A m \in Kids(n, "part")' : g[m] \subseteq f[n] \cup {last}
        BY <2>2, <2>4, <2>5, <2>6, <3>1
      <4> QED
        BY <2>3, <3>1, <4>1
    <3>2. CASE ~Joined(n)
      BY <2>2, <2>3, <3>2
    <3> QED
      BY <3>1, <3>2
  <2> QED
    BY <2>7, <2>8
<1>4. \A n \in Nodes : (\A m \in Nodes : n < m => m \in G) => n \in G
  BY <1>3
<1> HIDE DEF G
<1>5. Nodes \subseteq G
  BY <1>0, <1>4, NodeInductionUp
<1>6. Root \in Nodes /\ FlattenTopOnly = f[Root] /\ FlattenTopOnly' = g[Root]
  BY <1>0, <1>1, <1>2 DEF TreeInv, IsTopOnly, Root
<1> USE DEF G
<1> QED
  BY <1>5, <1>6

\* What is unwrapped stays the same, and nothing is unwrapped from the new part.
LEMMA UnwrappedStays ==
  ASSUME NEW last, AddsPart(last)
  PROVE  (\A n \in Nodes : Unwrapped'[n] = Unwrapped[n]) /\ Unwrapped'[last] = {}
<1>0. TreeInv /\ TreeInv' /\ Nodes \subseteq Nodes' /\ last \in Nodes' /\ 0 \in Depths
  BY PolicyAssumption DEF AddsPart, Depths
<1>1. PICK u : IsUnwrapRecursive(u)
  BY UnwrapRecursiveExists
<1>2. PICK v : IsUnwrapRecursive(v)'
  BY <1>0, NextEquations DEF Equations
<1> DEFINE G == {n \in Nodes : \A d \in Depths : v[<<n, d>>] = u[<<n, d>>]}
<1>3. ASSUME NEW n \in Nodes, \A m \in Nodes : n < m => m \in G, NEW d \in Depths
      PROVE  v[<<n, d>>] = u[<<n, d>>]
  <2>1. Kids(n, "wraps")' = Kids(n, "wraps")
    BY PartIsAdded DEF Edges
  <2>2. \A m \in Kids(n, "wraps") : m \in G
    BY <1>0, <1>3, KidsFollow
  <2>3. d # MaxUnwrapDepth => d + 1 \in Depths
    BY PolicyAssumption DEF Depths
  <2>4. u[<<n, d>>] = UNION {IF d = MaxUnwrapDepth THEN {TooDeep} ELSE {m} \cup u[<<m, d + 1>>] :
                               m \in Kids(n, "wraps")}
    BY <1>1 DEF IsUnwrapRecursive
  <2>5. v[<<n, d>>] = UNION {IF d = MaxUnwrapDepth THEN {TooDeep} ELSE {m} \cup v[<<m, d + 1>>] :
                               m \in Kids(n, "wraps")}
    BY <1>0, <1>2, <2>1 DEF IsUnwrapRecursive
  <2>6. CASE d = MaxUnwrapDepth
    BY <2>4, <2>5, <2>6
  <2>7. CASE d # MaxUnwrapDepth
    <3>1. \A m \in Kids(n, "wraps") : v[<<m, d + 1>>] = u[<<m, d + 1>>]
      BY <2>2, <2>3, <2>7
    <3> HIDE DEF G
    <3> QED
      BY <2>4, <2>5, <2>7, <3>1
  <2> QED
    BY <2>6, <2>7
<1>4. \A n \in Nodes : (\A m \in Nodes : n < m => m \in G) => n \in G
  BY <1>3
<1> HIDE DEF G
<1>5. Nodes \subseteq G
  BY <1>0, <1>4, NodeInductionUp
<1> USE DEF G
<1>6. \A n \in Nodes : Unwrapped'[n] = Unwrapped[n]
  BY <1>0, <1>1, <1>2, <1>5 DEF IsUnwrapRecursive
<1>7. Unwrapped'[last] = {}
  <2>1. Kids(last, "wraps")' = {}
    BY PartIsAdded
  <2>2. Unwrapped'[last] = v[<<last, 0>>]
    BY <1>0, <1>2 DEF IsUnwrapRecursive
  <2>3. v[<<last, 0>>] = UNION {IF 0 = MaxUnwrapDepth THEN {TooDeep} ELSE {m} \cup v[<<m, 0 + 1>>] :
                                  m \in Kids(last, "wraps")'}
    BY <1>0, <1>2 DEF IsUnwrapRecursive
  <2> QED
    BY <2>1, <2>2, <2>3
<1> QED
  BY <1>6, <1>7

\* So does what find and xargs run.
LEMMA ExecutedStays ==
  ASSUME NEW last, AddsPart(last)
  PROVE  (\A n \in Nodes : Executed'[n] = Executed[n]) /\ Executed'[last] = {}
<1>0. TreeInv /\ TreeInv' /\ Nodes \subseteq Nodes' /\ last \in Nodes' /\ 0 \in Depths
  BY PolicyAssumption DEF AddsPart, Depths
<1>1. PICK x : IsCollectFindXargs(x)
  BY <1>0, CollectFindXargsExists
<1>2. PICK y : IsCollectFindXargs(y)'
  BY <1>0, NextEquations DEF Equations
<1> DEFINE G == {n \in Nodes : \A d \in Depths : y[<<n, d>>] = x[<<n, d>>]}
<1>3. ASSUME NEW n \in Nodes, \A m \in Nodes : n < m => m \in G, NEW d \in Depths
      PROVE  y[<<n, d>>] = x[<<n, d>>]
  <2>1. Kids(n, "execs")' = Kids(n, "execs")
    BY PartIsAdded DEF Edges
  <2>2. \A m \in Kids(n, "execs") : m \in Nodes /\ n < m
    BY <1>0, KidsFollow
  <2>3. \A m \in Kids(n, "execs") : Found(m)' = Found(m)
    BY <2>2, UnwrappedStays DEF Found
  <2>4. ASSUME NEW m \in Kids(n, "execs"), NEW c \in Found(m) \ {TooDeep} PROVE c \in G
    <3>1. c \in Nodes /\ (c = m \/ m < c)
      BY <1>0, <2>2, FoundIsAll DEF Within
    <3>2. n \in Nat /\ m \in Nat /\ c \in Nat
      BY <1>0, <2>2, <3>1 DEF TreeInv, Nodes
    <3>3. n < c
      BY <2>2, <3>1, <3>2
    <3> QED
      BY <1>3, <3>1, <3>3
  <2>5. d # MaxUnwrapDepth => d + 1 \in Depths
    BY PolicyAssumption DEF Depths
  <2>6. x[<<n, d>>] = UNION {IF d = MaxUnwrapDepth THEN {TooDeep}
                             ELSE Found(m) \cup
                                    UNION {x[<<c, d + 1>>] : c \in Found(m) \ {TooDeep}} :
                               m \in Kids(n, "execs")}
    BY <1>1 DEF IsCollectFindXargs
  <2>7. y[<<n, d>>] = UNION {IF d = MaxUnwrapDepth THEN {TooDeep}
                             ELSE Found(m)' \cup
                                    UNION {y[<<c, d + 1>>] : c \in Found(m)' \ {TooDeep}} :
                               m \in Kids(n, "execs")}
    BY <1>0, <1>2, <2>1 DEF IsCollectFindXargs
  <2>8. CASE d = MaxUnwrapDepth
    BY <2>6, <2>7, <2>8
  <2>9. CASE d # MaxUnwrapDepth
    <3>1. ASSUME NEW m \in Kids(n, "execs")
          PROVE  UNION {y[<<c, d + 1>>] : c \in Found(m) \ {TooDeep}}
                   = UNION {x[<<c, d + 1>>] : c \in Found(m) \ {TooDeep}}
      <4>1. \A c \in Found(m) \ {TooDeep} : y[<<c, d + 1>>] = x[<<c, d + 1>>]
        BY <2>4, <2>5, <2>9
      <4> HIDE DEF G
      <4> QED
        BY <4>1
    <3> HIDE DEF G
    <3>2. \A m \in Kids(n, "execs") :
            Found(m)' \cup UNION {y[<<c, d + 1>>] : c \in Found(m)' \ {TooDeep}}
              = Found(m) \cup UNION {x[<<c, d + 1>>] : c \in Found(m) \ {TooDeep}}
      BY <2>3, <3>1
    <3> QED
      BY <2>6, <2>7, <2>9, <3>2
  <2> QED
    BY <2>8, <2>9
<1>4. \A n \in Nodes : (\A m \in Nodes : n < m => m \in G) => n \in G
  BY <1>3
<1> HIDE DEF G
<1>5. Nodes \subseteq G
  BY <1>0, <1>4, NodeInductionUp
<1> USE DEF G
<1>6. \A n \in Nodes : Executed'[n] = Executed[n]
  BY <1>0, <1>1, <1>2, <1>5 DEF IsCollectFindXargs
<1>7. Executed'[last] = {}
  <2>1. Kids(last, "execs")' = {}
    BY PartIsAdded
  <2>2. Executed'[last] = y[<<last, 0>>]
    BY <1>0, <1>2 DEF IsCollectFindXargs
  <2>3. y[<<last, 0>>] =
          UNION {IF 0 = MaxUnwrapDepth THEN {TooDeep}
                 ELSE Found(m)' \cup UNION {y[<<c, 0 + 1>>] : c \in Found(m)' \ {TooDeep}} :
                   m \in Kids(last, "execs")'}
    BY <1>0, <1>2 DEF IsCollectFindXargs
  <2> QED
    BY <2>1, <2>2, <2>3
<1> QED
  BY <1>6, <1>7

\* and what a command runs with and without a shell.
LEMMA InnerStays ==
  ASSUME NEW last, AddsPart(last)
  PROVE  /\ \A n \in Nodes : Inner(n)' = Inner(n) /\ Bodies(n)' = Bodies(n)
         /\ Inner(last)' = {} /\ Bodies(last)' = {}
<1>0. TreeInv
  BY DEF AddsPart
<1>1. ASSUME NEW n \in Nodes PROVE Inner(n)' = Inner(n)
  <2>1. \A m \in {n} \cup (Unwrapped[n] \ {TooDeep}) : m \in Nodes
    BY <1>0, UnwrappedIsAll DEF Within
  <2>2. \A m \in {n} \cup (Unwrapped[n] \ {TooDeep}) : Executed'[m] = Executed[m]
    BY <2>1, ExecutedStays
  <2>3. Unwrapped'[n] = Unwrapped[n]
    BY UnwrappedStays
  <2>4. Inner(n)' = Unwrapped'[n] \cup UNION {Executed'[m] : m \in {n} \cup (Unwrapped'[n] \ {TooDeep})}
    BY DEF Inner, TooDeep
  <2> QED
    BY <2>2, <2>3, <2>4 DEF Inner
<1>2. ASSUME NEW n \in Nodes PROVE Bodies(n)' = Bodies(n)
  <2>1. \A m \in ({n} \cup Inner(n)) \ {TooDeep} : m \in Nodes
    BY <1>0, InnerIsAll DEF Within
  <2>2. \A m \in ({n} \cup Inner(n)) \ {TooDeep} : Kids(m, "shell")' = Kids(m, "shell")
    BY <2>1, PartIsAdded DEF Edges
  <2>3. Bodies(n)' = UNION {Kids(m, "shell")' : m \in ({n} \cup Inner(n)') \ {TooDeep}}
    BY DEF Bodies, TooDeep
  <2> QED
    BY <1>1, <2>2, <2>3 DEF Bodies
<1>3. Inner(last)' = {}
  <2>1. Inner(last)' = Unwrapped'[last] \cup
                         UNION {Executed'[m] : m \in {last} \cup (Unwrapped'[last] \ {TooDeep})}
    BY DEF Inner, TooDeep
  <2> QED
    BY <2>1, UnwrappedStays, ExecutedStays
<1>4. Bodies(last)' = {}
  <2>1. Bodies(last)' = UNION {Kids(m, "shell")' : m \in ({last} \cup Inner(last)') \ {TooDeep}}
    BY DEF Bodies, TooDeep
  <2>2. Kids(last, "shell")' = {}
    BY PartIsAdded
  <2> QED
    BY <1>3, <2>1, <2>2
<1> QED
  BY <1>1, <1>2, <1>3, <1>4

\* So the new part adds nothing to what is extracted.
LEMMA ExtrasStay ==
  ASSUME NEW last, AddsPart(last)
  PROVE  ExtractInnerCommands' = ExtractInnerCommands
<1>0. TreeInv /\ TreeInv' /\ Nodes \subseteq Nodes' /\ last \in Nodes' /\ 0 \in Depths
  BY PolicyAssumption DEF AddsPart, Depths
<1>1. PICK g : IsCollectInner(g)
  BY <1>0, CollectInnerExists
<1>2. PICK h : IsCollectInner(h)'
  BY <1>0, NextEquations DEF Equations
<1> DEFINE Same(n, mode, d) == h[<<mode, n, d>>] = g[<<mode, n, d>>]
           G == {n \in Nodes : \A d \in Depths : Same(n, "collect", d) /\ Same(n, "shell", d)}
<1>3. h[<<"collect", last, 0>>] = {}
  <2>1. h[<<"collect", last, 0>>] = Gathered(h, last, 0)'
    BY <1>0, <1>2 DEF IsCollectInner
  <2>2. Inner(last)' = {} /\ Bodies(last)' = {} /\ \A e : Kids(last, e)' = {}
    BY InnerStays, PartIsAdded
  <2>3. Kind(last)' \in Kinds
    BY <1>0, NextEquations DEF Equations
  <2>4. CASE Kind(last)' = "command"
    BY <2>1, <2>2, <2>4 DEF Gathered
  <2>5. CASE Kind(last)' \in {"pipeline", "list"}
    BY <2>1, <2>2, <2>5 DEF Gathered
  <2>6. CASE Kind(last)' \in {"opaque", "empty"}
    BY <2>1, <2>6 DEF Gathered
  <2> QED
    BY <2>3, <2>4, <2>5, <2>6 DEF Kinds
<1>4. ASSUME NEW n \in Nodes, \A m \in Nodes : n < m => m \in G
      PROVE  n \in G
  <2>1. n \in Nodes' /\ Kind(n)' = Kind(n) /\ Kind(n) \in Kinds
    BY <1>0, PartIsAdded, KindIsKind
  <2>2. ASSUME NEW e \in Edges, NEW m \in Kids(n, e)
        PROVE  h[<<"collect", m, 0>>] = g[<<"collect", m, 0>>]
    BY <1>0, <1>4, KidsFollow
  <2>3. ASSUME NEW m \in Bodies(n) PROVE m \in G
    <3>1. PICK v \in ({n} \cup Inner(n)) \ {TooDeep} : m \in Kids(v, "shell")
      BY DEF Bodies
    <3>2. v \in Nodes /\ (v = n \/ n < v)
      BY <1>0, <3>1, InnerIsAll DEF Within
    <3>3. m \in Nodes /\ v < m
      BY <1>0, <3>1, <3>2, KidsFollow
    <3>4. n < m
      BY <1>0, <3>2, <3>3 DEF TreeInv, Nodes
    <3> QED
      BY <1>4, <3>3, <3>4
  <2>4. ASSUME NEW inside \in Depths PROVE Gathered(h, n, inside)' = Gathered(g, n, inside)
    <3>1. Inner(n)' = Inner(n) /\ Bodies(n)' = Bodies(n) /\ Kids(n, "subst")' = Kids(n, "subst")
      BY InnerStays, PartIsAdded DEF Edges
    <3>2. CASE Kind(n) = "command"
      <4>1. Gathered(h, n, inside)' = Inner(n) \cup (UNION {h[<<"collect", m, 0>>] : m \in Kids(n, "subst")})
                                        \cup (UNION {h[<<"shell", m, inside>>] : m \in Bodies(n)})
        BY <2>1, <3>1, <3>2 DEF Gathered
      <4>2. Gathered(g, n, inside) = Inner(n) \cup (UNION {g[<<"collect", m, 0>>] : m \in Kids(n, "subst")})
                                        \cup (UNION {g[<<"shell", m, inside>>] : m \in Bodies(n)})
        BY <3>2 DEF Gathered
      <4>3. \A m \in Bodies(n) : h[<<"shell", m, inside>>] = g[<<"shell", m, inside>>]
        BY <2>3
      <4>4. \A m \in Kids(n, "subst") : h[<<"collect", m, 0>>] = g[<<"collect", m, 0>>]
        BY <2>2 DEF Edges
      <4> HIDE DEF G
      <4>5. UNION {h[<<"collect", m, 0>>] : m \in Kids(n, "subst")}
              = UNION {g[<<"collect", m, 0>>] : m \in Kids(n, "subst")}
        BY <4>4
      <4>6. UNION {h[<<"shell", m, inside>>] : m \in Bodies(n)}
              = UNION {g[<<"shell", m, inside>>] : m \in Bodies(n)}
        BY <4>3
      <4> QED
        BY <4>1, <4>2, <4>5, <4>6
    <3>3. CASE Kind(n) \in {"pipeline", "list"}
      <4>1. Gathered(h, n, inside)' = UNION {h[<<"collect", m, 0>>] : m \in Kids(n, "part")'}
        BY <2>1, <3>3 DEF Gathered
      <4>2. Gathered(g, n, inside) = UNION {g[<<"collect", m, 0>>] : m \in Kids(n, "part")}
        BY <3>3 DEF Gathered
      <4>3. \A m \in Kids(n, "part") : h[<<"collect", m, 0>>] = g[<<"collect", m, 0>>]
        BY <2>2 DEF Edges
      <4>4. Kids(n, "part") \subseteq Kids(n, "part")' /\ Kids(n, "part")' \subseteq Kids(n, "part") \cup {last}
        BY PartIsAdded
      <4> HIDE DEF G
      <4>5. UNION {h[<<"collect", m, 0>>] : m \in Kids(n, "part")'}
              \subseteq UNION {g[<<"collect", m, 0>>] : m \in Kids(n, "part")}
        BY <1>3, <4>3, <4>4
      <4>6. UNION {g[<<"collect", m, 0>>] : m \in Kids(n, "part")}
              \subseteq UNION {h[<<"collect", m, 0>>] : m \in Kids(n, "part")'}
        BY <4>3, <4>4
      <4> QED
        BY <4>1, <4>2, <4>5, <4>6
    <3>4. CASE Kind(n) \in {"opaque", "empty"}
      BY <2>1, <3>4 DEF Gathered
    <3> QED
      BY <2>1, <3>2, <3>3, <3>4 DEF Kinds
  <2>5. ASSUME NEW d \in Depths PROVE Same(n, "collect", d) /\ Same(n, "shell", d)
    <3>1. h[<<"collect", n, d>>] = Gathered(h, n, 0)' /\ g[<<"collect", n, d>>] = Gathered(g, n, 0)
      BY <1>1, <1>2, <2>1 DEF IsCollectInner
    <3>2. h[<<"shell", n, d>>] = IF d = MaxUnwrapDepth THEN {TooDeep} ELSE {n} \cup Gathered(h, n, d + 1)'
      BY <1>2, <2>1 DEF IsCollectInner, TooDeep
    <3>3. g[<<"shell", n, d>>] = IF d = MaxUnwrapDepth THEN {TooDeep} ELSE {n} \cup Gathered(g, n, d + 1)
      BY <1>1 DEF IsCollectInner
    <3>4. d # MaxUnwrapDepth => d + 1 \in Depths
      BY PolicyAssumption DEF Depths
    <3> HIDE DEF G
    <3> QED
      BY <1>0, <2>4, <3>1, <3>2, <3>3, <3>4
  <2> QED
    BY <2>5
<1>5. \A n \in Nodes : (\A m \in Nodes : n < m => m \in G) => n \in G
  BY <1>4
<1> HIDE DEF G
<1>6. Nodes \subseteq G
  BY <1>0, <1>5, NodeInductionUp
<1>7. Root \in Nodes /\ ExtractInnerCommands = g[<<"collect", Root, 0>>]
        /\ ExtractInnerCommands' = h[<<"collect", Root, 0>>]
  BY <1>0, <1>1, <1>2 DEF TreeInv, IsCollectInner, Root
<1> USE DEF G
<1> QED
  BY <1>0, <1>6, <1>7

\* What is allowlisted with the new part in the tree is so without it.
LEMMA AllowlistedBefore ==
  ASSUME NEW last, AddsPart(last)
  PROVE  \A n \in Nodes : IsAllowlisted'[n] => IsAllowlisted[n]
<1>0. TreeInv /\ TreeInv' /\ Nodes \subseteq Nodes'
  BY DEF AddsPart
<1> DEFINE G == {n \in Nodes : IsAllowlisted'[n] => IsAllowlisted[n]}
<1>1. ASSUME NEW n \in Nodes, \A m \in Nodes : n < m => m \in G, IsAllowlisted'[n]
      PROVE  IsAllowlisted[n]
  <2>1. AllowlistedRule(n)'
    BY <1>0, <1>1, NextEquations DEF Equations
  <2>2. Kind(n)' = Kind(n) /\ \A fact : Has(n, fact)' <=> Has(n, fact)
    BY PartIsAdded
  <2>3. AllowlistedRule(n)
    <3>1. CASE Kind(n) = "command" /\ Has(n, "bare")
      <4>1. \A s \in Kids(n, "subst")' : \A m \in Flatten'[s] : IsAllowlisted'[m]
        BY <2>1, <2>2, <3>1 DEF AllowlistedRule
      <4>2. ASSUME NEW s \in Kids(n, "subst"), NEW m \in Flatten[s] PROVE IsAllowlisted[m]
        <5>1. s \in Nodes /\ n < s /\ s \in Kids(n, "subst")'
          BY <1>0, KidsFollow, PartIsAdded DEF Edges
        <5>2. m \in Flatten'[s]
          BY <5>1, FlattenKeeps
        <5>3. m \in Nodes /\ (m = s \/ s < m)
          BY <1>0, <5>1, FlattenBelow
        <5>4. n < m
          BY <1>0, <5>1, <5>3 DEF TreeInv, Nodes
        <5> QED
          BY <1>1, <4>1, <5>1, <5>2, <5>3, <5>4
      <4> QED
        BY <3>1, <4>2 DEF AllowlistedRule
    <3>2. CASE ~(Kind(n) = "command" /\ Has(n, "bare"))
      BY <2>1, <2>2, <3>2 DEF AllowlistedRule
    <3> QED
      BY <3>1, <3>2
  <2> QED
    BY <1>0, <2>3, EquationsHold DEF Equations
<1>2. \A n \in Nodes : (\A m \in Nodes : n < m => m \in G) => n \in G
  BY <1>1
<1> HIDE DEF G
<1>3. Nodes \subseteq G
  BY <1>0, <1>2, NodeInductionUp
<1> USE DEF G
<1> QED
  BY <1>3

\* The pipelines are nodes.
LEMMA PipelinesWithin ==
  ASSUME TreeInv, NEW n \in Nodes
  PROVE  CollectPipelines[n] \subseteq Nodes
<1> DEFINE G == {k \in Nodes : CollectPipelines[k] \subseteq Nodes}
<1>1. ASSUME NEW k \in Nodes, \A m \in Nodes : k < m => m \in G
      PROVE  CollectPipelines[k] \subseteq Nodes
  <2>1. \A m \in Kids(k, "part") \cup Kids(k, "subst") : CollectPipelines[m] \subseteq Nodes
    BY <1>1, KidsFollow
  <2>2. CASE Kind(k) = "pipeline"
    BY <2>2, CollectPipelinesUnfolds
  <2>3. CASE Kind(k) # "pipeline"
    <3>1. CollectPipelines[k]
            = UNION {CollectPipelines[m] : m \in Kids(k, "part") \cup Kids(k, "subst")}
      BY <2>3, CollectPipelinesUnfolds
    <3> HIDE DEF G
    <3> QED
      BY <2>1, <3>1
  <2> QED
    BY <2>2, <2>3
<1>2. \A k \in Nodes : (\A m \in Nodes : k < m => m \in G) => k \in G
  BY <1>1
<1> HIDE DEF G
<1>3. Nodes \subseteq G
  BY <1>2, NodeInductionUp
<1> USE DEF G
<1> QED
  BY <1>3

\* The body of a shell wrapper stays.
LEMMA BodyStays ==
  ASSUME NEW last, AddsPart(last), NEW n \in Nodes
  PROVE  Body(n)' = Body(n)
<1>1. Kids(n, "shell")' = Kids(n, "shell") /\ Kids(n, "shell") \subseteq Nodes
  BY PartIsAdded, KidsAreNodes DEF Edges
<1>2. \A m \in Kids(n, "shell") : Kind(m)' = Kind(m)
  BY <1>1, PartIsAdded
<1>3. Body(n)' = {m \in Kids(n, "shell")' : Kind(m)' # "opaque"}
  BY DEF Body
<1> QED
  BY <1>1, <1>2, <1>3 DEF Body

\* The leaves that evaluate looks at besides those of the line itself: none is lost.
Gains(last) ==
  /\ ExtraLeaves(ExtractInnerCommands) \subseteq ExtraLeaves(ExtractInnerCommands)'
  /\ CollectSubstitutionLeaves \subseteq CollectSubstitutionLeaves'
  /\ ExtraLeaves(ExtractInnerCommands) \subseteq Nodes \cup {TooDeep}
  /\ CollectSubstitutionLeaves \subseteq Nodes

\* The pipelines it looks at.
Pipelines ==
  CollectPipelines[Root] \cup UNION {CollectPipelines[s] : s \in ExtractInnerCommands \ {TooDeep}}

\* No leaf and no pipeline is lost.
LEMMA LeavesGain ==
  ASSUME NEW last, AddsPart(last)
  PROVE  Gains(last) /\ Pipelines \subseteq Pipelines' /\ Pipelines \subseteq Nodes
<1>0. TreeInv /\ TreeInv' /\ Nodes \subseteq Nodes' /\ Root \in Nodes /\ Root' = Root /\ TooDeep' = TooDeep
  BY DEF AddsPart, TreeInv, Root, TooDeep
<1>1. ExtractInnerCommands' = ExtractInnerCommands
      /\ \A s \in ExtractInnerCommands \ {TooDeep} : s \in Nodes
  BY <1>0, ExtrasStay, ExtrasAreHidden DEF Hidden
<1>2. \A n \in Nodes : Flatten[n] \subseteq Flatten'[n] /\ Flatten[n] \subseteq Nodes
  BY <1>0, FlattenKeeps, FlattenWithin
<1>3. ExtraLeaves(ExtractInnerCommands) \subseteq ExtraLeaves(ExtractInnerCommands)'
      /\ ExtraLeaves(ExtractInnerCommands) \subseteq Nodes \cup {TooDeep}
  <2>1. ExtraLeaves(ExtractInnerCommands)'
          = UNION {IF s = TooDeep THEN {TooDeep} ELSE Flatten'[s] : s \in ExtractInnerCommands}
    BY <1>0, <1>1 DEF ExtraLeaves
  <2>2. ExtraLeaves(ExtractInnerCommands)
          = UNION {IF s = TooDeep THEN {TooDeep} ELSE Flatten[s] : s \in ExtractInnerCommands}
    BY DEF ExtraLeaves
  <2> QED
    BY <1>1, <1>2, <2>1, <2>2
<1>4. CollectSubstitutionLeaves \subseteq CollectSubstitutionLeaves' /\ CollectSubstitutionLeaves \subseteq Nodes
  <2>1. FlattenTopOnly \subseteq FlattenTopOnly' /\ FlattenTopOnly \subseteq Nodes
    BY TopOnlyGains
  <2>2. \A n \in FlattenTopOnly : Kids(n, "subst")' = Kids(n, "subst") /\ Kids(n, "subst") \subseteq Nodes
    BY <2>1, PartIsAdded, KidsAreNodes DEF Edges
  <2>3. UNION {Kids(n, "subst") : n \in FlattenTopOnly} \subseteq UNION {Kids(n, "subst")' : n \in FlattenTopOnly'}
        /\ UNION {Kids(n, "subst") : n \in FlattenTopOnly} \subseteq Nodes
    BY <2>1, <2>2
  <2>4. CollectSubstitutionLeaves'
          = UNION {Flatten'[m] : m \in UNION {Kids(n, "subst")' : n \in FlattenTopOnly'}}
    BY DEF CollectSubstitutionLeaves
  <2> QED
    BY <1>2, <2>3, <2>4 DEF CollectSubstitutionLeaves
<1>5. Pipelines \subseteq Pipelines'
  <2>1. Pipelines' = CollectPipelines'[Root] \cup
                       UNION {CollectPipelines'[s] : s \in ExtractInnerCommands \ {TooDeep}}
    BY <1>0, <1>1 DEF Pipelines
  <2>2. \A n \in Nodes : CollectPipelines[n] \subseteq CollectPipelines'[n]
    BY PipelinesKeep
  <2> QED
    BY <1>0, <1>1, <2>1, <2>2 DEF Pipelines
<1>6. Pipelines \subseteq Nodes
  BY <1>0, <1>1, PipelinesWithin DEF Pipelines
<1> QED
  BY <1>3, <1>4, <1>5, <1>6 DEF Gains

\* What is decided on a leaf stays.
LEMMA LeafStays ==
  ASSUME NEW last, AddsPart(last), NEW n \in Nodes \cup {TooDeep}, NEW isExtra \in BOOLEAN
  PROVE  EvaluateLeaf(n, isExtra)' = EvaluateLeaf(n, isExtra)
<1>1. CASE n = TooDeep
  BY <1>1 DEF EvaluateLeaf, TooDeep
<1>2. CASE n # TooDeep
  <2>1. n \in Nodes /\ TooDeep' = TooDeep
    BY <1>2 DEF TooDeep
  <2>2. Kind(n)' = Kind(n) /\ (\A fact : Has(n, fact)' <=> Has(n, fact))
    BY <2>1, PartIsAdded
  <2>3. Body(n)' = Body(n)
    BY <2>1, BodyStays
  <2> QED
    BY <1>2, <2>1, <2>2, <2>3 DEF EvaluateLeaf
<1> QED
  BY <1>1, <1>2

\* The gate, as evaluate asks for it.
AllIsCovered ==
  AllCovered(FlattenTopOnly, ExtractInnerCommands, ExtraLeaves(ExtractInnerCommands),
             CollectSubstitutionLeaves)

\* What the gate lets pass with the new part it lets pass without it.
LEMMA CoveredBefore ==
  ASSUME NEW last, AddsPart(last),
         TooDeep \notin ExtraLeaves(ExtractInnerCommands), AllIsCovered'
  PROVE  AllIsCovered
<1>0. /\ FlattenTopOnly \subseteq FlattenTopOnly' /\ FlattenTopOnly \subseteq Nodes
      /\ Gains(last) /\ ExtraLeaves(ExtractInnerCommands) \subseteq Nodes
  BY TopOnlyGains, LeavesGain DEF Gains
<1>1. ASSUME NEW n \in Nodes
      PROVE  /\ IsAllowlisted'[n] => IsAllowlisted[n]
             /\ ShellCovered(n, ExtractInnerCommands)' => ShellCovered(n, ExtractInnerCommands)
             /\ NamedByEntry(n, FlattenTopOnly)' => NamedByEntry(n, FlattenTopOnly)
             /\ \A isExtra \in BOOLEAN : OtherwiseCovered(n, isExtra)' => OtherwiseCovered(n, isExtra)
  <2>1. \A fact : Has(n, fact)' <=> Has(n, fact)
    BY PartIsAdded
  <2>2. Body(n)' = Body(n) /\ ExtractInnerCommands' = ExtractInnerCommands
    BY BodyStays, ExtrasStay
  <2>3. ASSUME NamedByEntry(n, FlattenTopOnly)' PROVE NamedByEntry(n, FlattenTopOnly)
    <3>1. PICK m \in FlattenTopOnly' : IsCommand(m)' /\ Has(m, "names")'
      BY <2>3 DEF NamedByEntry
    <3>2. m # last
      BY <3>1 DEF AddsPart, Has
    <3>3. m \in FlattenTopOnly /\ m \in Nodes
      BY <3>1, <3>2, TopOnlyGains
    <3>4. IsCommand(m) /\ Has(m, "names")
      BY <3>1, <3>3, PartIsAdded DEF IsCommand
    <3> QED
      BY <2>1, <2>3, <3>3, <3>4 DEF NamedByEntry
  <2> QED
    BY <2>1, <2>2, <2>3, AllowlistedBefore DEF ShellCovered, OtherwiseCovered
<1> QED
  <2>1. \A n \in FlattenTopOnly : IsAllowlisted[n] \/ ShellCovered(n, ExtractInnerCommands)
                                  \/ OtherwiseCovered(n, FALSE)
    <3>1. \A n \in FlattenTopOnly' : IsAllowlisted'[n] \/ ShellCovered(n, ExtractInnerCommands)'
                                     \/ OtherwiseCovered(n, FALSE)'
      BY DEF AllIsCovered, AllCovered
    <3> QED
      BY <1>0, <1>1, <3>1
  <2>2. \A n \in ExtraLeaves(ExtractInnerCommands) :
          \/ IsAllowlisted[n] \/ NamedByEntry(n, FlattenTopOnly)
          \/ ShellCovered(n, ExtractInnerCommands) \/ OtherwiseCovered(n, TRUE)
    <3>1. \A n \in ExtraLeaves(ExtractInnerCommands)' :
            \/ IsAllowlisted'[n] \/ NamedByEntry(n, FlattenTopOnly)'
            \/ ShellCovered(n, ExtractInnerCommands)' \/ OtherwiseCovered(n, TRUE)'
      BY DEF AllIsCovered, AllCovered
    <3> QED
      BY <1>0, <1>1, <3>1 DEF Gains
  <2>3. \A n \in CollectSubstitutionLeaves : IsAllowlisted[n] \/ OtherwiseCovered(n, TRUE)
    <3>1. \A n \in CollectSubstitutionLeaves' : IsAllowlisted'[n] \/ OtherwiseCovered(n, TRUE)'
      BY DEF AllIsCovered, AllCovered
    <3>2. CollectSubstitutionLeaves \subseteq CollectSubstitutionLeaves' /\ CollectSubstitutionLeaves \subseteq Nodes
      BY <1>0 DEF Gains
    <3> QED
      BY <1>1, <3>1, <3>2
  <2> QED
    BY <2>1, <2>2, <2>3 DEF AllIsCovered, AllCovered

\* What the worst decision is taken of.
AllDecisions == {"deny" : p \in {q \in Pipelines : Has(q, "deny_rule")}} \cup LeafDecisions

\* The decision in terms of these,
LEMMA EvaluationIs ==
  Evaluation = IF Worst(AllDecisions) = "allow" /\ ~AllIsCovered
               THEN DefaultDecision ELSE Worst(AllDecisions)
<1> DEFINE D == {"deny" : p \in {q \in Pipelines : Has(q, "deny_rule")}}
                \cup {EvaluateLeaf(n, FALSE) : n \in FlattenTopOnly}
                \cup {EvaluateLeaf(n, TRUE) : n \in ExtraLeaves(ExtractInnerCommands)
                                                    \cup CollectSubstitutionLeaves}
<1>1. Evaluation = IF GateIsDue(Worst(D)) /\ ~AllIsCovered THEN DefaultDecision ELSE Worst(D)
  BY Zenon DEF Evaluation, AllIsCovered, Pipelines
<1>2. AllDecisions = D
  BY DEF AllDecisions, LeafDecisions
<1> QED
  BY <1>1, <1>2 DEF GateIsDue

\* so also after a step.
LEMMA NextEvaluationIs ==
  (Evaluation = IF Worst(AllDecisions) = "allow" /\ ~AllIsCovered
                THEN DefaultDecision ELSE Worst(AllDecisions))'
BY EvaluationIs, PTL

\* No decision is lost.
LEMMA DecisionsStay ==
  ASSUME NEW last, AddsPart(last)
  PROVE  AllDecisions \subseteq AllDecisions'
<1>1. Gains(last) /\ Pipelines \subseteq Pipelines' /\ Pipelines \subseteq Nodes
  BY LeavesGain
<1>2. FlattenTopOnly \subseteq FlattenTopOnly' /\ FlattenTopOnly \subseteq Nodes
  BY TopOnlyGains
<1>3. ASSUME NEW p \in Pipelines, Has(p, "deny_rule") PROVE "deny" \in AllDecisions'
  <2>1. p \in Pipelines' /\ Has(p, "deny_rule")'
    BY <1>1, <1>3, PartIsAdded
  <2> QED
    BY <2>1 DEF AllDecisions
<1>4. ASSUME NEW n \in FlattenTopOnly PROVE EvaluateLeaf(n, FALSE) \in LeafDecisions'
  <2>1. n \in FlattenTopOnly' /\ EvaluateLeaf(n, FALSE)' = EvaluateLeaf(n, FALSE)
    BY <1>2, LeafStays
  <2> QED
    BY <2>1 DEF LeafDecisions
<1>5. ASSUME NEW n \in ExtraLeaves(ExtractInnerCommands) \cup CollectSubstitutionLeaves
      PROVE  EvaluateLeaf(n, TRUE) \in LeafDecisions'
  <2>1. n \in ExtraLeaves(ExtractInnerCommands)' \cup CollectSubstitutionLeaves' /\ n \in Nodes \cup {TooDeep}
    BY <1>1 DEF Gains
  <2>2. EvaluateLeaf(n, TRUE)' = EvaluateLeaf(n, TRUE)
    BY <2>1, LeafStays
  <2> QED
    BY <2>1, <2>2 DEF LeafDecisions
<1> QED
  BY <1>3, <1>4, <1>5 DEF AllDecisions, LeafDecisions

\* So one more part never makes the decision less restrictive.
LEMMA PartNeverHelps ==
  ASSUME NEW last, AddsPart(last), DefaultDecision # "deny"
  PROVE  Rank(Evaluation) <= Rank(Evaluation')
<1>1. AllDecisions \subseteq AllDecisions'
  BY DecisionsStay
<1>2. /\ Evaluation = IF Worst(AllDecisions) = "allow" /\ ~AllIsCovered
                      THEN DefaultDecision ELSE Worst(AllDecisions)
      /\ Evaluation' = IF Worst(AllDecisions') = "allow" /\ ~AllIsCovered'
                       THEN DefaultDecision ELSE Worst(AllDecisions')
  BY EvaluationIs, NextEvaluationIs
<1>3. Worst(AllDecisions') = "allow" /\ AllIsCovered' => AllIsCovered
  <2>1. ASSUME Worst(AllDecisions') = "allow" PROVE TooDeep \notin ExtraLeaves(ExtractInnerCommands)
    <3>1. "ask" \notin AllDecisions
      BY <1>1, <2>1 DEF Worst
    <3>2. EvaluateLeaf(TooDeep, TRUE) = "ask"
      BY DEF EvaluateLeaf
    <3> QED
      BY <3>1, <3>2 DEF AllDecisions, LeafDecisions
  <2> QED
    BY <2>1, CoveredBefore
<1>4. DefaultDecision \in {"allow", "ask"}
  BY PolicyAssumption DEF Decisions
<1> DEFINE w == Worst(AllDecisions)
           v == Worst(AllDecisions')
<1>5. /\ w \in Decisions /\ v \in Decisions
      /\ v = "allow" => w = "allow"
      /\ w = "deny" => v = "deny"
  BY <1>1 DEF Worst, Decisions
<1> HIDE DEF w, v
<1> QED
  BY <1>2, <1>3, <1>4, <1>5 DEF Rank, Decisions, w, v

\* The step of OneMoreNeverHelps.
LEMMA PartStep ==
  ASSUME TreeInv, TreeInv', [Next]_tree, DefaultDecision # "deny",
         tree' # tree,
         tree'[Len(tree')].edge = "part", "names" \notin tree'[Len(tree')].facts
  PROVE  Rank(Evaluation) <= Rank(Evaluation')
<1>1. PICK n \in Nodes, edge \in Edges, kind \in Kinds : \E facts \in FactsOf(kind) :
             Write(n, edge, kind, facts)
  BY DEF Next
<1>2. PICK facts \in FactsOf(kind) : Write(n, edge, kind, facts)
  BY <1>1
<1> DEFINE new == Node(kind, n, edge, facts)
           last == Len(tree')
<1>3. tree' = Append(tree, new) /\ tree \in Seq(Nodelike) /\ n \in Nodes /\ new.parent = n
  BY <1>2 DEF Write, TreeInv, Node
<1> HIDE DEF new
<1>4. PICK k \in Nat : k = Len(tree) + 1
  BY <1>3
<1>5. /\ last = k /\ Nodes' = Nodes \cup {k} /\ k \notin Nodes
      /\ \A m \in Nodes : tree'[m] = tree[m]
      /\ tree'[k] = new
  BY <1>3, <1>4 DEF Nodes
<1>6. AddsPart(k)
  BY <1>3, <1>5 DEF AddsPart
<1> QED
  BY <1>6, PartNeverHelps

\* With a default that is not to deny, one more command in a list or a pipeline
\* never makes the line's decision less restrictive: for trees of every size, any
\* facts and every MAX_UNWRAP_DEPTH.
THEOREM AdditionsNeverHelp ==
  DefaultDecision # "deny" => (Spec => OneMoreNeverHelps)
<1> SUFFICES ASSUME DefaultDecision # "deny" PROVE Spec => OneMoreNeverHelps
  OBVIOUS
<1> DEFINE A == LET new == tree'[Len(tree')]
                IN (Complete /\ Complete' /\ new.edge = "part" /\ "names" \notin new.facts)
                     => Rank(Evaluation) <= Rank(Evaluation')
<1>1. TreeInv /\ TreeInv' /\ [Next]_tree => [A]_tree
  BY PartStep
<1> HIDE DEF A
<1>2. OneMoreNeverHelps <=> [][A]_tree
  BY DEF OneMoreNeverHelps, A
<1> QED
  BY <1>1, <1>2, TreeCorrect, PTL DEF Spec
=============================================================================
