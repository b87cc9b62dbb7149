-------------------------- MODULE CommandWordsProofs ---------------------------
(***************************************************************************)
(* What holds of the scanners on every line of their words, however long   *)
(* it is.                                                                  *)
(*                                                                         *)
(* A scanner is a recursive function over the positions of a line. Of each *)
(* one it is shown first that its equation has a solution (Recursion), so  *)
(* that the function goes from word to word as the code does; then that    *)
(* what it finds agrees with the tool's own reading of the line, from the  *)
(* end of the line to its beginning. A reading says which of the flags     *)
(* that no table knows take the next word; the lemmas hold for each of     *)
(* them.                                                                   *)
(*                                                                         *)
(* A line of words stands for every line that can be typed: the inductive  *)
(* invariant says no more than that its words are of the scan's alphabet.  *)
(***************************************************************************)
EXTENDS CommandWords, JudgeRequestProofs

-----------------------------------------------------------------------------
(* The scanners that look for the command within a command. *)

\* The scan for the end of the options goes from word to word.
LEMMA AfterFlagsScans ==
  ASSUME NEW words, NEW i \in Nat
  PROVE  AfterFlags(words, i) =
           IF i > Len(words) THEN i
           ELSE IF words[i].t = "dashes" THEN i + 1
           ELSE IF OptionWidth(words[i].t) = 0 THEN i
           ELSE AfterFlags(words, i + OptionWidth(words[i].t))
<1> DEFINE Eq(F) == F = [k \in Nat |-> IF k > Len(words) THEN k
                      ELSE IF words[k].t = "dashes" THEN k + 1
                      ELSE IF OptionWidth(words[k].t) = 0 THEN k
                      ELSE F[k + OptionWidth(words[k].t)]]
           stops == {k \in Nat : k > Len(words) \/ words[k].t = "dashes"
                                 \/ OptionWidth(words[k].t) = 0}
           out == [k \in Nat |-> IF k > Len(words) THEN k
                      ELSE IF words[k].t = "dashes" THEN k + 1 ELSE k]
           next == [k \in Nat |-> k + OptionWidth(words[k].t)]
<1>0. \A t : OptionWidth(t) \in 0..2
  BY DEF OptionWidth
<1>1. stops \in SUBSET Nat /\ \A k \in Nat \ stops : next[k] \in Nat
  BY <1>0
<1>2. PICK f : Follows(f, Nat, stops, out, next)
  <2> HIDE DEF stops, out, next
  <2> QED
    BY <1>1, TailRecursion
<1>3. Eq(f)
  <2>1. f = [k \in Nat |-> IF k \in stops THEN out[k] ELSE f[next[k]]]
    BY <1>2 DEF Follows
  <2> QED
    BY <2>1
<1> DEFINE g == CHOOSE F : Eq(F)
<1>4. Eq(g)
  <2> HIDE DEF Eq
  <2> QED
    BY <1>3
<1>5. \A k : AfterFlags(words, k) = g[k]
  BY DEF AfterFlags
<1> HIDE DEF g
<1> QED
  BY <1>0, <1>4, <1>5

\* So does the scan for the end of the assignments,
LEMMA AfterAssignmentsScans ==
  ASSUME NEW words, NEW i \in Nat
  PROVE  AfterAssignments(words, i) =
           IF i <= Len(words) /\ words[i].t = "assign" THEN AfterAssignments(words, i + 1) ELSE i
<1> DEFINE Eq(F) == F = [k \in Nat |-> IF k <= Len(words) /\ words[k].t = "assign" THEN F[k + 1]
                                       ELSE k]
           stops == {k \in Nat : ~(k <= Len(words) /\ words[k].t = "assign")}
           out == [k \in Nat |-> k]
           next == [k \in Nat |-> k + 1]
<1>1. stops \in SUBSET Nat /\ \A k \in Nat \ stops : next[k] \in Nat
  OBVIOUS
<1>2. PICK f : Follows(f, Nat, stops, out, next)
  <2> HIDE DEF stops, out, next
  <2> QED
    BY <1>1, TailRecursion
<1>3. Eq(f)
  <2>1. f = [k \in Nat |-> IF k \in stops THEN out[k] ELSE f[next[k]]]
    BY <1>2 DEF Follows
  <2> QED
    BY <2>1
<1> DEFINE g == CHOOSE F : Eq(F)
<1>4. Eq(g)
  <2> HIDE DEF Eq
  <2> QED
    BY <1>3
<1>5. \A k : AfterAssignments(words, k) = g[k]
  BY DEF AfterAssignments
<1> HIDE DEF g
<1> QED
  BY <1>4, <1>5

\* and the reading of a tool that knows its options.
LEMMA FirstOperandScans ==
  ASSUME NEW words, NEW taking, NEW i \in Nat
  PROVE  FirstOperand(words, i, taking) =
           IF i > Len(words) THEN i
           ELSE IF words[i].t = "dashes" THEN i + 1
           ELSE IF words[i].t \in {"value", "-u"} \/ i \in taking
                THEN FirstOperand(words, i + 2, taking)
           ELSE IF words[i].t \in Dashed \ {"dash", "-c"} THEN FirstOperand(words, i + 1, taking)
           ELSE i
<1> DEFINE Eq(F) == F = [k \in Nat |->
             IF k > Len(words) THEN k
             ELSE IF words[k].t = "dashes" THEN k + 1
             ELSE IF words[k].t \in {"value", "-u"} \/ k \in taking THEN F[k + 2]
             ELSE IF words[k].t \in Dashed \ {"dash", "-c"} THEN F[k + 1]
             ELSE k]
           stops == {k \in Nat : \/ k > Len(words)
                                 \/ words[k].t = "dashes"
                                 \/ /\ ~(words[k].t \in {"value", "-u"} \/ k \in taking)
                                    /\ words[k].t \notin Dashed \ {"dash", "-c"}}
           out == [k \in Nat |-> IF k > Len(words) THEN k
                                 ELSE IF words[k].t = "dashes" THEN k + 1 ELSE k]
           next == [k \in Nat |-> IF words[k].t \in {"value", "-u"} \/ k \in taking THEN k + 2
                                  ELSE k + 1]
<1>1. stops \in SUBSET Nat /\ \A k \in Nat \ stops : next[k] \in Nat
  OBVIOUS
<1>2. PICK f : Follows(f, Nat, stops, out, next)
  <2> HIDE DEF stops, out, next
  <2> QED
    BY <1>1, TailRecursion
<1>3. Eq(f)
  <2>1. f = [k \in Nat |-> IF k \in stops THEN out[k] ELSE f[next[k]]]
    BY <1>2 DEF Follows
  <2> QED
    BY <2>1
<1> DEFINE g == CHOOSE F : Eq(F)
<1>4. Eq(g)
  <2> HIDE DEF Eq
  <2> QED
    BY <1>3
<1>5. \A k : FirstOperand(words, k, taking) = g[k]
  BY DEF FirstOperand
<1> HIDE DEF g
<1> QED
  BY <1>4, <1>5

\* The scans of xargs, of the launchers and of the shells go on from f[1].
XargsFrom(f, words) ==
  \A i \in Nat : f[i] = IF i > Len(words) THEN 0
                        ELSE IF words[i].t = "value" THEN f[i + 2]
                        ELSE IF words[i].t \in {"bool", "unknown"} THEN f[i + 1]
                        ELSE i

LEMMA XargsScans == ASSUME NEW words
                    PROVE  \E f : XargsFrom(f, words) /\ XargsCommand(words) = f[1]
<1> DEFINE Eq(F) == F = [i \in Nat |-> IF i > Len(words) THEN 0
                                       ELSE IF words[i].t = "value" THEN F[i + 2]
                                       ELSE IF words[i].t \in {"bool", "unknown"} THEN F[i + 1]
                                       ELSE i]
           stops == {k \in Nat : k > Len(words) \/ words[k].t \notin {"value", "bool", "unknown"}}
           out == [k \in Nat |-> IF k > Len(words) THEN 0 ELSE k]
           next == [k \in Nat |-> IF words[k].t = "value" THEN k + 2 ELSE k + 1]
<1>1. stops \in SUBSET Nat /\ \A k \in Nat \ stops : next[k] \in Nat
  OBVIOUS
<1>2. PICK f : Follows(f, Nat, stops, out, next)
  <2> HIDE DEF stops, out, next
  <2> QED
    BY <1>1, TailRecursion
<1>3. Eq(f)
  <2>1. f = [k \in Nat |-> IF k \in stops THEN out[k] ELSE f[next[k]]]
    BY <1>2 DEF Follows
  <2> QED
    BY <2>1
<1> DEFINE g == CHOOSE F : Eq(F)
<1>4. Eq(g)
  <2> HIDE DEF Eq
  <2> QED
    BY <1>3
<1>5. XargsCommand(words) = g[1]
  BY DEF XargsCommand
<1> HIDE DEF g
<1>6. XargsFrom(g, words)
  BY <1>4 DEF XargsFrom
<1> QED
  BY <1>5, <1>6

LauncherFrom(f, words) ==
  \A i \in Nat : f[i] = IF i > Len(words) THEN 0
                        ELSE IF words[i].t = "dashes" THEN Existing(words, i + 1)
                        ELSE IF words[i].t = "value" THEN f[i + 2]
                        ELSE IF words[i].t \in {"bool", "glued", "joined"} THEN f[i + 1]
                        ELSE IF words[i].t = "unknown" THEN 0
                        ELSE i

LEMMA LauncherScans == ASSUME NEW words
                       PROVE  \E f : LauncherFrom(f, words) /\ LauncherCommand(words) = f[1]
<1> DEFINE Eq(F) == F = [i \in Nat |->
             IF i > Len(words) THEN 0
             ELSE IF words[i].t = "dashes" THEN Existing(words, i + 1)
             ELSE IF words[i].t = "value" THEN F[i + 2]
             ELSE IF words[i].t \in {"bool", "glued", "joined"} THEN F[i + 1]
             ELSE IF words[i].t = "unknown" THEN 0
             ELSE i]
           Goes == {"value", "bool", "glued", "joined"}
           stops == {k \in Nat : k > Len(words) \/ words[k].t \notin Goes}
           out == [k \in Nat |-> IF k > Len(words) THEN 0
                                 ELSE IF words[k].t = "dashes" THEN Existing(words, k + 1)
                                 ELSE IF words[k].t = "unknown" THEN 0 ELSE k]
           next == [k \in Nat |-> IF words[k].t = "value" THEN k + 2 ELSE k + 1]
<1>1. stops \in SUBSET Nat /\ \A k \in Nat \ stops : next[k] \in Nat
  OBVIOUS
<1>2. PICK f : Follows(f, Nat, stops, out, next)
  <2> HIDE DEF stops, out, next
  <2> QED
    BY <1>1, TailRecursion
<1>3. Eq(f)
  <2>1. f = [k \in Nat |-> IF k \in stops THEN out[k] ELSE f[next[k]]]
    BY <1>2 DEF Follows
  <2> QED
    BY <2>1
<1> DEFINE g == CHOOSE F : Eq(F)
<1>4. Eq(g)
  <2> HIDE DEF Eq
  <2> QED
    BY <1>3
<1>5. LauncherCommand(words) = g[1]
  BY DEF LauncherCommand
<1> HIDE DEF g
<1>6. LauncherFrom(g, words)
  BY <1>4 DEF LauncherFrom
<1> QED
  BY <1>5, <1>6

\* The options of a shell before its -c; f[i] is where they end.
ShellFrom(f, words) ==
  \A i \in Nat : f[i] = IF i > Len(words) THEN i
                        ELSE IF words[i].t = "value" THEN f[i + 2]
                        ELSE IF words[i].t \in {"bool", "joined"} THEN f[i + 1]
                        ELSE i

OpaqueBody == [kind |-> "opaque", at |-> 0]

LEMMA ShellScans ==
  ASSUME NEW shell, NEW words
  PROVE  \E f : /\ ShellFrom(f, words)
                /\ ShellBody(shell, words) =
                     LET i == f[Shells[shell].before + 1] IN
                     CASE i > Len(words) -> [kind |-> "none", at |-> 0]
                       [] i <= Len(words) /\ words[i].t # "-c" -> OpaqueBody
                       [] i = Len(words) -> OpaqueBody
                       [] OTHER -> IF words[i+1].m \in {"raw", "safe"}
                                   THEN [kind |-> "statement", at |-> i + 1] ELSE OpaqueBody
<1> DEFINE Eq(F) == F = [i \in Nat |-> IF i > Len(words) THEN i
                                       ELSE IF words[i].t = "value" THEN F[i + 2]
                                       ELSE IF words[i].t \in {"bool", "joined"} THEN F[i + 1]
                                       ELSE i]
           stops == {k \in Nat : k > Len(words) \/ words[k].t \notin {"value", "bool", "joined"}}
           out == [k \in Nat |-> k]
           next == [k \in Nat |-> IF words[k].t = "value" THEN k + 2 ELSE k + 1]
<1>1. stops \in SUBSET Nat /\ \A k \in Nat \ stops : next[k] \in Nat
  OBVIOUS
<1>2. PICK f : Follows(f, Nat, stops, out, next)
  <2> HIDE DEF stops, out, next
  <2> QED
    BY <1>1, TailRecursion
<1>3. Eq(f)
  <2>1. f = [k \in Nat |-> IF k \in stops THEN out[k] ELSE f[next[k]]]
    BY <1>2 DEF Follows
  <2> QED
    BY <2>1
<1> DEFINE g == CHOOSE F : Eq(F)
<1>4. Eq(g)
  <2> HIDE DEF Eq
  <2> QED
    BY <1>3
<1> DEFINE Body(i) == CASE i > Len(words) -> [kind |-> "none", at |-> 0]
                        [] i <= Len(words) /\ words[i].t # "-c" -> OpaqueBody
                        [] i = Len(words) -> OpaqueBody
                        [] OTHER -> IF words[i+1].m \in {"raw", "safe"}
                                    THEN [kind |-> "statement", at |-> i + 1] ELSE OpaqueBody
<1>5. ShellBody(shell, words) = Body(g[Shells[shell].before + 1])
  BY DEF ShellBody, OpaqueBody
<1> HIDE DEF g
<1>6. ShellFrom(g, words)
  BY <1>4 DEF ShellFrom
<1> QED
  BY <1>5, <1>6

\* What a shell itself makes of them, having read a -c or not.
ShellReads(f, words) ==
  \A i \in Nat, c \in BOOLEAN :
    f[<<i, c>>] = IF i > Len(words) THEN [at |-> 0, c |-> c]
                  ELSE IF words[i].t = "-c" THEN f[<<i + 1, TRUE>>]
                  ELSE IF words[i].t = "value" THEN f[<<i + 2, c>>]
                  ELSE IF words[i].t \in {"bool", "joined", "unknown"} THEN f[<<i + 1, c>>]
                  ELSE [at |-> i, c |-> c]

LEMMA ShellReadsOn ==
  ASSUME NEW shell, NEW words
  PROVE  \E f : /\ ShellReads(f, words)
                /\ ShellRuns(shell, words) =
                     LET run == f[<<Shells[shell].before + 1, FALSE>>]
                     IN IF run.c THEN run.at ELSE 0
<1> DEFINE S == Nat \X BOOLEAN
           Goes == {"-c", "value", "bool", "joined", "unknown"}
           Eq(F) == F = [x \in Nat \X BOOLEAN |->
             LET i == x[1]
                 c == x[2]
             IN IF i > Len(words) THEN [at |-> 0, c |-> c]
                ELSE IF words[i].t = "-c" THEN F[<<i + 1, TRUE>>]
                ELSE IF words[i].t = "value" THEN F[<<i + 2, c>>]
                ELSE IF words[i].t \in {"bool", "joined", "unknown"} THEN F[<<i + 1, c>>]
                ELSE [at |-> i, c |-> c]]
           stops == {x \in S : x[1] > Len(words) \/ words[x[1]].t \notin Goes}
           out == [x \in S |-> IF x[1] > Len(words) THEN [at |-> 0, c |-> x[2]]
                               ELSE [at |-> x[1], c |-> x[2]]]
           next == [x \in S |-> IF words[x[1]].t = "-c" THEN <<x[1] + 1, TRUE>>
                                ELSE IF words[x[1]].t = "value" THEN <<x[1] + 2, x[2]>>
                                ELSE <<x[1] + 1, x[2]>>]
<1>1. stops \in SUBSET S /\ \A x \in S \ stops : next[x] \in S
  <2>1. ASSUME NEW x \in S PROVE next[x] \in S
    <3>1. x[1] \in Nat /\ x[2] \in BOOLEAN
      OBVIOUS
    <3>2. x[1] + 1 \in Nat /\ x[1] + 2 \in Nat /\ TRUE \in BOOLEAN
      BY <3>1
    <3>3. \A i \in Nat, c \in BOOLEAN : <<i, c>> \in S
      BY Zenon
    <3> HIDE DEF S
    <3> QED
      BY <3>1, <3>2, <3>3
  <2> QED
    BY <2>1
<1>2. PICK f : Follows(f, S, stops, out, next)
  <2> HIDE DEF S, stops, out, next
  <2> QED
    BY <1>1, TailRecursion
<1>3. Eq(f)
  <2>1. f = [x \in S |-> IF x \in stops THEN out[x] ELSE f[next[x]]]
    BY <1>2 DEF Follows
  <2> QED
    BY <2>1
<1> DEFINE g == CHOOSE F : Eq(F)
<1>4. Eq(g)
  <2> HIDE DEF Eq
  <2> QED
    BY <1>3
<1>5. ShellRuns(shell, words) = LET run == g[<<Shells[shell].before + 1, FALSE>>]
                                IN IF run.c THEN run.at ELSE 0
  BY DEF ShellRuns
<1> HIDE DEF g
<1>6. ShellReads(g, words)
  BY <1>4 DEF ShellReads
<1> QED
  BY <1>5, <1>6

\* The options of env, having read a -0 or not.
EnvEnd(i, null) == [at |-> i, null |-> null, opaque |-> FALSE]
EnvOpaque == [at |-> 0, null |-> FALSE, opaque |-> TRUE]
EnvFrom(f, words) ==
  \A i \in Nat, null \in BOOLEAN :
    f[<<i, null>>] = IF i > Len(words) THEN EnvEnd(i, null)
                     ELSE IF words[i].t = "dashes" THEN EnvEnd(i + 1, null)
                     ELSE IF words[i].t \in {"unknown", "u_bad"} THEN EnvOpaque
                     ELSE IF words[i].t \in {"-i", "u_name"} THEN f[<<i + 1, null>>]
                     ELSE IF words[i].t = "-0" THEN f[<<i + 1, TRUE>>]
                     ELSE IF words[i].t # "-u" THEN EnvEnd(i, null)
                     ELSE IF /\ i + 1 <= Len(words)
                             /\ words[i + 1].t = "word"
                             /\ words[i + 1].m # "unsafe"
                          THEN f[<<i + 2, null>>] ELSE EnvOpaque

LEMMA EnvScans == ASSUME NEW words
                  PROVE  \E f : EnvFrom(f, words) /\ EnvOptions(words) = f[<<1, FALSE>>]
<1> DEFINE S == Nat \X BOOLEAN
           Named(i) == /\ i <= Len(words)
                       /\ words[i].t = "word"
                       /\ words[i].m # "unsafe"
           Turn(F, i, null) ==
             IF i > Len(words) THEN EnvEnd(i, null)
             ELSE IF words[i].t = "dashes" THEN EnvEnd(i + 1, null)
             ELSE IF words[i].t \in {"unknown", "u_bad"} THEN EnvOpaque
             ELSE IF words[i].t \in {"-i", "u_name"} THEN F[<<i + 1, null>>]
             ELSE IF words[i].t = "-0" THEN F[<<i + 1, TRUE>>]
             ELSE IF words[i].t # "-u" THEN EnvEnd(i, null)
             ELSE IF Named(i + 1) THEN F[<<i + 2, null>>] ELSE EnvOpaque
           Eq(F) == F = [x \in Nat \X BOOLEAN |-> Turn(F, x[1], x[2])]
           Goes(i) == \/ words[i].t \in {"-i", "u_name", "-0"}
                      \/ words[i].t = "-u" /\ Named(i + 1)
           stops == {x \in S : x[1] > Len(words) \/ ~Goes(x[1])}
           out == [x \in S |-> IF x[1] > Len(words) THEN EnvEnd(x[1], x[2])
                               ELSE IF words[x[1]].t = "dashes" THEN EnvEnd(x[1] + 1, x[2])
                               ELSE IF words[x[1]].t \in {"unknown", "u_bad", "-u"} THEN EnvOpaque
                               ELSE EnvEnd(x[1], x[2])]
           next == [x \in S |-> IF words[x[1]].t = "-u" THEN <<x[1] + 2, x[2]>>
                                ELSE IF words[x[1]].t = "-0" THEN <<x[1] + 1, TRUE>>
                                ELSE <<x[1] + 1, x[2]>>]
<1>1. stops \in SUBSET S /\ \A x \in S \ stops : next[x] \in S
  <2>1. ASSUME NEW x \in S PROVE next[x] \in S
    <3>1. x[1] \in Nat /\ x[2] \in BOOLEAN
      OBVIOUS
    <3>2. x[1] + 1 \in Nat /\ x[1] + 2 \in Nat /\ TRUE \in BOOLEAN
      BY <3>1
    <3>3. \A i \in Nat, c \in BOOLEAN : <<i, c>> \in S
      BY Zenon
    <3> HIDE DEF S
    <3> QED
      BY <3>1, <3>2, <3>3
  <2> QED
    BY <2>1
<1>2. PICK f : Follows(f, S, stops, out, next)
  <2> HIDE DEF S, stops, out, next
  <2> QED
    BY <1>1, TailRecursion
<1>3. Eq(f)
  <2>1. f = [x \in S |-> IF x \in stops THEN out[x] ELSE f[next[x]]]
    BY <1>2 DEF Follows
  <2>2. ASSUME NEW x \in S PROVE f[x] = Turn(f, x[1], x[2])
    <3>1. f[x] = IF x \in stops THEN out[x] ELSE f[next[x]]
      <4> HIDE DEF S, stops, out, next
      <4> QED
        BY <2>1
    <3> HIDE DEF Named
    <3> QED
      BY <3>1
  <2>3. f = [x \in S |-> f[x]]
    <3> HIDE DEF S, stops, out, next
    <3> QED
      BY <2>1
  <2> HIDE DEF Turn
  <2> QED
    BY <2>2, <2>3
<1> DEFINE g == CHOOSE F : Eq(F)
<1>4. Eq(g)
  <2> HIDE DEF Eq
  <2> QED
    BY <1>3
<1>5. EnvOptions(words) = g[<<1, FALSE>>]
  BY DEF EnvOptions, EnvEnd, EnvOpaque
<1> HIDE DEF g
<1>6. \A i \in Nat, null \in BOOLEAN : g[<<i, null>>] = Turn(g, i, null)
  <2> HIDE DEF Turn
  <2> QED
    BY <1>4
<1>7. EnvFrom(g, words)
  BY <1>6 DEF EnvFrom
<1> QED
  BY <1>5, <1>7

\* Where longline takes the command of an -exec to end,
IsEnd(words, j) == words[j].t \in {";", "+"}
FindEnd(words, i) == IF \E j \in i..Len(words) : IsEnd(words, j)
                     THEN CHOOSE j \in i..Len(words) :
                            IsEnd(words, j) /\ \A k \in i..(j - 1) : ~IsEnd(words, k)
                     ELSE Len(words) + 1

LEMMA FindEnds ==
  ASSUME NEW words, Len(words) \in Nat, NEW i \in Nat
  PROVE  /\ FindEnd(words, i) \in Nat
         /\ FindEnd(words, i) <= Len(words) + 1
         /\ \A k \in i..Len(words) : k < FindEnd(words, i) => ~IsEnd(words, k)
         /\ \/ FindEnd(words, i) = Len(words) + 1
            \/ i <= FindEnd(words, i) /\ IsEnd(words, FindEnd(words, i))
<1> DEFINE T == {j \in i..Len(words) : IsEnd(words, j)}
           Is(j) == IsEnd(words, j) /\ \A k \in i..(j - 1) : ~IsEnd(words, k)
<1>1. CASE T = {}
  <2>1. FindEnd(words, i) = Len(words) + 1
    BY <1>1 DEF FindEnd
  <2> QED
    BY <1>1, <2>1
<1>2. CASE T # {}
  <2>1. PICK j \in T : \A m \in T : j <= m
    <3>1. T \subseteq Nat
      BY SMT
    <3> HIDE DEF T
    <3> QED
      BY <1>2, <3>1, LeastNumber
  <2>2. j \in i..Len(words) /\ IsEnd(words, j)
    OBVIOUS
  <2>3. ASSUME NEW k \in i..(j - 1) PROVE ~IsEnd(words, k)
    <3>1. k \in i..Len(words) /\ ~(j <= k)
      BY <2>2
    <3> QED
      BY <2>1, <3>1
  <2>4. FindEnd(words, i) = CHOOSE m \in i..Len(words) : Is(m)
    BY <2>2 DEF FindEnd
  <2>5. FindEnd(words, i) \in i..Len(words) /\ Is(FindEnd(words, i))
    <3>1. Is(j)
      BY <2>2, <2>3
    <3> HIDE DEF Is
    <3> QED
      BY <2>2, <2>4, <3>1
  <2> QED
    BY <2>5
<1> QED
  BY <1>1, <1>2

FindsFrom(f, words) ==
  \A i \in Nat : f[i] = IF i > Len(words) THEN {}
                        ELSE IF words[i].t # "-exec" THEN f[i + 1]
                        ELSE LET e == FindEnd(words, i + 1) IN
                             (IF e > i + 1 THEN {<<i + 1, e - 1>>} ELSE {}) \cup f[e + 1]

LEMMA FindScans ==
  ASSUME NEW words, Len(words) \in Nat
  PROVE  \E f : FindsFrom(f, words) /\ FindExec(words) = f[1]
<1> DEFINE Eq(F) == F = [i \in Nat |->
             IF i > Len(words) THEN {}
             ELSE IF words[i].t # "-exec" THEN F[i + 1]
             ELSE LET e == FindEnd(words, i + 1) IN
                  (IF e > i + 1 THEN {<<i + 1, e - 1>>} ELSE {}) \cup F[e + 1]]
           Own(i) == LET e == FindEnd(words, i + 1) IN
                     IF e > i + 1 THEN {<<i + 1, e - 1>>} ELSE {}
           base == [i \in Nat |-> IF i > Len(words) \/ words[i].t # "-exec" THEN {} ELSE Own(i)]
           kids == [i \in Nat |-> IF i > Len(words) THEN {}
                                  ELSE IF words[i].t # "-exec" THEN {i + 1}
                                  ELSE {FindEnd(words, i + 1) + 1}]
<1>1. \A i \in Nat : kids[i] \subseteq Nat
  <2>1. \A i \in Nat : FindEnd(words, i + 1) + 1 \in Nat
    BY FindEnds
  <2> QED
    BY <2>1
<1>2. PICK f : Solves(f, Nat, base, kids)
  <2> HIDE DEF base, kids
  <2> QED
    BY <1>1, LeastSolution
<1>3. ASSUME NEW i \in Nat
      PROVE  f[i] = IF i > Len(words) THEN {}
                    ELSE IF words[i].t # "-exec" THEN f[i + 1]
                    ELSE LET e == FindEnd(words, i + 1) IN
                         (IF e > i + 1 THEN {<<i + 1, e - 1>>} ELSE {}) \cup f[e + 1]
  <2>1. f[i] = base[i] \cup UNION {f[y] : y \in kids[i]}
    BY <1>2 DEF Solves
  <2>2. CASE i > Len(words)
    BY <2>1, <2>2
  <2>3. CASE ~(i > Len(words)) /\ words[i].t # "-exec"
    <3>1. base[i] = {} /\ kids[i] = {i + 1}
      BY <2>3
    <3> HIDE DEF base, kids
    <3>2. UNION {f[y] : y \in {i + 1}} = f[i + 1]
      OBVIOUS
    <3> QED
      BY <2>1, <2>3, <3>1, <3>2
  <2>4. CASE ~(i > Len(words)) /\ words[i].t = "-exec"
    <3>1. base[i] = Own(i) /\ kids[i] = {FindEnd(words, i + 1) + 1}
      BY <2>4
    <3> HIDE DEF base, kids
    <3>2. UNION {f[y] : y \in {FindEnd(words, i + 1) + 1}} = f[FindEnd(words, i + 1) + 1]
      OBVIOUS
    <3>3. f[i] = Own(i) \cup f[FindEnd(words, i + 1) + 1]
      <4> HIDE DEF Own
      <4> QED
        BY <2>1, <3>1, <3>2
    <3> QED
      BY <2>4, <3>3
  <2> QED
    BY <2>2, <2>3, <2>4
<1>4. Eq(f)
  <2>1. f = [i \in Nat |-> f[i]]
    <3> HIDE DEF base, kids
    <3> QED
      BY <1>2 DEF Solves
  <2> QED
    BY <1>3, <2>1
<1> DEFINE g == CHOOSE F : Eq(F)
<1>5. Eq(g)
  <2> HIDE DEF Eq
  <2> QED
    BY <1>4
<1>6. FindExec(words) = g[1]
  BY DEF FindExec, FindEnd, IsEnd
<1> HIDE DEF g
<1>7. FindsFrom(g, words)
  BY <1>5 DEF FindsFrom
<1> QED
  BY <1>6, <1>7

\* and where find does.
Ends(words, j) == \/ words[j].t = ";"
                  \/ words[j].t = "+" /\ words[j-1].t = "{}"
RunEnds(words, i) == {j \in (i + 2)..Len(words) : Ends(words, j)}
RunsFrom(f, words) ==
  \A i \in Nat : f[i] = IF i > Len(words) THEN {}
                        ELSE IF words[i].t # "-exec" THEN f[i + 1]
                        ELSE IF RunEnds(words, i) = {} THEN {}
                        ELSE LET e == CHOOSE j \in RunEnds(words, i) :
                                        \A k \in RunEnds(words, i) : j <= k
                             IN {<<i + 1, e - 1>>} \cup f[e + 1]

LEMMA FirstRunEnds ==
  ASSUME NEW words, Len(words) \in Nat, NEW i \in Nat, RunEnds(words, i) # {}
  PROVE  LET e == CHOOSE j \in RunEnds(words, i) : \A k \in RunEnds(words, i) : j <= k
         IN e \in RunEnds(words, i) /\ \A k \in RunEnds(words, i) : e <= k
<1>1. RunEnds(words, i) \subseteq Nat
  BY DEF RunEnds
<1>2. PICK n \in RunEnds(words, i) : \A k \in RunEnds(words, i) : n <= k
  BY <1>1, LeastNumber
<1> QED
  BY <1>2

LEMMA FindRunsOn ==
  ASSUME NEW words, Len(words) \in Nat
  PROVE  \E f : RunsFrom(f, words) /\ FindRuns(words) = f[1]
<1> DEFINE End(i) == CHOOSE j \in RunEnds(words, i) : \A k \in RunEnds(words, i) : j <= k
           Turn(F, i) == IF i > Len(words) THEN {}
                         ELSE IF words[i].t # "-exec" THEN F[i + 1]
                         ELSE IF RunEnds(words, i) = {} THEN {}
                         ELSE {<<i + 1, End(i) - 1>>} \cup F[End(i) + 1]
           Eq(F) == F = [i \in Nat |-> Turn(F, i)]
           Stops(i) == i > Len(words) \/ (words[i].t = "-exec" /\ RunEnds(words, i) = {})
           base == [i \in Nat |-> IF Stops(i) \/ words[i].t # "-exec" THEN {}
                                  ELSE {<<i + 1, End(i) - 1>>}]
           kids == [i \in Nat |-> IF Stops(i) THEN {}
                                  ELSE IF words[i].t # "-exec" THEN {i + 1}
                                  ELSE {End(i) + 1}]
<1>0. \A i \in Nat : RunEnds(words, i) # {} => End(i) \in Nat
  BY FirstRunEnds DEF RunEnds
<1> HIDE DEF End
<1>1. \A i \in Nat : kids[i] \subseteq Nat
  BY <1>0
<1>2. PICK f : Solves(f, Nat, base, kids)
  <2> HIDE DEF base, kids
  <2> QED
    BY <1>1, LeastSolution
<1>3. ASSUME NEW i \in Nat PROVE f[i] = Turn(f, i)
  <2>1. f[i] = base[i] \cup UNION {f[y] : y \in kids[i]}
    BY <1>2 DEF Solves
  <2>2. CASE Stops(i)
    BY <2>1, <2>2
  <2>3. CASE ~Stops(i) /\ words[i].t # "-exec"
    <3>1. base[i] = {} /\ kids[i] = {i + 1}
      BY <2>3
    <3> HIDE DEF base, kids
    <3>2. UNION {f[y] : y \in {i + 1}} = f[i + 1]
      OBVIOUS
    <3> QED
      BY <2>1, <2>3, <3>1, <3>2
  <2>4. CASE ~Stops(i) /\ words[i].t = "-exec"
    <3>1. base[i] = {<<i + 1, End(i) - 1>>} /\ kids[i] = {End(i) + 1}
      BY <2>4
    <3> HIDE DEF base, kids
    <3>2. UNION {f[y] : y \in {End(i) + 1}} = f[End(i) + 1]
      OBVIOUS
    <3> QED
      BY <2>1, <2>4, <3>1, <3>2
  <2> QED
    BY <2>2, <2>3, <2>4
<1>4. Eq(f)
  <2>1. f = [i \in Nat |-> f[i]]
    <3> HIDE DEF base, kids
    <3> QED
      BY <1>2 DEF Solves
  <2> HIDE DEF Turn
  <2> QED
    BY <1>3, <2>1
<1> DEFINE g == CHOOSE F : Eq(F)
<1>5. Eq(g)
  <2> HIDE DEF Eq
  <2> QED
    BY <1>4
<1>6. FindRuns(words) = g[1]
  BY DEF FindRuns, RunEnds, Ends, End
<1> HIDE DEF g
<1>7. \A i \in Nat : g[i] = Turn(g, i)
  <2> HIDE DEF Turn
  <2> QED
    BY <1>5
<1>8. RunsFrom(g, words)
  BY <1>7 DEF RunsFrom, End
<1> QED
  BY <1>6, <1>8

-----------------------------------------------------------------------------
(* What they find is what runs. *)

\* Assignments end no earlier the later one looks for them.
LEMMA AssignmentsEnd ==
  ASSUME NEW words, Len(words) \in Nat, NEW i \in Nat \ {0}
  PROVE  /\ AfterAssignments(words, i) \in Nat
         /\ i <= AfterAssignments(words, i)
         /\ AfterAssignments(words, i) <= Len(words) =>
              words[AfterAssignments(words, i)].t # "assign"
         /\ \A j \in Nat : i <= j /\ j < AfterAssignments(words, i) =>
              AfterAssignments(words, j) = AfterAssignments(words, i)
<1> DEFINE A(k) == AfterAssignments(words, k)
           Good(k) == /\ A(k) \in Nat /\ k <= A(k)
                      /\ A(k) <= Len(words) => words[A(k)].t # "assign"
                      /\ \A j \in Nat : k <= j /\ j < A(k) => A(j) = A(k)
           G == {k \in Nat : Good(k)}
<1>0. \A k \in Nat : A(k) = IF k <= Len(words) /\ words[k].t = "assign" THEN A(k + 1) ELSE k
  BY AfterAssignmentsScans
<1> HIDE DEF A
<1>1. \A k \in Nat : k > Len(words) => k \in G
  BY <1>0
<1>2. ASSUME NEW k \in 1..Len(words), \A j \in Nat : j > k => j \in G
      PROVE  k \in G
  <2>1. CASE words[k].t = "assign"
    <3>1. A(k) = A(k + 1) /\ Good(k + 1)
      BY <1>0, <1>2, <2>1
    <3> QED
      BY <3>1
  <2>2. CASE words[k].t # "assign"
    <3>1. A(k) = k
      BY <1>0, <2>2
    <3> QED
      BY <2>2, <3>1
  <2> QED
    BY <2>1, <2>2
<1>3. i \in G
  <2> HIDE DEF G
  <2> QED
    BY <1>1, <1>2, CountingDown
<1> QED
  BY <1>3 DEF A

LEMMA AssignmentsMonotone ==
  ASSUME NEW words, Len(words) \in Nat, NEW i \in Nat \ {0}, NEW j \in Nat, i <= j
  PROVE  AfterAssignments(words, i) <= AfterAssignments(words, j)
<1>1. CASE j < AfterAssignments(words, i)
  BY <1>1, AssignmentsEnd
<1>2. CASE ~(j < AfterAssignments(words, i))
  BY <1>2, AssignmentsEnd
<1> QED
  BY <1>1, <1>2

\* The words of a wrapper, as a scan sees them.
WrapperKinds == {"value", "joined", "glued", "bool", "query", "sub", "dashes", "unknown", "dash",
                 "assign", "word"}
LEMMA WrapperWordKinds ==
  ASSUME NEW name \in DOMAIN Wrappers, NEW words \in Seq(WrapperWords(name)), NEW i \in DOMAIN words
  PROVE  words[i].t \in WrapperKinds
<1>1. \A n \in DOMAIN Wrappers : Wrappers[n].knows \subseteq WrapperKinds
  BY DEF Wrappers, WrapperKinds
<1>2. words[i] \in WrapperWords(name)
  OBVIOUS
<1>3. \A w \in WrapperWords(name) : w.t \in WrapperKinds
  BY <1>1 DEF WrapperWords, Plain, WrapperKinds
<1> QED
  BY <1>2, <1>3

\* The options end for the scanner where they do for the tool, or before.
LEMMA FlagsEndInTime ==
  ASSUME NEW words, Len(words) \in Nat, \A i \in 1..Len(words) : words[i].t \in WrapperKinds,
         NEW r \in Readings(words), NEW i \in Nat \ {0}
  PROVE  /\ AfterFlags(words, i) \in Nat /\ FirstOperand(words, i, r) \in Nat
         /\ i <= AfterFlags(words, i)
         /\ AfterFlags(words, i) <= FirstOperand(words, i, r)
         /\ r = {} => AfterFlags(words, i) = FirstOperand(words, i, r)
<1> DEFINE A(k) == AfterFlags(words, k)
           O(k) == FirstOperand(words, k, r)
           Good(k) == /\ A(k) \in Nat /\ O(k) \in Nat
                      /\ k <= A(k) /\ A(k) <= O(k)
                      /\ r = {} => A(k) = O(k)
           G == {k \in Nat : Good(k)}
<1>a. \A k \in Nat : A(k) = IF k > Len(words) THEN k
                            ELSE IF words[k].t = "dashes" THEN k + 1
                            ELSE IF OptionWidth(words[k].t) = 0 THEN k
                            ELSE A(k + OptionWidth(words[k].t))
  BY AfterFlagsScans
<1>o. ASSUME NEW k \in Nat
      PROVE  O(k) = IF k > Len(words) THEN k
                    ELSE IF words[k].t = "dashes" THEN k + 1
                    ELSE IF words[k].t \in {"value", "-u"} \/ k \in r THEN O(k + 2)
                    ELSE IF words[k].t \in Dashed \ {"dash", "-c"} THEN O(k + 1)
                    ELSE k
  BY FirstOperandScans
<1>1. \A k \in r : /\ k \in 1..Len(words) /\ words[k].t = "unknown"
                   /\ k + 1 \in 1..Len(words) /\ words[k + 1].t \notin Dashed
  BY DEF Readings
<1> HIDE DEF A, O
<1>2. \A k \in Nat : k > Len(words) => k \in G
  BY <1>a, <1>o
<1>3. ASSUME NEW k \in 1..Len(words), \A j \in Nat : j > k => j \in G
      PROVE  k \in G
  <2>0. Good(k + 1) /\ Good(k + 2) /\ words[k].t \in WrapperKinds
    <3>1. k + 1 \in G /\ k + 2 \in G
      BY <1>3
    <3> QED
      BY <3>1
  <2>1. CASE k \in r
    <3>1. /\ k + 1 \in 1..Len(words) /\ words[k].t = "unknown"
          /\ words[k + 1].t \in {"sub", "assign", "word"}
      BY <1>1, <2>1 DEF Dashed, WrapperKinds
    <3>2. O(k) = O(k + 2)
      BY <1>a, <1>o, <2>1, <3>1
    <3>3. A(k) = A(k + 1)
      BY <1>a, <1>o, <3>1 DEF OptionWidth
    <3>4. A(k + 1) = k + 1
      BY <1>a, <1>o, <3>1 DEF OptionWidth
    <3> QED
      BY <2>0, <2>1, <3>2, <3>3, <3>4
  <2>2. CASE k \notin r /\ words[k].t = "value"
    <3>1. A(k) = A(k + 2) /\ O(k) = O(k + 2)
      BY <1>a, <1>o, <2>2 DEF OptionWidth
    <3> QED
      BY <2>0, <3>1
  <2>3. CASE k \notin r /\ words[k].t \in {"joined", "glued", "bool", "query", "unknown"}
    <3>1. A(k) = A(k + 1) /\ O(k) = O(k + 1)
      BY <1>a, <1>o, <2>3, SMTT(30) DEF OptionWidth, Dashed
    <3> QED
      BY <2>0, <3>1
  <2>4. CASE k \notin r /\ words[k].t \in {"sub", "dash", "assign", "word", "dashes"}
    <3>1. A(k) = O(k) /\ A(k) \in {k, k + 1}
      BY <1>a, <1>o, <2>4 DEF OptionWidth, Dashed
    <3> QED
      BY <3>1
  <2> QED
    BY <2>0, <2>1, <2>2, <2>3, <2>4 DEF WrapperKinds
<1>4. i \in G
  <2> HIDE DEF G
  <2> QED
    BY <1>2, <1>3, CountingDown
<1> QED
  BY <1>4 DEF A, O

\* The command that a wrapper runs is not before the one that is found.
LEMMA WrapperFinds ==
  ASSUME NEW name \in DOMAIN Wrappers, NEW words \in Seq(WrapperWords(name)),
         NEW r \in Readings(words), RunsAt(name, words, r) # 0,
         ~(name = "uv" /\ (words = << >> \/ words[1].t # "sub")),
         ~(name = "command" /\ words # << >> /\ words[1].t = "query")
  PROVE  /\ InnerCommand(name, words) \in 1..RunsAt(name, words, r)
         /\ r = {} => InnerCommand(name, words) = RunsAt(name, words, r)
<1> DEFINE start == IF name = "uv" THEN 2 ELSE 1
           skip == Wrappers[name].skip
           f == AfterFlags(words, start) + skip
           o == FirstOperand(words, start, r) + skip
<1>0. Len(words) \in Nat /\ DOMAIN words = 1..Len(words)
  OBVIOUS
<1>1. skip \in Nat
  BY DEF Wrappers
<1>2. /\ AfterFlags(words, start) \in Nat /\ FirstOperand(words, start, r) \in Nat
      /\ start <= AfterFlags(words, start)
      /\ AfterFlags(words, start) <= FirstOperand(words, start, r)
      /\ r = {} => AfterFlags(words, start) = FirstOperand(words, start, r)
  BY <1>0, FlagsEndInTime, WrapperWordKinds
<1>3. RunsAt(name, words, r) = Existing(words, AfterAssignments(words, o))
  BY DEF RunsAt
<1>4. InnerCommand(name, words) = Existing(words, AfterAssignments(words, f))
  BY DEF InnerCommand
<1>5. f \in Nat \ {0} /\ o \in Nat \ {0} /\ f <= o /\ (r = {} => f = o)
  BY <1>1, <1>2
<1> HIDE DEF f, o, start, skip
<1>6. /\ AfterAssignments(words, f) \in Nat \ {0}
      /\ AfterAssignments(words, o) \in Nat
      /\ AfterAssignments(words, f) <= AfterAssignments(words, o)
  BY <1>0, <1>5, AssignmentsEnd, AssignmentsMonotone
<1> QED
  BY <1>0, <1>3, <1>4, <1>5, <1>6 DEF Existing

\* Neither env and xargs nor the launchers are wrappers to look through.
LEMMA NotWrappers == /\ {"env", "xargs"} \cap DOMAIN Wrappers = {}
                     /\ DOMAIN Launchers \cap (DOMAIN Wrappers \cup {"env", "uv"}) = {}
BY DEF Wrappers, Launchers

\* An operand is at the place it is looked for, or after it.
LEMMA OperandFound ==
  ASSUME NEW words, Len(words) \in Nat, NEW r, NEW i \in Nat \ {0}
  PROVE  FirstOperand(words, i, r) \in Nat /\ i <= FirstOperand(words, i, r)
<1> DEFINE O(k) == FirstOperand(words, k, r)
           G == {k \in Nat : O(k) \in Nat /\ k <= O(k)}
<1>1. ASSUME NEW k \in Nat
      PROVE  /\ k > Len(words) => O(k) = k
             /\ O(k) \in {k, k + 1, O(k + 1), O(k + 2)}
  BY FirstOperandScans
<1> HIDE DEF O
<1>2. \A k \in Nat : k > Len(words) => k \in G
  BY <1>1
<1>3. ASSUME NEW k \in 1..Len(words), \A j \in Nat : j > k => j \in G
      PROVE  k \in G
  <2>1. k + 1 \in G /\ k + 2 \in G
    BY <1>3
  <2> QED
    BY <1>1, <2>1
<1>4. i \in G
  <2> HIDE DEF G
  <2> QED
    BY <1>2, <1>3, CountingDown
<1> QED
  BY <1>4 DEF O

LEMMA PlainRuns ==
  ASSUME NEW words, Len(words) \in Nat, NEW r, NEW name \in {"xargs"} \cup DOMAIN Launchers
  PROVE  RunsAt(name, words, r) = Existing(words, FirstOperand(words, 1, r))
<1>1. FirstOperand(words, 1, r) + 0 = FirstOperand(words, 1, r)
  BY OperandFound
<1>2. name \notin DOMAIN Wrappers /\ name \notin {"env", "uv"}
  BY NotWrappers
<1> QED
  BY <1>1, <1>2 DEF RunsAt

LEMMA EnvRunsAt ==
  ASSUME NEW words, Len(words) \in Nat, NEW r
  PROVE  RunsAt("env", words, r) =
           Existing(words, AfterAssignments(words, FirstOperand(words, 1, r)))
<1>1. FirstOperand(words, 1, r) + 0 = FirstOperand(words, 1, r)
  BY OperandFound
<1>2. "env" \notin DOMAIN Wrappers
  BY NotWrappers
<1> QED
  BY <1>1, <1>2 DEF RunsAt

\* xargs: what is found is no later than what runs.
LEMMA XargsFinds ==
  ASSUME NEW words \in Seq(XargsWords), NEW r \in Readings(words),
         RunsAt("xargs", words, r) # 0
  PROVE  /\ XargsCommand(words) \in 1..RunsAt("xargs", words, r)
         /\ r = {} => XargsCommand(words) = RunsAt("xargs", words, r)
<1> DEFINE O(k) == FirstOperand(words, k, r)
<1>1. PICK f : XargsFrom(f, words) /\ XargsCommand(words) = f[1]
  BY XargsScans
<1> DEFINE Good(k) == /\ O(k) \in Nat /\ k <= O(k)
                      /\ O(k) <= Len(words) => /\ f[k] \in k..O(k)
                                               /\ r = {} => f[k] = O(k)
           G == {k \in Nat : Good(k)}
<1>2. ASSUME NEW k \in Nat
      PROVE  O(k) = IF k > Len(words) THEN k
                    ELSE IF words[k].t = "dashes" THEN k + 1
                    ELSE IF words[k].t \in {"value", "-u"} \/ k \in r THEN O(k + 2)
                    ELSE IF words[k].t \in Dashed \ {"dash", "-c"} THEN O(k + 1)
                    ELSE k
  BY FirstOperandScans
<1>3. \A k \in Nat : f[k] = IF k > Len(words) THEN 0
                            ELSE IF words[k].t = "value" THEN f[k + 2]
                            ELSE IF words[k].t \in {"bool", "unknown"} THEN f[k + 1]
                            ELSE k
  BY <1>1 DEF XargsFrom
<1>4. \A k \in r : /\ k \in 1..Len(words) /\ words[k].t = "unknown"
                   /\ k + 1 \in 1..Len(words) /\ words[k + 1].t \notin Dashed
  BY DEF Readings
<1>5. \A k \in 1..Len(words) : words[k].t \in {"value", "bool", "unknown", "word"}
  <2>1. \A w \in XargsWords : w.t \in {"value", "bool", "unknown", "word"}
    BY DEF XargsWords, Plain
  <2> QED
    BY <2>1
<1> HIDE DEF O
<1>6. \A k \in Nat : k > Len(words) => k \in G
  BY <1>2
<1>7. ASSUME NEW k \in 1..Len(words), \A j \in Nat : j > k => j \in G
      PROVE  k \in G
  <2>0. Good(k + 1) /\ Good(k + 2)
    <3>1. k + 1 \in G /\ k + 2 \in G
      BY <1>7
    <3> QED
      BY <3>1
  <2>1. CASE k \in r
    <3>1. k + 1 \in 1..Len(words) /\ words[k].t = "unknown" /\ words[k + 1].t = "word"
      BY <1>4, <1>5, <2>1 DEF Dashed
    <3>2. O(k) = O(k + 2) /\ f[k] = f[k + 1] /\ f[k + 1] = k + 1
      BY <1>2, <1>3, <2>1, <3>1
    <3> QED
      BY <2>0, <2>1, <3>2
  <2>2. CASE k \notin r /\ words[k].t = "value"
    <3>1. f[k] = f[k + 2] /\ O(k) = O(k + 2)
      BY <1>2, <1>3, <2>2
    <3> QED
      BY <2>0, <3>1
  <2>3. CASE k \notin r /\ words[k].t \in {"bool", "unknown"}
    <3>1. f[k] = f[k + 1] /\ O(k) = O(k + 1)
      BY <1>2, <1>3, <2>3 DEF Dashed
    <3> QED
      BY <2>0, <3>1
  <2>4. CASE k \notin r /\ words[k].t = "word"
    <3>1. f[k] = k /\ O(k) = k
      BY <1>2, <1>3, <2>4 DEF Dashed
    <3> QED
      BY <3>1
  <2> QED
    BY <1>5, <2>1, <2>2, <2>3, <2>4
<1>8. 1 \in G
  <2>1. Len(words) \in Nat /\ 1 \in Nat \ {0}
    OBVIOUS
  <2> HIDE DEF G
  <2>2. \A k \in Nat \ {0} : k \in G
    BY <1>6, <1>7, <2>1, CountingDown
  <2> QED
    BY <2>1, <2>2
<1>9. RunsAt("xargs", words, r) = Existing(words, O(1))
  BY PlainRuns DEF O
<1> QED
  BY <1>1, <1>8, <1>9 DEF Existing

\* A launcher: what is found is what runs, whatever the unknown options take.
LEMMA LauncherFinds ==
  ASSUME NEW name \in DOMAIN Launchers, NEW words \in Seq(LauncherWords(name)),
         NEW r \in Readings(words), LauncherCommand(words) # 0
  PROVE  RunsAt(name, words, r) = LauncherCommand(words)
<1> DEFINE O(k) == FirstOperand(words, k, r)
<1>1. PICK f : LauncherFrom(f, words) /\ LauncherCommand(words) = f[1]
  BY LauncherScans
<1> DEFINE Good(k) == f[k] # 0 => f[k] = Existing(words, O(k))
           G == {k \in Nat : Good(k)}
<1>2. ASSUME NEW k \in Nat
      PROVE  O(k) = IF k > Len(words) THEN k
                    ELSE IF words[k].t = "dashes" THEN k + 1
                    ELSE IF words[k].t \in {"value", "-u"} \/ k \in r THEN O(k + 2)
                    ELSE IF words[k].t \in Dashed \ {"dash", "-c"} THEN O(k + 1)
                    ELSE k
  BY FirstOperandScans
<1>3. \A k \in Nat : f[k] = IF k > Len(words) THEN 0
                            ELSE IF words[k].t = "dashes" THEN Existing(words, k + 1)
                            ELSE IF words[k].t = "value" THEN f[k + 2]
                            ELSE IF words[k].t \in {"bool", "glued", "joined"} THEN f[k + 1]
                            ELSE IF words[k].t = "unknown" THEN 0
                            ELSE k
  BY <1>1 DEF LauncherFrom
<1>4. \A k \in r : words[k].t = "unknown"
  BY DEF Readings
<1>5. \A k \in 1..Len(words) : words[k].t \in {"value", "joined", "bool", "glued", "dashes", "unknown", "word"}
  <2>1. \A n \in DOMAIN Launchers : Launchers[n] \subseteq {"value", "joined", "bool", "glued"}
    BY DEF Launchers
  <2>2. \A w \in LauncherWords(name) : w.t \in {"value", "joined", "bool", "glued", "dashes", "unknown", "word"}
    BY <2>1 DEF LauncherWords, Plain
  <2> QED
    BY <2>2
<1> HIDE DEF O
<1>6. \A k \in Nat : k > Len(words) => k \in G
  BY <1>3
<1>7. ASSUME NEW k \in 1..Len(words), \A j \in Nat : j > k => j \in G
      PROVE  k \in G
  <2>0. Good(k + 1) /\ Good(k + 2)
    <3>1. k + 1 \in G /\ k + 2 \in G
      BY <1>7
    <3> QED
      BY <3>1
  <2>1. CASE words[k].t = "unknown"
    BY <1>3, <2>1
  <2>2. CASE words[k].t = "value"
    <3>1. f[k] = f[k + 2] /\ O(k) = O(k + 2)
      BY <1>2, <1>3, <2>2
    <3> QED
      BY <2>0, <3>1
  <2>3. CASE words[k].t \in {"bool", "glued", "joined"}
    <3>1. f[k] = f[k + 1] /\ O(k) = O(k + 1)
      BY <1>2, <1>3, <1>4, <2>3 DEF Dashed
    <3> QED
      BY <2>0, <3>1
  <2>4. CASE words[k].t = "dashes"
    <3>1. f[k] = Existing(words, k + 1) /\ O(k) = k + 1
      BY <1>2, <1>3, <2>4
    <3> QED
      BY <3>1
  <2>5. CASE words[k].t = "word"
    <3>1. f[k] = k /\ O(k) = k
      BY <1>2, <1>3, <1>4, <2>5 DEF Dashed
    <3> QED
      BY <3>1 DEF Existing
  <2> QED
    BY <1>5, <2>1, <2>2, <2>3, <2>4, <2>5
<1>8. 1 \in G
  <2>1. Len(words) \in Nat /\ 1 \in Nat \ {0}
    OBVIOUS
  <2> HIDE DEF G
  <2>2. \A k \in Nat \ {0} : k \in G
    BY <1>6, <1>7, <2>1, CountingDown
  <2> QED
    BY <2>1, <2>2
<1>9. RunsAt(name, words, r) = Existing(words, O(1))
  <2>1. name \in {"xargs"} \cup DOMAIN Launchers /\ Len(words) \in Nat
    OBVIOUS
  <2> QED
    BY <2>1, PlainRuns DEF O
<1> QED
  BY <1>1, <1>8, <1>9

\* env: if it is not opaque, what is found is what runs.
LEMMA EnvFinds ==
  ASSUME NEW words \in Seq(EnvWords), NEW r \in Readings(words),
         EnvInvocation(words).kind # "opaque"
  PROVE  RunsAt("env", words, r) = EnvInvocation(words).at
<1> DEFINE O(k) == FirstOperand(words, k, r)
<1>1. PICK f : EnvFrom(f, words) /\ EnvOptions(words) = f[<<1, FALSE>>]
  BY EnvScans
<1> DEFINE Good(k) == /\ O(k) \in Nat /\ k <= O(k)
                      /\ \A null \in BOOLEAN : \/ f[<<k, null>>] = EnvOpaque
                                              \/ \E n \in BOOLEAN : f[<<k, null>>] = EnvEnd(O(k), n)
           G == {k \in Nat : Good(k)}
<1>2. ASSUME NEW k \in Nat
      PROVE  O(k) = IF k > Len(words) THEN k
                    ELSE IF words[k].t = "dashes" THEN k + 1
                    ELSE IF words[k].t \in {"value", "-u"} \/ k \in r THEN O(k + 2)
                    ELSE IF words[k].t \in Dashed \ {"dash", "-c"} THEN O(k + 1)
                    ELSE k
  BY FirstOperandScans
<1>3. ASSUME NEW k \in Nat, NEW null \in BOOLEAN
      PROVE  f[<<k, null>>] = IF k > Len(words) THEN EnvEnd(k, null)
                     ELSE IF words[k].t = "dashes" THEN EnvEnd(k + 1, null)
                     ELSE IF words[k].t \in {"unknown", "u_bad"} THEN EnvOpaque
                     ELSE IF words[k].t \in {"-i", "u_name"} THEN f[<<k + 1, null>>]
                     ELSE IF words[k].t = "-0" THEN f[<<k + 1, TRUE>>]
                     ELSE IF words[k].t # "-u" THEN EnvEnd(k, null)
                     ELSE IF /\ k + 1 <= Len(words)
                             /\ words[k + 1].t = "word"
                             /\ words[k + 1].m # "unsafe"
                          THEN f[<<k + 2, null>>] ELSE EnvOpaque
  BY <1>1 DEF EnvFrom
<1>4. \A k \in r : words[k].t = "unknown"
  BY DEF Readings
<1> DEFINE Kinds == {"-i", "-0", "-u", "u_name", "u_bad", "dashes", "unknown", "assign", "word"}
<1>5. \A k \in 1..Len(words) : words[k].t \in Kinds
  <2>2. \A w \in EnvWords : w.t \in Kinds
    BY DEF EnvWords, Plain
  <2> QED
    BY <2>2
<1>o. \A k \in Nat \ {0} : O(k) \in Nat /\ k <= O(k)
  BY OperandFound
<1> HIDE DEF O
<1>6. ASSUME NEW k \in Nat, k > Len(words) PROVE k \in G
  <2>1. \A null \in BOOLEAN : f[<<k, null>>] = EnvEnd(k, null)
    BY <1>3, <1>6, Zenon
  <2>2. O(k) = k
    BY <1>2, <1>6
  <2>3. Good(k)
    BY <2>1, <2>2
  <2> QED
    BY <2>3
<1>7. ASSUME NEW k \in 1..Len(words), \A j \in Nat : j > k => j \in G
      PROVE  k \in G
  <2>0. Good(k + 1) /\ Good(k + 2)
    <3>1. k + 1 \in G /\ k + 2 \in G
      BY <1>7
    <3> QED
      BY <3>1
  <2>a. ~(k > Len(words)) /\ k \in Nat /\ TRUE \in BOOLEAN
    OBVIOUS
  <2>1. CASE words[k].t \in {"unknown", "u_bad"}
    <3>1. \A null \in BOOLEAN : f[<<k, null>>] = EnvOpaque
      BY <1>3, <2>1, <2>a, Zenon
    <3> QED
      BY <1>o, <3>1
  <2>2. CASE words[k].t \in {"-i", "u_name"}
    <3>1. \A null \in BOOLEAN : f[<<k, null>>] = f[<<k + 1, null>>]
      BY <1>3, <2>2, <2>a, Zenon
    <3>2. O(k) = O(k + 1)
      BY <1>2, <1>4, <2>2 DEF Dashed
    <3>3. \A null \in BOOLEAN : \/ f[<<k, null>>] = EnvOpaque
                                \/ \E n \in BOOLEAN : f[<<k, null>>] = EnvEnd(O(k), n)
      BY <2>0, <3>1, <3>2, Zenon
    <3> QED
      BY <1>o, <3>3
  <2>3. CASE words[k].t = "-0"
    <3>1. \A null \in BOOLEAN : f[<<k, null>>] = f[<<k + 1, TRUE>>]
      BY <1>3, <2>3, <2>a, Zenon
    <3>2. O(k) = O(k + 1)
      BY <1>2, <1>4, <2>3 DEF Dashed
    <3>3. \A null \in BOOLEAN : \/ f[<<k, null>>] = EnvOpaque
                                \/ \E n \in BOOLEAN : f[<<k, null>>] = EnvEnd(O(k), n)
      BY <2>0, <2>a, <3>1, <3>2, Zenon
    <3> QED
      BY <1>o, <3>3
  <2>4. CASE words[k].t = "-u"
    <3>1. \A null \in BOOLEAN : f[<<k, null>>] \in {f[<<k + 2, null>>], EnvOpaque}
      BY <1>3, <2>4, <2>a, Zenon
    <3>2. O(k) = O(k + 2)
      BY <1>2, <2>4
    <3>3. \A null \in BOOLEAN : \/ f[<<k, null>>] = EnvOpaque
                                \/ \E n \in BOOLEAN : f[<<k, null>>] = EnvEnd(O(k), n)
      BY <2>0, <3>1, <3>2, Zenon
    <3> QED
      BY <1>o, <3>3
  <2>5. CASE words[k].t = "dashes"
    <3>1. \A null \in BOOLEAN : f[<<k, null>>] = EnvEnd(k + 1, null)
      BY <1>3, <2>5, <2>a, Zenon
    <3>2. O(k) = k + 1
      BY <1>2, <2>5
    <3> QED
      BY <3>1, <3>2
  <2>6. CASE words[k].t \in {"assign", "word"}
    <3>1. \A null \in BOOLEAN : f[<<k, null>>] = EnvEnd(k, null)
      BY <1>3, <2>6, <2>a, Zenon
    <3>2. O(k) = k
      BY <1>2, <1>4, <2>6 DEF Dashed
    <3> QED
      BY <3>1, <3>2
  <2> QED
    BY <1>5, <2>1, <2>2, <2>3, <2>4, <2>5, <2>6
<1>8. 1 \in G
  <2>1. Len(words) \in Nat /\ 1 \in Nat \ {0}
    OBVIOUS
  <2> HIDE DEF G
  <2>2. \A k \in Nat \ {0} : k \in G
    BY <1>6, <1>7, <2>1, CountingDown
  <2> QED
    BY <2>1, <2>2
<1>9. RunsAt("env", words, r) = Existing(words, AfterAssignments(words, O(1)))
  BY EnvRunsAt DEF O
<1>10. ~EnvOptions(words).opaque /\ EnvOptions(words).at = O(1) /\ O(1) \in Nat \ {0}
  <2>1. EnvOptions(words) # EnvOpaque
    <3>1. EnvOpaque.opaque
      BY DEF EnvOpaque
    <3>2. EnvOptions(words).opaque => EnvInvocation(words) = [kind |-> "opaque", at |-> 0]
      BY DEF EnvInvocation
    <3> QED
      BY <3>1, <3>2
  <2>2. PICK n \in BOOLEAN : EnvOptions(words) = EnvEnd(O(1), n)
    BY <1>1, <1>8, <2>1
  <2> QED
    BY <1>8, <2>2 DEF EnvEnd
<1>11. AfterAssignments(words, O(1)) \in Nat
  BY <1>10, AssignmentsEnd
<1> QED
  BY <1>9, <1>10, <1>11 DEF EnvInvocation, Existing

LEMMA FindsOn ==
  ASSUME NEW words, NEW f, FindsFrom(f, words), NEW k \in Nat
  PROVE  /\ k > Len(words) => f[k] = {}
         /\ ~(k > Len(words)) /\ words[k].t # "-exec" => f[k] = f[k + 1]
         /\ ~(k > Len(words)) /\ words[k].t = "-exec" =>
              /\ f[FindEnd(words, k + 1) + 1] \subseteq f[k]
              /\ FindEnd(words, k + 1) > k + 1 =>
                   <<k + 1, FindEnd(words, k + 1) - 1>> \in f[k]
<1>1. f[k] = IF k > Len(words) THEN {}
             ELSE IF words[k].t # "-exec" THEN f[k + 1]
             ELSE LET e == FindEnd(words, k + 1) IN
                  (IF e > k + 1 THEN {<<k + 1, e - 1>>} ELSE {}) \cup f[e + 1]
  BY Zenon DEF FindsFrom
<1> QED
  BY <1>1, Zenon

FirstEnd(words, k) == CHOOSE j \in RunEnds(words, k) : \A m \in RunEnds(words, k) : j <= m
LEMMA RunsOn ==
  ASSUME NEW words, NEW f, RunsFrom(f, words), NEW k \in Nat
  PROVE  /\ k > Len(words) => f[k] = {}
         /\ ~(k > Len(words)) /\ words[k].t # "-exec" => f[k] = f[k + 1]
         /\ ~(k > Len(words)) /\ words[k].t = "-exec" =>
              IF RunEnds(words, k) = {} THEN f[k] = {}
              ELSE f[k] = {<<k + 1, FirstEnd(words, k) - 1>>} \cup f[FirstEnd(words, k) + 1]
<1>1. f[k] = IF k > Len(words) THEN {}
             ELSE IF words[k].t # "-exec" THEN f[k + 1]
             ELSE IF RunEnds(words, k) = {} THEN {}
             ELSE {<<k + 1, FirstEnd(words, k) - 1>>} \cup f[FirstEnd(words, k) + 1]
  BY Zenon DEF RunsFrom, FirstEnd
<1> QED
  BY <1>1, Zenon

\* Where find ends a command, longline has ended it, and goes on from there.
LEMMA FindKeepsUp ==
  ASSUME NEW words, Len(words) \in Nat, NEW f, FindsFrom(f, words),
         NEW i \in Nat \ {0}, NEW e \in i..Len(words), IsEnd(words, e)
  PROVE  f[e + 1] \subseteq f[i]
<1> DEFINE G == {j \in Nat : j >= i /\ j <= e => f[e + 1] \subseteq f[j]}
<1>1. \A j \in Nat : j > Len(words) => j \in G
  OBVIOUS
<1>2. ASSUME NEW j \in 1..Len(words), \A k \in Nat : k > j => k \in G
      PROVE  j \in G
  <2> SUFFICES ASSUME j >= i /\ j <= e PROVE f[e + 1] \subseteq f[j]
    OBVIOUS
  <2>0. j \in Nat /\ ~(j > Len(words))
    OBVIOUS
  <2>1. \A k \in Nat : k > j /\ k <= e => f[e + 1] \subseteq f[k]
    BY <1>2
  <2>2. CASE words[j].t # "-exec"
    <3>1. f[j] = f[j + 1]
      BY <2>0, <2>2, FindsOn
    <3>2. CASE j = e
      BY <3>1, <3>2
    <3>3. CASE j # e
      BY <2>1, <3>1, <3>3
    <3> QED
      BY <3>2, <3>3
  <2>3. CASE words[j].t = "-exec"
    <3> DEFINE d == FindEnd(words, j + 1)
    <3>1. j < e
      <4>1. words[e].t # "-exec"
        BY DEF IsEnd
      <4> QED
        BY <2>3, <4>1
    <3>2. d \in Nat /\ d <= e /\ d >= j + 1
      <4>1. /\ d \in Nat
            /\ \A k \in (j + 1)..Len(words) : k < d => ~IsEnd(words, k)
            /\ d = Len(words) + 1 \/ j + 1 <= d
        BY FindEnds, SMTT(30)
      <4> HIDE DEF d
      <4> QED
        BY <3>1, <4>1
    <3>3. f[d + 1] \subseteq f[j]
      BY <2>0, <2>3, FindsOn
    <3> HIDE DEF d
    <3>4. CASE d = e
      BY <3>3, <3>4
    <3>5. CASE d # e
      <4>1. d + 1 \in Nat /\ d + 1 > j /\ d + 1 <= e
        BY <3>2, <3>5
      <4> QED
        BY <2>1, <3>3, <4>1
    <3> QED
      BY <3>4, <3>5
  <2> QED
    BY <2>2, <2>3
<1>3. i \in G
  <2> HIDE DEF G
  <2> QED
    BY <1>1, <1>2, CountingDown
<1> QED
  BY <1>3

\* A command of find is found, whole or up to a + of its own.
Covers(words, found, run) ==
  /\ found[1] = run[1]
  /\ \/ found = run
     \/ found[2] < run[2] /\ words[found[2] + 1].t = "+"

LEMMA FindFinds ==
  ASSUME NEW words, Len(words) \in Nat
  PROVE  \A run \in FindRuns(words) :
           words[run[1]].t \notin {";", "+"} => \E found \in FindExec(words) : Covers(words, found, run)
<1>1. PICK f : FindsFrom(f, words) /\ FindExec(words) = f[1]
  BY FindScans
<1>2. PICK g : RunsFrom(g, words) /\ FindRuns(words) = g[1]
  BY FindRunsOn
<1> DEFINE Good(k) == \A run \in g[k] : words[run[1]].t \notin {";", "+"} =>
                        \E found \in f[k] : Covers(words, found, run)
           G == {k \in Nat : Good(k)}
<1>3. \A k \in Nat : k > Len(words) => k \in G
  <2>1. \A k \in Nat : k > Len(words) => g[k] = {}
    BY <1>2, RunsOn
  <2> QED
    BY <2>1
<1>4. ASSUME NEW k \in 1..Len(words), \A j \in Nat : j > k => j \in G
      PROVE  k \in G
  <2>0. \A j \in Nat : j > k => Good(j)
    BY <1>4
  <2>00. k \in Nat /\ k + 1 \in Nat /\ k + 1 > k /\ ~(k > Len(words))
    OBVIOUS
  <2> HIDE DEF Good
  <2>1. CASE words[k].t # "-exec"
    <3>1. f[k] = f[k + 1]
      BY <1>1, <2>1, <2>00, FindsOn
    <3>4. g[k] = g[k + 1]
      BY <1>2, <2>1, <2>00, RunsOn
    <3>2. Good(k + 1)
      BY <2>0, <2>00
    <3>3. Good(k)
      BY <3>1, <3>2, <3>4, Zenon DEF Good
    <3> QED
      BY <2>00, <3>3
  <2>2. CASE words[k].t = "-exec" /\ RunEnds(words, k) = {}
    <3>1. g[k] = {}
      BY <1>2, <2>2, <2>00, RunsOn
    <3>2. Good(k)
      BY <3>1 DEF Good
    <3> QED
      BY <2>00, <3>2
  <2>3. CASE words[k].t = "-exec" /\ RunEnds(words, k) # {}
    <3> DEFINE e == FirstEnd(words, k)
               d == FindEnd(words, k + 1)
    <3>1. e \in RunEnds(words, k) /\ \A m \in RunEnds(words, k) : e <= m
      BY <2>3, FirstRunEnds DEF FirstEnd
    <3>2. g[k] = {<<k + 1, e - 1>>} \cup g[e + 1]
      BY <1>2, <2>3, <2>00, RunsOn
    <3> HIDE DEF e
    <3>3. e \in (k + 2)..Len(words) /\ e \in Nat /\ IsEnd(words, e)
      <4>1. e \in (k + 2)..Len(words) /\ Ends(words, e)
        BY <3>1 DEF RunEnds
      <4>2. words[e].t \in {";", "+"}
        BY <4>1 DEF Ends
      <4>3. IsEnd(words, e)
        BY <4>2 DEF IsEnd
      <4>4. e \in Nat
        BY <2>00, <4>1
      <4> QED
        BY <4>1, <4>3, <4>4
    <3>4. f[e + 1] \subseteq f[k]
      <4>1. k \in Nat \ {0} /\ e \in k..Len(words)
        BY <3>3
      <4> QED
        BY <1>1, <3>3, <4>1, FindKeepsUp
    <3>5. /\ d \in Nat
          /\ \A m \in (k + 1)..Len(words) : m < d => ~IsEnd(words, m)
          /\ d = Len(words) + 1 \/ (k + 1 <= d /\ IsEnd(words, d))
      BY FindEnds
    <3>6. d > k + 1 => <<k + 1, d - 1>> \in f[k]
      BY <1>1, <2>3, <2>00, FindsOn
    <3> HIDE DEF d
    <3>7. ASSUME words[k + 1].t \notin {";", "+"}
          PROVE  \E found \in f[k] : Covers(words, found, <<k + 1, e - 1>>)
      <4>1. k + 1 <= d /\ d <= e /\ IsEnd(words, d)
        BY <3>3, <3>5
      <4>2. d # k + 1
        BY <3>7, <4>1 DEF IsEnd
      <4>3. <<k + 1, d - 1>> \in f[k]
        BY <3>5, <3>6, <4>1, <4>2
      <4>4. CASE d = e
        BY <4>3, <4>4 DEF Covers
      <4>5. CASE d # e
        <5>1. d \in (k + 2)..Len(words) /\ ~(e <= d)
          BY <3>3, <3>5, <4>1, <4>2, <4>5
        <5>2. ~Ends(words, d)
          <6>1. d \notin RunEnds(words, k)
            BY <3>1, <5>1
          <6> QED
            BY <5>1, <6>1 DEF RunEnds
        <5>3. words[d].t = "+"
          BY <4>1, <5>2 DEF Ends, IsEnd
        <5>5. (d - 1) + 1 = d /\ d - 1 < e - 1
          BY <3>3, <3>5, <4>1, <4>5
        <5>4. Covers(words, <<k + 1, d - 1>>, <<k + 1, e - 1>>)
          BY <5>3, <5>5 DEF Covers
        <5> QED
          BY <4>3, <5>4
      <4> QED
        BY <4>4, <4>5
    <3>8. Good(e + 1)
      <4>1. e + 1 \in Nat /\ e + 1 > k
        BY <3>3
      <4> QED
        BY <2>0, <4>1
    <3>9. ASSUME NEW run \in g[k], words[run[1]].t \notin {";", "+"}
          PROVE  \E found \in f[k] : Covers(words, found, run)
      <4>1. CASE run \in g[e + 1]
        BY <3>4, <3>8, <3>9, <4>1 DEF Good
      <4>2. CASE run = <<k + 1, e - 1>>
        BY <3>7, <3>9, <4>2
      <4> QED
        BY <3>2, <3>9, <4>1, <4>2
    <3>10. Good(k)
      BY <3>9, Zenon DEF Good
    <3> QED
      BY <2>00, <3>10
  <2> QED
    BY <2>1, <2>2, <2>3
<1>5. 1 \in G
  <2>1. 1 \in Nat \ {0}
    OBVIOUS
  <2> HIDE DEF G
  <2>2. \A k \in Nat \ {0} : k \in G
    BY <1>3, <1>4, CountingDown
  <2> QED
    BY <2>1, <2>2
<1> QED
  BY <1>1, <1>2, <1>5

\* The shell comes to the options after its -c as the scanner does.
LEMMA ShellFinds ==
  ASSUME NEW shell \in DOMAIN Shells, NEW words \in Seq(ShellWords(shell))
  PROVE  \/ ShellRuns(shell, words) = 0
         \/ ShellBody(shell, words).kind = "opaque"
         \/ ShellBody(shell, words).at = ShellRuns(shell, words)
         \/ /\ ShellBody(shell, words).at # 0
            /\ words[ShellBody(shell, words).at].t = "bool"
<1> DEFINE start == Shells[shell].before + 1
           n == Len(words)
<1>0. n \in Nat /\ start \in Nat \ {0}
  BY DEF Shells
<1>1. PICK f : /\ ShellFrom(f, words)
               /\ ShellBody(shell, words) =
                     LET i == f[Shells[shell].before + 1] IN
                     CASE i > Len(words) -> [kind |-> "none", at |-> 0]
                       [] i <= Len(words) /\ words[i].t # "-c" -> OpaqueBody
                       [] i = Len(words) -> OpaqueBody
                       [] OTHER -> IF words[i+1].m \in {"raw", "safe"}
                                   THEN [kind |-> "statement", at |-> i + 1] ELSE OpaqueBody
  BY ShellScans
<1>2. PICK g : /\ ShellReads(g, words)
               /\ ShellRuns(shell, words) = LET run == g[<<Shells[shell].before + 1, FALSE>>]
                                            IN IF run.c THEN run.at ELSE 0
  BY ShellReadsOn
<1>3. \A i \in Nat : f[i] = IF i > n THEN i
                            ELSE IF words[i].t = "value" THEN f[i + 2]
                            ELSE IF words[i].t \in {"bool", "joined"} THEN f[i + 1]
                            ELSE i
  BY <1>1 DEF ShellFrom
<1> DEFINE a(k) == g[<<k, FALSE>>]
           b(k) == g[<<k, TRUE>>]
           Off(k) == [at |-> k, c |-> FALSE]
           On(k) == [at |-> k, c |-> TRUE]
<1>4. ASSUME NEW k \in Nat
      PROVE  a(k) = IF k > n THEN Off(0)
                    ELSE IF words[k].t = "-c" THEN b(k + 1)
                    ELSE IF words[k].t = "value" THEN a(k + 2)
                    ELSE IF words[k].t \in {"bool", "joined", "unknown"} THEN a(k + 1)
                    ELSE Off(k)
  BY <1>2, Zenon DEF ShellReads
<1>5. ASSUME NEW k \in Nat
      PROVE  b(k) = IF k > n THEN On(0)
                    ELSE IF words[k].t = "-c" THEN b(k + 1)
                    ELSE IF words[k].t = "value" THEN b(k + 2)
                    ELSE IF words[k].t \in {"bool", "joined", "unknown"} THEN b(k + 1)
                    ELSE On(k)
  BY <1>2, Zenon DEF ShellReads
<1>a. ShellRuns(shell, words) = IF a(start).c THEN a(start).at ELSE 0
  BY <1>2, Zenon
<1>b. \A k : /\ Off(k).c = FALSE
             /\ On(k).c = TRUE /\ On(k).at = k
  OBVIOUS
<1> DEFINE Good(k) == f[k] \in Nat /\ k <= f[k] /\ a(k) = a(f[k])
           G == {k \in Nat : Good(k)}
<1> HIDE DEF a, b, Off, On, n, start
<1>6. \A k \in Nat : k > n => k \in G
  BY <1>3
<1>7. ASSUME NEW k \in 1..n, \A j \in Nat : j > k => j \in G
      PROVE  k \in G
  <2>0. Good(k + 1) /\ Good(k + 2)
    <3>1. k + 1 \in Nat /\ k + 1 > k /\ k + 2 \in Nat /\ k + 2 > k
      BY <1>0
    <3>2. k + 1 \in G /\ k + 2 \in G
      BY <1>7, <3>1
    <3> QED
      BY <3>2
  <2>00. k \in Nat /\ ~(k > n)
    BY <1>0
  <2>1. CASE words[k].t = "value"
    <3>1. f[k] = f[k + 2] /\ a(k) = a(k + 2)
      BY <1>3, <1>4, <2>1, <2>00
    <3> QED
      BY <2>0, <2>00, <3>1
  <2>2. CASE words[k].t \in {"bool", "joined"}
    <3>1. f[k] = f[k + 1] /\ a(k) = a(k + 1)
      BY <1>3, <1>4, <2>2, <2>00
    <3> QED
      BY <2>0, <2>00, <3>1
  <2>3. CASE words[k].t \notin {"value", "bool", "joined"}
    <3>1. f[k] = k
      BY <1>3, <2>3, <2>00
    <3> QED
      BY <2>00, <3>1
  <2> QED
    BY <2>1, <2>2, <2>3
<1>8. start \in G
  <2> HIDE DEF G
  <2> QED
    BY <1>0, <1>6, <1>7, CountingDown
<1> DEFINE i == f[start]
<1>9. i \in Nat \ {0} /\ a(start) = a(i)
  BY <1>0, <1>8
<1>i. ShellBody(shell, words) =
        CASE i > Len(words) -> [kind |-> "none", at |-> 0]
          [] i <= Len(words) /\ words[i].t # "-c" -> OpaqueBody
          [] i = Len(words) -> OpaqueBody
          [] OTHER -> IF words[i+1].m \in {"raw", "safe"}
                      THEN [kind |-> "statement", at |-> i + 1] ELSE OpaqueBody
  BY <1>1, Zenon DEF start
<1> HIDE DEF i
<1>10. CASE i > n
  <2>1. a(i) = Off(0)
    BY <1>4, <1>9, <1>10
  <2> QED
    BY <1>a, <1>b, <1>9, <2>1
<1>11. CASE i <= n /\ (words[i].t # "-c" \/ i = n)
  <2>1. ShellBody(shell, words) = OpaqueBody
    BY <1>i, <1>9, <1>11 DEF n
  <2> QED
    BY <2>1 DEF OpaqueBody
<1>12. CASE i < n /\ words[i].t = "-c"
  <2>1. ShellBody(shell, words) = IF words[i+1].m \in {"raw", "safe"}
                                  THEN [kind |-> "statement", at |-> i + 1] ELSE OpaqueBody
    BY <1>i, <1>9, <1>12 DEF n
  <2>2. CASE words[i+1].m \notin {"raw", "safe"}
    BY <2>1, <2>2 DEF OpaqueBody
  <2>3. CASE words[i+1].m \in {"raw", "safe"}
    <3>1. ShellBody(shell, words).at = i + 1 /\ i + 1 # 0
      BY <1>9, <2>1, <2>3
    <3>2. words[i+1] \in ShellWords(shell)
      BY <1>9, <1>12 DEF n
    <3>3. words[i+1].t \in {"word", "bool"}
      <4>1. \A w \in ShellWords(shell) : w.m = "plain" \/ w.t \in {"word", "bool"}
        BY DEF ShellWords, Plain
      <4> QED
        BY <2>3, <3>2, <4>1
    <3>4. CASE words[i+1].t = "bool"
      BY <3>1, <3>4
    <3>5. CASE words[i+1].t = "word"
      <4>0. i + 1 \in Nat /\ ~(i + 1 > n) /\ ~(i > n)
        BY <1>0, <1>9, <1>12
      <4>1. a(i) = b(i + 1)
        BY <1>4, <1>9, <1>12, <4>0
      <4>2. b(i + 1) = On(i + 1)
        BY <1>5, <3>5, <4>0
      <4> QED
        BY <1>a, <1>b, <1>9, <3>1, <4>1, <4>2
    <3> QED
      BY <3>3, <3>4, <3>5
  <2> QED
    BY <2>2, <2>3
<1> QED
  BY <1>0, <1>9, <1>10, <1>11, <1>12

\* The words of a line are words of the scan's alphabet.
WordsInv == tool \in Tools /\ argv \in Seq(Words)

THEOREM WordsType == Spec => []WordsInv
<1>1. Init => WordsInv
  BY DEF Init, WordsInv
<1>2. WordsInv /\ [Next]_vars => WordsInv'
  <2> SUFFICES ASSUME WordsInv, [Next]_vars PROVE WordsInv'
    OBVIOUS
  <2>1. CASE Type
    <3>1. tool' = tool
      BY <2>1 DEF Type
    <3>2. Words' = Words
      BY <3>1 DEF Words, Scan, Name
    <3>3. PICK w \in Words : argv' = Append(argv, w)
      BY <2>1 DEF Type
    <3> QED
      BY <3>1, <3>2, <3>3 DEF WordsInv
  <2>2. CASE UNCHANGED vars
    <3>1. tool' = tool /\ argv' = argv
      BY <2>2 DEF vars
    <3>2. Words' = Words
      BY <3>1 DEF Words, Scan, Name
    <3> QED
      BY <3>1, <3>2 DEF WordsInv
  <2> QED
    BY <2>1, <2>2 DEF Next
<1> QED
  BY <1>1, <1>2, PTL DEF Spec

\* Only the scan for what runs has env, find and xargs to scan.
LEMMA ScansOfTools ==
  ASSUME tool \in Tools
  PROVE  /\ Scan = "wrapper" => Name \in DOMAIN Wrappers /\ Words = WrapperWords(Name)
         /\ Scan = "shell" => Name \in DOMAIN Shells /\ Words = ShellWords(Name)
         /\ Scan = "launcher" => Name \in DOMAIN Launchers /\ Words = LauncherWords(Name)
         /\ Name = "env" => Words = EnvWords
         /\ Name = "find" => Words = FindWords
         /\ Name = "xargs" => Words = XargsWords
<1>0. /\ \A n \in {"env", "find", "xargs"} :
           /\ n \notin DOMAIN Wrappers \cup DOMAIN Shells \cup DOMAIN Launchers
           /\ n \notin Manners \cup Families \cup TextKinds
           /\ n \notin DOMAIN Contexts \cup DOMAIN Requests
  BY DEF Wrappers, Shells, Launchers, Manners, Families, TextKinds, Contexts, Requests
<1>1. Scan = "wrapper" => Name \in DOMAIN Wrappers
  BY DEF Tools, Scan, Name
<1>2. Scan = "shell" => Name \in DOMAIN Shells
  BY DEF Tools, Scan, Name
<1>3. Scan = "launcher" => Name \in DOMAIN Launchers
  BY DEF Tools, Scan, Name
<1>4. Name \in {"env", "find", "xargs"} => Scan = "runs"
  BY <1>0 DEF Tools, Scan, Name
<1>5. \A n \in DOMAIN Wrappers \cup DOMAIN Shells \cup DOMAIN Launchers :
        n \notin {"env", "find", "xargs", "assignments", "read", "printf",
                  "redirects", "overrides", "stages"}
  BY DEF Wrappers, Shells, Launchers
<1>6. Scan = "wrapper" => Words = WrapperWords(Name)
  BY <1>1, <1>5 DEF Words
<1>7. Scan = "shell" => Words = ShellWords(Name)
  BY <1>2, <1>5 DEF Words
<1>8. Scan = "launcher" => Words = LauncherWords(Name)
  BY <1>3, <1>5 DEF Words
<1>9. Name = "env" => Words = EnvWords
  BY <1>4 DEF Words
<1>10. Name = "find" => Words = FindWords
  BY <1>4 DEF Words
<1>11. Name = "xargs" => Words = XargsWords
  BY <1>4 DEF Words
<1> QED
  BY <1>1, <1>2, <1>3, <1>6, <1>7, <1>8, <1>9, <1>10, <1>11

LEMMA LinesFindWhatRuns == WordsInv => WhatRunsIsFound
<1> SUFFICES ASSUME WordsInv PROVE WhatRunsIsFound
  OBVIOUS
<1>0. tool \in Tools /\ argv \in Seq(Words)
  BY DEF WordsInv
<1>n. Len(argv) \in Nat
  BY <1>0
<1>1. Scan = "wrapper" => WrapperRuns
  <2> SUFFICES ASSUME Scan = "wrapper" PROVE WrapperRuns
    OBVIOUS
  <2>1. Name \in DOMAIN Wrappers /\ argv \in Seq(WrapperWords(Name))
    BY <1>0, ScansOfTools
  <2> QED
    BY <2>1, WrapperFinds DEF WrapperRuns, NeverPast
<1>2. Scan = "launcher" => LauncherRuns
  <2> SUFFICES ASSUME Scan = "launcher" PROVE LauncherRuns
    OBVIOUS
  <2>1. Name \in DOMAIN Launchers /\ argv \in Seq(LauncherWords(Name))
    BY <1>0, ScansOfTools
  <2> QED
    BY <2>1, LauncherFinds DEF LauncherRuns, AlwaysRight
<1>3. Scan = "shell" => ShellRunsBody
  <2> SUFFICES ASSUME Scan = "shell" PROVE ShellRunsBody
    OBVIOUS
  <2>1. Name \in DOMAIN Shells /\ argv \in Seq(ShellWords(Name))
    BY <1>0, ScansOfTools
  <2> QED
    BY <2>1, ShellFinds DEF ShellRunsBody
<1>4. Name = "env" => EnvRuns
  <2> SUFFICES ASSUME Name = "env" PROVE EnvRuns
    OBVIOUS
  <2>1. argv \in Seq(EnvWords)
    BY <1>0, ScansOfTools
  <2> QED
    BY <2>1, EnvFinds DEF EnvRuns, AlwaysRight
<1>5. Name = "find" => FindRunsAll
  BY <1>n, FindFinds DEF FindRunsAll, Covers
<1>6. Name = "xargs" => XargsRuns
  <2> SUFFICES ASSUME Name = "xargs" PROVE XargsRuns
    OBVIOUS
  <2>1. argv \in Seq(XargsWords)
    BY <1>0, ScansOfTools
  <2> QED
    BY <2>1, XargsFinds DEF XargsRuns, NeverPast
<1> QED
  BY <1>1, <1>2, <1>3, <1>4, <1>5, <1>6 DEF WhatRunsIsFound

THEOREM NothingThatRunsIsMissed == Spec => []WhatRunsIsFound
BY WordsType, LinesFindWhatRuns, PTL

-----------------------------------------------------------------------------
(* git's globals, and the rules about what is in effect. *)

\* A word before others.
LEMMA Joined ==
  ASSUME NEW X, NEW x \in X, NEW s \in Seq(X)
  PROVE  /\ <<x>> \o s \in Seq(X)
         /\ Len(<<x>> \o s) = Len(s) + 1
         /\ (<<x>> \o s)[1] = x
         /\ \A i \in 1..Len(s) : (<<x>> \o s)[i + 1] = s[i]
         /\ ToSet(<<x>> \o s) = {x} \cup ToSet(s)
<1> DEFINE t == <<x>> \o s
<1>1. t \in Seq(X) /\ Len(t) = Len(s) + 1 /\ t[1] = x
  OBVIOUS
<1>2. \A i \in 1..Len(s) : t[i + 1] = s[i]
  OBVIOUS
<1>3. DOMAIN t = 1..(Len(s) + 1) /\ DOMAIN s = 1..Len(s) /\ Len(s) \in Nat
  OBVIOUS
<1> HIDE DEF t
<1>4. ToSet(t) = {x} \cup ToSet(s)
  <2>1. ASSUME NEW i \in 1..(Len(s) + 1) PROVE t[i] \in {x} \cup ToSet(s)
    <3>1. CASE i = 1
      BY <1>1, <3>1
    <3>2. CASE i # 1
      <4>1. i - 1 \in 1..Len(s) /\ (i - 1) + 1 = i
        BY <1>3, <3>2
      <4>2. t[i] = s[i - 1]
        BY <1>2, <4>1
      <4> QED
        BY <1>3, <4>1, <4>2 DEF ToSet
    <3> QED
      BY <3>1, <3>2
  <2>2. x \in ToSet(t)
    <3>1. 1 \in DOMAIN t
      BY <1>3
    <3> QED
      BY <1>1, <3>1 DEF ToSet
  <2>3. ASSUME NEW i \in 1..Len(s) PROVE s[i] \in ToSet(t)
    <3>1. i + 1 \in DOMAIN t
      BY <1>3
    <3> QED
      BY <1>2, <3>1 DEF ToSet
  <2> QED
    BY <1>3, <2>1, <2>2, <2>3 DEF ToSet
<1> QED
  BY <1>1, <1>2, <1>4 DEF t

\* The globals of git from a word on, and where they end.
Kinds == {"-c", "--config-env", "-C", "joined", "bool", "unknown"}
OperandAt(words, i) == IF i < Len(words) THEN words[i+1] ELSE NoOperand
WithGlobal(kind, operand, rest) ==
  [rest EXCEPT !.globals = <<[kind |-> kind, operand |-> operand]>> \o @]
GitFrom(f, words) ==
  \A i \in Nat : f[i] =
    IF i > Len(words) THEN [globals |-> << >>, at |-> Len(words) + 1]
    ELSE IF words[i].t = "--" THEN [globals |-> << >>, at |-> i + 1]
    ELSE IF words[i].t \in {"-c", "--config-env", "-C"}
         THEN WithGlobal(words[i].t, OperandAt(words, i), f[i + 2])
    ELSE IF words[i].t = "--git-dir=" THEN WithGlobal("joined", words[i], f[i + 1])
    ELSE IF words[i].t = "--no-pager" THEN WithGlobal("bool", words[i], f[i + 1])
    ELSE IF words[i].t \in {"-x", "-df", "-m", "--with"}
         THEN WithGlobal("unknown", words[i], f[i + 1])
    ELSE [globals |-> << >>, at |-> i]

Operands0(words) == {NoOperand} \cup {words[i] : i \in Nat}
Invocations(words) ==
  [globals : Seq([kind : Kinds, operand : Operands0(words)]), at : Nat]

LEMMA GlobalAdded ==
  ASSUME NEW words, NEW kind \in Kinds, NEW operand \in Operands0(words),
         NEW rest \in Invocations(words)
  PROVE  /\ WithGlobal(kind, operand, rest) \in Invocations(words)
         /\ WithGlobal(kind, operand, rest).at = rest.at
         /\ ToSet(WithGlobal(kind, operand, rest).globals) =
              {[kind |-> kind, operand |-> operand]} \cup ToSet(rest.globals)
<1> DEFINE G == [kind : Kinds, operand : Operands0(words)]
           g == [kind |-> kind, operand |-> operand]
           new == <<g>> \o rest.globals
<1>1. g \in G /\ rest.globals \in Seq(G) /\ rest.at \in Nat
  BY DEF Invocations
<1>2. WithGlobal(kind, operand, rest) = [globals |-> new, at |-> rest.at]
  <2>1. rest = [globals |-> rest.globals, at |-> rest.at]
    BY DEF Invocations
  <2>2. \A a, b, c : [[globals |-> a, at |-> b] EXCEPT !.globals = c] = [globals |-> c, at |-> b]
    OBVIOUS
  <2>3. WithGlobal(kind, operand, rest) = [rest EXCEPT !.globals = new]
    BY Zenon DEF WithGlobal
  <2> HIDE DEF new
  <2> QED
    BY <2>1, <2>2, <2>3
<1>3. new \in Seq(G) /\ ToSet(new) = {g} \cup ToSet(rest.globals)
  <2> HIDE DEF G, g
  <2> QED
    BY <1>1, Joined
<1> HIDE DEF new
<1> QED
  BY <1>1, <1>2, <1>3 DEF Invocations

LEMMA GitScans ==
  ASSUME NEW words, Len(words) \in Nat
  PROVE  \E f : GitFrom(f, words) /\ GitInvocation(words) = f[1]
<1> DEFINE Operand(i) == IF i < Len(words) THEN words[i+1] ELSE NoOperand
           With(kind, operand, rest) ==
             [rest EXCEPT !.globals = <<[kind |-> kind, operand |-> operand]>> \o @]
           Eq(F) == F = [i \in Nat |->
    IF i > Len(words) THEN [globals |-> << >>, at |-> Len(words) + 1]
    ELSE IF words[i].t = "--" THEN [globals |-> << >>, at |-> i + 1]
    ELSE IF words[i].t \in {"-c", "--config-env", "-C"}
         THEN With(words[i].t, Operand(i), F[i + 2])
    ELSE IF words[i].t = "--git-dir=" THEN With("joined", words[i], F[i + 1])
    ELSE IF words[i].t = "--no-pager" THEN With("bool", words[i], F[i + 1])
    ELSE IF words[i].t \in {"-x", "-df", "-m", "--with"}
         THEN With("unknown", words[i], F[i + 1])
    ELSE [globals |-> << >>, at |-> i]]
           Two == {"-c", "--config-env", "-C"}
           One == {"--git-dir=", "--no-pager", "-x", "-df", "-m", "--with"}
           stops == {k \in Nat : k > Len(words) \/ words[k].t \notin Two \cup One}
           out == [k \in Nat |->
             IF k > Len(words) THEN [globals |-> << >>, at |-> Len(words) + 1]
             ELSE IF words[k].t = "--" THEN [globals |-> << >>, at |-> k + 1]
             ELSE [globals |-> << >>, at |-> k]]
           next == [k \in Nat |-> IF words[k].t \in Two THEN k + 2 ELSE k + 1]
           Kind(k) == IF words[k].t \in Two THEN words[k].t
                      ELSE IF words[k].t = "--git-dir=" THEN "joined"
                      ELSE IF words[k].t = "--no-pager" THEN "bool" ELSE "unknown"
           Took(k) == IF words[k].t \in Two THEN OperandAt(words, k) ELSE words[k]
           step == [k \in Nat |-> [a \in Invocations(words) |-> WithGlobal(Kind(k), Took(k), a)]]
<1>1. stops \in SUBSET Nat /\ \A k \in Nat : k > Len(words) => k \in stops
  OBVIOUS
<1>2. \A k \in stops : out[k] \in Invocations(words)
  BY DEF Invocations
<1>3. ASSUME NEW k \in Nat
      PROVE  Kind(k) \in Kinds /\ Took(k) \in Operands0(words)
  BY DEF Kinds, Operands0, OperandAt
<1>4. ASSUME NEW k \in Nat \ stops
      PROVE  next[k] \in Nat /\ next[k] > k /\ step[k] \in [Invocations(words) -> Invocations(words)]
  <2>1. next[k] \in Nat /\ next[k] > k
    OBVIOUS
  <2>2. \A a \in Invocations(words) : WithGlobal(Kind(k), Took(k), a) \in Invocations(words)
    <3>1. Kind(k) \in Kinds /\ Took(k) \in Operands0(words)
      BY <1>3
    <3> HIDE DEF Kind, Took
    <3> QED
      BY <3>1, GlobalAdded
  <2> HIDE DEF Kind, Took
  <2> QED
    BY <2>1, <2>2
<1>5. PICK f \in [Nat -> Invocations(words)] : Unwinds(f, Nat, stops, out, next, step)
  <2> HIDE DEF stops, out, next, step
  <2> QED
    BY <1>1, <1>2, <1>4, Scanning
<1>6. ASSUME NEW i \in Nat
      PROVE  f[i] =
    IF i > Len(words) THEN [globals |-> << >>, at |-> Len(words) + 1]
    ELSE IF words[i].t = "--" THEN [globals |-> << >>, at |-> i + 1]
    ELSE IF words[i].t \in {"-c", "--config-env", "-C"}
         THEN With(words[i].t, Operand(i), f[i + 2])
    ELSE IF words[i].t = "--git-dir=" THEN With("joined", words[i], f[i + 1])
    ELSE IF words[i].t = "--no-pager" THEN With("bool", words[i], f[i + 1])
    ELSE IF words[i].t \in {"-x", "-df", "-m", "--with"}
         THEN With("unknown", words[i], f[i + 1])
    ELSE [globals |-> << >>, at |-> i]
  <2>1. f[i] = IF i \in stops THEN out[i] ELSE step[i][f[next[i]]]
    BY <1>5 DEF Unwinds
  <2>2. CASE i \in stops
    BY <2>1, <2>2
  <2>3. CASE i \notin stops
    <3>1. next[i] \in Nat /\ f[next[i]] \in Invocations(words)
      BY <1>4, <2>3
    <3>2. f[i] = WithGlobal(Kind(i), Took(i), f[next[i]])
      <4> HIDE DEF Kind, Took, next, stops
      <4> QED
        BY <2>1, <2>3, <3>1
    <3>3. ~(i > Len(words)) /\ words[i].t \in Two \cup One
      BY <2>3
    <3>4. f[i] = With(Kind(i), Took(i), f[next[i]])
      BY <3>2 DEF WithGlobal
    <3> HIDE DEF With
    <3> QED
      BY <3>3, <3>4 DEF OperandAt
  <2> QED
    BY <2>2, <2>3
<1>7. Eq(f)
  <2> DEFINE h == [i \in Nat |->
    IF i > Len(words) THEN [globals |-> << >>, at |-> Len(words) + 1]
    ELSE IF words[i].t = "--" THEN [globals |-> << >>, at |-> i + 1]
    ELSE IF words[i].t \in {"-c", "--config-env", "-C"}
         THEN With(words[i].t, Operand(i), f[i + 2])
    ELSE IF words[i].t = "--git-dir=" THEN With("joined", words[i], f[i + 1])
    ELSE IF words[i].t = "--no-pager" THEN With("bool", words[i], f[i + 1])
    ELSE IF words[i].t \in {"-x", "-df", "-m", "--with"}
         THEN With("unknown", words[i], f[i + 1])
    ELSE [globals |-> << >>, at |-> i]]
  <2> HIDE DEF With, Operand
  <2>1. \A i \in Nat : h[i] = f[i]
    BY <1>6
  <2>2. h = [i \in Nat |-> h[i]] /\ f = [i \in Nat |-> f[i]]
    OBVIOUS
  <2>3. f = h
    <3> HIDE DEF h
    <3> QED
      BY <2>1, <2>2
  <2> QED
    BY <2>3
<1> DEFINE g == CHOOSE F : Eq(F)
<1>8. Eq(g)
  <2> HIDE DEF Eq
  <2> QED
    BY <1>7
<1>9. GitInvocation(words) = g[1]
  BY DEF GitInvocation
<1> HIDE DEF g
<1>10. GitFrom(g, words)
  BY <1>8 DEF GitFrom, WithGlobal, OperandAt
<1> QED
  BY <1>9, <1>10

LEMMA GitTyped ==
  ASSUME NEW words, Len(words) \in Nat, NEW f, GitFrom(f, words)
  PROVE  \A k \in Nat \ {0} : f[k] \in Invocations(words)
<1> DEFINE G == {k \in Nat : f[k] \in Invocations(words)}
<1>0. ASSUME NEW k \in Nat
      PROVE f[k] =
    IF k > Len(words) THEN [globals |-> << >>, at |-> Len(words) + 1]
    ELSE IF words[k].t = "--" THEN [globals |-> << >>, at |-> k + 1]
    ELSE IF words[k].t \in {"-c", "--config-env", "-C"}
         THEN WithGlobal(words[k].t, OperandAt(words, k), f[k + 2])
    ELSE IF words[k].t = "--git-dir=" THEN WithGlobal("joined", words[k], f[k + 1])
    ELSE IF words[k].t = "--no-pager" THEN WithGlobal("bool", words[k], f[k + 1])
    ELSE IF words[k].t \in {"-x", "-df", "-m", "--with"}
         THEN WithGlobal("unknown", words[k], f[k + 1])
    ELSE [globals |-> << >>, at |-> k]
  BY DEF GitFrom
<1>e. \A k \in Nat : [globals |-> << >>, at |-> k] \in Invocations(words)
  BY DEF Invocations
<1>f. [globals |-> << >>, at |-> Len(words) + 1] \in Invocations(words)
  BY <1>e, Len(words) + 1 \in Nat
<1>1. \A k \in Nat : k > Len(words) => k \in G
  <2>1. ASSUME NEW k \in Nat, k > Len(words) PROVE f[k] \in Invocations(words)
    BY <1>0, <1>f, <2>1
  <2> QED
    BY <2>1
<1>2. ASSUME NEW k \in 1..Len(words), \A j \in Nat : j > k => j \in G
      PROVE  k \in G
  <2>1. f[k + 1] \in Invocations(words) /\ f[k + 2] \in Invocations(words)
    <3>1. k + 1 \in G /\ k + 2 \in G
      BY <1>2
    <3> QED
      BY <3>1
  <2>2. words[k] \in Operands0(words) /\ OperandAt(words, k) \in Operands0(words)
    BY DEF Operands0, OperandAt
  <2>3. \A kind \in Kinds, operand \in Operands0(words), rest \in Invocations(words) :
          WithGlobal(kind, operand, rest) \in Invocations(words)
    BY GlobalAdded
  <2>4. k \in Nat /\ k + 1 \in Nat /\ ~(k > Len(words))
    OBVIOUS
  <2>5. f[k] \in Invocations(words)
    <3>1. words[k].t \in {"-c", "--config-env", "-C"} =>
            WithGlobal(words[k].t, OperandAt(words, k), f[k + 2]) \in Invocations(words)
      BY <2>1, <2>2, <2>3 DEF Kinds
    <3>2. \A kind \in {"joined", "bool", "unknown"} :
            WithGlobal(kind, words[k], f[k + 1]) \in Invocations(words)
      BY <2>1, <2>2, <2>3 DEF Kinds
    <3>3. /\ [globals |-> << >>, at |-> k + 1] \in Invocations(words)
          /\ [globals |-> << >>, at |-> k] \in Invocations(words)
      BY <1>e, <2>4
    <3> QED
      BY <1>0, <2>4, <3>1, <3>2, <3>3
  <2> QED
    BY <2>4, <2>5
<1> HIDE DEF G
<1>3. \A k \in Nat \ {0} : k \in G
  BY <1>1, <1>2, CountingDown
<1> QED
  BY <1>3 DEF G

\* What each word does to the globals.
Adds(words, new, kind, operand, rest) ==
  /\ new.at = rest.at
  /\ ToSet(new.globals) = {[kind |-> kind, operand |-> operand]} \cup ToSet(rest.globals)

LEMMA GitGoes ==
  ASSUME NEW words, Len(words) \in Nat, NEW f, GitFrom(f, words), NEW k \in Nat \ {0}
  PROVE  /\ k > Len(words) => f[k] = [globals |-> << >>, at |-> Len(words) + 1]
         /\ ~(k > Len(words)) =>
              /\ words[k].t = "--" => f[k] = [globals |-> << >>, at |-> k + 1]
              /\ words[k].t \in {"-c", "--config-env", "-C"} =>
                   Adds(words, f[k], words[k].t, OperandAt(words, k), f[k + 2])
              /\ words[k].t = "--git-dir=" => Adds(words, f[k], "joined", words[k], f[k + 1])
              /\ words[k].t = "--no-pager" => Adds(words, f[k], "bool", words[k], f[k + 1])
              /\ words[k].t \in {"-x", "-df", "-m", "--with"} =>
                   Adds(words, f[k], "unknown", words[k], f[k + 1])
              /\ words[k].t \notin FlagTexts => f[k] = [globals |-> << >>, at |-> k]
<1>0. f[k] =
    IF k > Len(words) THEN [globals |-> << >>, at |-> Len(words) + 1]
    ELSE IF words[k].t = "--" THEN [globals |-> << >>, at |-> k + 1]
    ELSE IF words[k].t \in {"-c", "--config-env", "-C"}
         THEN WithGlobal(words[k].t, OperandAt(words, k), f[k + 2])
    ELSE IF words[k].t = "--git-dir=" THEN WithGlobal("joined", words[k], f[k + 1])
    ELSE IF words[k].t = "--no-pager" THEN WithGlobal("bool", words[k], f[k + 1])
    ELSE IF words[k].t \in {"-x", "-df", "-m", "--with"}
         THEN WithGlobal("unknown", words[k], f[k + 1])
    ELSE [globals |-> << >>, at |-> k]
  BY DEF GitFrom
<1>1. f[k + 1] \in Invocations(words) /\ f[k + 2] \in Invocations(words)
  BY GitTyped
<1>2. words[k] \in Operands0(words) /\ OperandAt(words, k) \in Operands0(words)
  BY DEF Operands0, OperandAt
<1>3. \A kind \in Kinds, operand \in Operands0(words), rest \in Invocations(words) :
        Adds(words, WithGlobal(kind, operand, rest), kind, operand, rest)
  BY GlobalAdded DEF Adds
<1> HIDE DEF Adds
<1>4. Kinds = {"-c", "--config-env", "-C", "joined", "bool", "unknown"}
  BY DEF Kinds
<1> QED
  BY <1>0, <1>1, <1>2, <1>3, <1>4 DEF FlagTexts

\* The overrides that git applies, from a word on.
OverridesFrom(f, words, r) ==
  \A i \in Nat : f[i] =
    IF i > Len(words) THEN << >>
    ELSE IF words[i].t = "-c" THEN IF i = Len(words) THEN << >>
                                   ELSE <<words[i+1]>> \o f[i + 2]
    ELSE IF words[i].t \in TakesValue \ {"-c"} \/ i \in r THEN f[i + 2]
    ELSE IF IsFlag(words[i]) /\ words[i].t # "--" THEN f[i + 1]
    ELSE << >>

LEMMA OverrideScans ==
  ASSUME NEW words, Len(words) \in Nat, NEW r
  PROVE  \E f : OverridesFrom(f, words, r) /\ GitOverrides(words, r) = f[1]
<1> DEFINE Eq(F) == F = [i \in Nat |->
    IF i > Len(words) THEN << >>
    ELSE IF words[i].t = "-c" THEN IF i = Len(words) THEN << >>
                                   ELSE <<words[i+1]>> \o F[i + 2]
    ELSE IF words[i].t \in TakesValue \ {"-c"} \/ i \in r THEN F[i + 2]
    ELSE IF IsFlag(words[i]) /\ words[i].t # "--" THEN F[i + 1]
    ELSE << >>]
           A == Seq({words[i] : i \in Nat})
           Value(i) == words[i].t \in TakesValue \ {"-c"} \/ i \in r
           Flag(i) == IsFlag(words[i]) /\ words[i].t # "--"
           stops == {k \in Nat : \/ k > Len(words)
                                 \/ words[k].t = "-c" /\ k = Len(words)
                                 \/ words[k].t # "-c" /\ ~Value(k) /\ ~Flag(k)}
           out == [k \in Nat |-> << >>]
           next == [k \in Nat |-> IF words[k].t = "-c" \/ Value(k) THEN k + 2 ELSE k + 1]
           step == [k \in Nat |-> [a \in A |-> IF words[k].t = "-c" THEN <<words[k + 1]>> \o a
                                               ELSE a]]
<1>1. stops \in SUBSET Nat /\ \A k \in Nat : k > Len(words) => k \in stops
  OBVIOUS
<1>2. \A k \in stops : out[k] \in A
  OBVIOUS
<1>4. ASSUME NEW k \in Nat \ stops
      PROVE  next[k] \in Nat /\ next[k] > k /\ step[k] \in [A -> A]
  <2>1. next[k] \in Nat /\ next[k] > k
    OBVIOUS
  <2>2. words[k + 1] \in {words[i] : i \in Nat}
    OBVIOUS
  <2>3. \A a \in A : <<words[k + 1]>> \o a \in A
    BY <2>2, Joined
  <2> HIDE DEF A
  <2> QED
    BY <2>1, <2>3
<1>5. PICK f \in [Nat -> A] : Unwinds(f, Nat, stops, out, next, step)
  <2> HIDE DEF stops, out, next, step, A
  <2> QED
    BY <1>1, <1>2, <1>4, Scanning
<1>6. ASSUME NEW i \in Nat
      PROVE  f[i] =
    IF i > Len(words) THEN << >>
    ELSE IF words[i].t = "-c" THEN IF i = Len(words) THEN << >>
                                   ELSE <<words[i+1]>> \o f[i + 2]
    ELSE IF Value(i) THEN f[i + 2]
    ELSE IF Flag(i) THEN f[i + 1]
    ELSE << >>
  <2>1. f[i] = IF i \in stops THEN out[i] ELSE step[i][f[next[i]]]
    BY <1>5 DEF Unwinds
  <2> HIDE DEF Value, Flag
  <2>2. CASE i \in stops
    BY <2>1, <2>2
  <2>3. CASE i \notin stops
    <3>1. next[i] \in Nat /\ f[next[i]] \in A
      BY <1>4, <2>3
    <3>2. f[i] = IF words[i].t = "-c" THEN <<words[i + 1]>> \o f[next[i]] ELSE f[next[i]]
      <4> HIDE DEF next, stops, A
      <4> QED
        BY <2>1, <2>3, <3>1
    <3> QED
      BY <2>3, <3>2
  <2> QED
    BY <2>2, <2>3
<1>7. Eq(f)
  <2> DEFINE h == [i \in Nat |->
    IF i > Len(words) THEN << >>
    ELSE IF words[i].t = "-c" THEN IF i = Len(words) THEN << >>
                                   ELSE <<words[i+1]>> \o f[i + 2]
    ELSE IF words[i].t \in TakesValue \ {"-c"} \/ i \in r THEN f[i + 2]
    ELSE IF IsFlag(words[i]) /\ words[i].t # "--" THEN f[i + 1]
    ELSE << >>]
  <2>1. \A i \in Nat : h[i] = f[i]
    BY <1>6
  <2>2. h = [i \in Nat |-> h[i]] /\ f = [i \in Nat |-> f[i]]
    OBVIOUS
  <2>3. f = h
    <3> HIDE DEF h
    <3> QED
      BY <2>1, <2>2
  <2> QED
    BY <2>3
<1> DEFINE g == CHOOSE F : Eq(F)
<1>8. Eq(g)
  <2> HIDE DEF Eq
  <2> QED
    BY <1>7
<1>9. GitOverrides(words, r) = g[1]
  BY DEF GitOverrides
<1> HIDE DEF g
<1>10. OverridesFrom(g, words, r)
  BY <1>8 DEF OverridesFrom
<1> QED
  BY <1>9, <1>10

\* What holds last is one of the words that set a key.
LEMMA EffectiveIsGiven ==
  ASSUME NEW words, Len(words) \in Nat, NEW w \in Effective(words)
  PROVE  \E i \in 1..Len(words) : w = words[i] /\ HasKey(w.t)
<1> DEFINE I == {i \in 1..Len(words) : HasKey(words[i].t)}
           at == SelectLastInSeq(words, LAMBDA v : HasKey(v.t))
<1>1. at = IF I # {} THEN Max(I) ELSE 0
  BY DEF SelectLastInSeq
<1>2. at # 0 /\ w = words[at]
  BY DEF Effective
<1>3. I # {} /\ at = Max(I)
  BY <1>1, <1>2
<1>4. Max(I) \in I
  <2>1. I \subseteq 1..Len(words)
    OBVIOUS
  <2> HIDE DEF I
  <2> QED
    BY <1>3, <2>1, Extremes
<1> QED
  BY <1>2, <1>3, <1>4

\* Without unknown flags, longline sees each override that git applies.
LEMMA OverridesSeen ==
  ASSUME NEW words \in Seq(FamilyWords("git")), NEW r \in Guesses(words, Len(words)),
         \A g \in ToSet(GitInvocation(words).globals) : g.kind # "unknown"
  PROVE  /\ Len(GitOverrides(words, r)) \in Nat
         /\ \A i \in 1..Len(GitOverrides(words, r)) :
              [kind |-> "-c", operand |-> GitOverrides(words, r)[i]]
                \in ToSet(GitInvocation(words).globals)
<1> DEFINE V == {words[i] : i \in Nat}
<1>0. Len(words) \in Nat
  OBVIOUS
<1>1. PICK f : GitFrom(f, words) /\ GitInvocation(words) = f[1]
  BY <1>0, GitScans
<1>2. PICK o : OverridesFrom(o, words, r) /\ GitOverrides(words, r) = o[1]
  BY <1>0, OverrideScans
<1> DEFINE Known(k) == \A g \in ToSet(f[k].globals) : g.kind # "unknown"
           Seen(k) == /\ o[k] \in Seq(V)
                      /\ \A w \in ToSet(o[k]) : [kind |-> "-c", operand |-> w] \in ToSet(f[k].globals)
           G == {k \in Nat : Known(k) => Seen(k)}
<1>3. ASSUME NEW k \in Nat
      PROVE  o[k] = IF k > Len(words) THEN << >>
                    ELSE IF words[k].t = "-c" THEN IF k = Len(words) THEN << >>
                                                   ELSE <<words[k+1]>> \o o[k + 2]
                    ELSE IF words[k].t \in TakesValue \ {"-c"} \/ k \in r THEN o[k + 2]
                    ELSE IF IsFlag(words[k]) /\ words[k].t # "--" THEN o[k + 1]
                    ELSE << >>
  BY <1>2 DEF OverridesFrom
<1>4. \A k \in r : words[k].t \in {"-x", "-df"}
  BY DEF Guesses
<1>5. ASSUME NEW k \in Nat, o[k] = << >> PROVE Seen(k)
  BY <1>5 DEF ToSet
<1>6. \A k \in Nat : k > Len(words) => k \in G
  BY <1>3, <1>5
<1>7. ASSUME NEW k \in 1..Len(words), \A j \in Nat : j > k => j \in G
      PROVE  k \in G
  <2>0. (Known(k + 1) => Seen(k + 1)) /\ (Known(k + 2) => Seen(k + 2))
    <3>0. k + 1 \in Nat /\ k + 1 > k /\ k + 2 \in Nat /\ k + 2 > k
      OBVIOUS
    <3>1. k + 1 \in G /\ k + 2 \in G
      <4> HIDE DEF G
      <4> QED
        BY <1>7, <3>0
    <3> HIDE DEF Known, Seen
    <3> QED
      BY <3>1
  <2>00. k \in Nat \ {0} /\ k \in Nat /\ ~(k > Len(words))
    OBVIOUS
  <2> SUFFICES ASSUME Known(k) PROVE Seen(k)
    OBVIOUS
  <2>1. CASE words[k].t = "-c"
    <3>1. Adds(words, f[k], "-c", OperandAt(words, k), f[k + 2])
      BY <1>0, <1>1, <2>00, <2>1, GitGoes, ZenonT(30)
    <3>2. Seen(k + 2)
      BY <2>0, <3>1 DEF Adds
    <3>3. CASE k = Len(words)
      BY <1>3, <1>5, <2>00, <2>1, <3>3
    <3>4. CASE k # Len(words)
      <4>0. k < Len(words)
        BY <1>0, <2>00, <3>4
      <4>5. OperandAt(words, k) = words[k + 1]
        BY <4>0 DEF OperandAt
      <4>1. o[k] = <<words[k + 1]>> \o o[k + 2] /\ OperandAt(words, k) = words[k + 1]
        BY <1>3, <2>00, <2>1, <3>4, <4>5
      <4>2. words[k + 1] \in V
        OBVIOUS
      <4>3. o[k] \in Seq(V) /\ ToSet(o[k]) = {words[k + 1]} \cup ToSet(o[k + 2])
        <5> HIDE DEF V
        <5> QED
          BY <3>2, <4>1, <4>2, Joined
      <4> QED
        BY <3>1, <3>2, <4>1, <4>3 DEF Adds
    <3> QED
      BY <3>3, <3>4
  <2>2. CASE words[k].t \in {"--config-env", "-C"}
    <3>1. Adds(words, f[k], words[k].t, OperandAt(words, k), f[k + 2])
      BY <1>0, <1>1, <2>00, <2>2, GitGoes
    <3>2. Seen(k + 2)
      BY <2>0, <3>1 DEF Adds
    <3>3. o[k] = o[k + 2]
      BY <1>3, <2>00, <2>2 DEF TakesValue
    <3> QED
      BY <3>1, <3>2, <3>3 DEF Adds
  <2>3. CASE words[k].t \in {"--git-dir=", "--no-pager"}
    <3>1. \E kind \in {"joined", "bool"} : Adds(words, f[k], kind, words[k], f[k + 1])
      BY <1>0, <1>1, <2>00, <2>3, GitGoes
    <3>2. Seen(k + 1)
      BY <2>0, <3>1 DEF Adds
    <3>3. o[k] = o[k + 1]
      BY <1>3, <1>4, <2>00, <2>3 DEF TakesValue, IsFlag, FlagTexts
    <3> QED
      BY <3>1, <3>2, <3>3 DEF Adds
  <2>4. CASE words[k].t \in {"-x", "-df", "-m", "--with"}
    <3>1. Adds(words, f[k], "unknown", words[k], f[k + 1])
      BY <1>0, <1>1, <2>00, <2>4, GitGoes
    <3> QED
      BY <3>1 DEF Adds
  <2>5. CASE words[k].t \notin FlagTexts \/ words[k].t = "--"
    <3>1. o[k] = << >>
      BY <1>3, <1>4, <2>00, <2>5 DEF TakesValue, IsFlag, FlagTexts
    <3> QED
      BY <1>5, <2>00, <3>1
  <2> QED
    BY <2>1, <2>2, <2>3, <2>4, <2>5 DEF FlagTexts
<1>8. Seen(1)
  <2>1. 1 \in Nat \ {0}
    OBVIOUS
  <2> HIDE DEF G
  <2>2. \A k \in Nat \ {0} : k \in G
    BY <1>0, <1>6, <1>7, CountingDown
  <2>3. 1 \in G
    BY <2>1, <2>2
  <2> QED
    BY <1>1, <2>3 DEF G
<1> QED
  BY <1>1, <1>2, <1>8 DEF ToSet

LEMMA GitOverridesMatched ==
  ASSUME NEW words \in Seq(FamilyWords("git")), NEW r \in Guesses(words, Len(words)),
         \E w \in Effective(GitOverrides(words, r)) : ~IsNoOp(w)
  PROVE  GitConfigMatches(words) \/ ~IsAllowlistSafe(words)
<1> DEFINE given == GitOverrides(words, r)
           globals == ToSet(GitInvocation(words).globals)
<1> SUFFICES ASSUME IsAllowlistSafe(words) PROVE GitConfigMatches(words)
  OBVIOUS
<1>1. \A g \in globals : g.kind # "unknown"
  BY DEF IsAllowlistSafe
<1>2. Len(given) \in Nat /\ \A i \in 1..Len(given) : [kind |-> "-c", operand |-> given[i]] \in globals
  BY <1>1, OverridesSeen
<1>3. PICK w \in Effective(given) : ~IsNoOp(w)
  OBVIOUS
<1> HIDE DEF given
<1>4. PICK i \in 1..Len(given) : w = given[i] /\ HasKey(w.t)
  BY <1>2, <1>3, EffectiveIsGiven
<1>5. [kind |-> "-c", operand |-> w] \in globals
  BY <1>2, <1>4
<1> QED
  BY <1>3, <1>4, <1>5 DEF GitConfigMatches

LEMMA EnvOverridesMatched ==
  ASSUME NEW words, Len(words) \in Nat, DOMAIN words = 1..Len(words),
         \E w \in Effective(words) : ~IsNoOp(w)
  PROVE  EnvMatches(words)
BY EffectiveIsGiven DEF EnvMatches, ToSet

\* A pipeline is matched up to a stage by the stages of the rule found so far.
Has(stage, n) == n \in stage.direct \cup stage.inner
StagesFrom(f, stages) ==
  \A i \in Nat : f[i] = IF i = 0 THEN 0
                        ELSE IF Has(stages[i], f[i - 1] + 1) THEN f[i - 1] + 1 ELSE f[i - 1]

LEMMA StageScans ==
  ASSUME NEW stages
  PROVE  \E f : StagesFrom(f, stages) /\ (PipelineMatches(stages) <=> f[Len(stages)] = 2)
<1> DEFINE Eq(F) == F = [i \in Nat |->
             IF i = 0 THEN 0
             ELSE LET found == F[i - 1] IN
                  IF found + 1 \in stages[i].direct \cup stages[i].inner
                  THEN found + 1 ELSE found]
           stops == {0}
           out == [i \in Nat |-> 0]
           next == [i \in Nat |-> i - 1]
           step == [i \in Nat |-> [a \in Nat |-> IF Has(stages[i], a + 1) THEN a + 1 ELSE a]]
           rank == [i \in Nat |-> i]
<1>1. /\ stops \in SUBSET Nat
      /\ \A i \in Nat : rank[i] \in Nat
      /\ \A i \in stops : out[i] \in Nat
      /\ \A i \in Nat \ stops : /\ next[i] \in Nat /\ rank[next[i]] < rank[i]
                                /\ step[i] \in [Nat -> Nat]
  OBVIOUS
<1>2. PICK f \in [Nat -> Nat] : Unwinds(f, Nat, stops, out, next, step)
  <2> HIDE DEF stops, out, next, step, rank
  <2> QED
    BY <1>1, Unwinding
<1>3. ASSUME NEW i \in Nat
      PROVE  f[i] = IF i = 0 THEN 0
                    ELSE IF Has(stages[i], f[i - 1] + 1) THEN f[i - 1] + 1 ELSE f[i - 1]
  <2>1. f[i] = IF i \in stops THEN out[i] ELSE step[i][f[next[i]]]
    BY <1>2 DEF Unwinds
  <2>2. CASE i # 0
    <3>1. i - 1 \in Nat /\ f[i - 1] \in Nat /\ next[i] = i - 1
      BY <2>2
    <3> QED
      BY <2>1, <2>2, <3>1
  <2> QED
    BY <2>1, <2>2
<1>4. Eq(f)
  <2> DEFINE h == [i \in Nat |->
             IF i = 0 THEN 0
             ELSE LET found == f[i - 1] IN
                  IF found + 1 \in stages[i].direct \cup stages[i].inner
                  THEN found + 1 ELSE found]
  <2>1. \A i \in Nat : h[i] = f[i]
    BY <1>3 DEF Has
  <2>2. h = [i \in Nat |-> h[i]] /\ f = [i \in Nat |-> f[i]]
    OBVIOUS
  <2>3. f = h
    <3> HIDE DEF h
    <3> QED
      BY <2>1, <2>2
  <2> QED
    BY <2>3
<1> DEFINE g == CHOOSE F : Eq(F)
<1>5. Eq(g)
  <2> HIDE DEF Eq
  <2> QED
    BY <1>4
<1>6. PipelineMatches(stages) <=> g[Len(stages)] = 2
  BY DEF PipelineMatches
<1> HIDE DEF g
<1>7. StagesFrom(g, stages)
  BY <1>5 DEF StagesFrom, Has
<1> QED
  BY <1>6, <1>7

LEMMA PipelinesMatched ==
  ASSUME NEW stages \in Seq(StageWords)
  PROVE  PipelineMatches(stages) <=>
           \E i, j \in DOMAIN stages : i < j /\ Has(stages[i], 1) /\ Has(stages[j], 2)
<1>0. Len(stages) \in Nat /\ DOMAIN stages = 1..Len(stages)
  OBVIOUS
<1>1. PICK f : StagesFrom(f, stages) /\ (PipelineMatches(stages) <=> f[Len(stages)] = 2)
  BY StageScans
<1>2. ASSUME NEW i \in 1..Len(stages) PROVE ~Has(stages[i], 3)
  <2>1. stages[i] \in StageWords
    BY <1>2
  <2>2. stages[i].direct \subseteq 1..2 /\ stages[i].inner \subseteq 1..2
    BY <2>1 DEF StageWords
  <2> QED
    BY <2>2 DEF Has
<1> DEFINE One(k) == \E i \in 1..k : Has(stages[i], 1)
           Both(k) == \E i, j \in 1..k : i < j /\ Has(stages[i], 1) /\ Has(stages[j], 2)
           Good(k) == /\ f[k] \in 0..2
                      /\ f[k] >= 1 <=> One(k)
                      /\ f[k] = 2 <=> Both(k)
           G == {k \in Nat : Good(k)}
<1>3. 0 \in G
  BY <1>1 DEF StagesFrom
<1>4. ASSUME NEW k \in 0..(Len(stages) - 1), k \in G PROVE k + 1 \in G
  <2>1. k + 1 \in 1..Len(stages) /\ (k + 1) - 1 = k /\ k \in Nat /\ k + 1 \in Nat /\ k + 1 # 0
    BY <1>0
  <2>2. f[k + 1] = IF Has(stages[k + 1], f[k] + 1) THEN f[k] + 1 ELSE f[k]
    BY <1>1, <2>1 DEF StagesFrom
  <2>3. One(k + 1) <=> One(k) \/ Has(stages[k + 1], 1)
    <3>1. 1..(k + 1) = 1..k \cup {k + 1}
      BY <2>1
    <3> QED
      BY <3>1
  <2>4. Both(k + 1) <=> Both(k) \/ (One(k) /\ Has(stages[k + 1], 2))
    <3>1. \A i : i \in 1..(k + 1) <=> i \in 1..k \/ i = k + 1
      BY <2>1
    <3>2. \A i \in 1..k : i < k + 1 /\ ~(k + 1 < i)
      BY <2>1
    <3>3. ~(k + 1 < k + 1)
      BY <2>1
    <3> QED
      BY <3>1, <3>2, <3>3
  <2>5. ~Has(stages[k + 1], 3)
    BY <1>2, <2>1
  <2>6. Both(k) => One(k)
    OBVIOUS
  <2>7. Good(k)
    BY <1>4
  <2> HIDE DEF One, Both
  <2>8. Good(k + 1)
    <3>1. f[k] = 0 \/ f[k] = 1 \/ f[k] = 2
      BY <2>7
    <3> QED
      BY <2>2, <2>3, <2>4, <2>5, <2>6, <2>7, <3>1
  <2> QED
    BY <2>1, <2>8
<1>5. Good(Len(stages))
  <2>1. 0..Len(stages) \subseteq G
    <3> HIDE DEF G
    <3> QED
      BY <1>0, <1>3, <1>4, CountingUp
  <2>2. Len(stages) \in 0..Len(stages)
    BY <1>0
  <2>3. Len(stages) \in G
    <3> HIDE DEF G
    <3> QED
      BY <2>1, <2>2
  <2> QED
    BY <2>3
<1> QED
  BY <1>0, <1>1, <1>5

\* Which scans are tried, and what on.
LEMMA ToolKinds ==
  ASSUME tool \in Tools
  PROVE  \/ Scan = "wrapper" /\ Name \in DOMAIN Wrappers
         \/ Scan = "shell" /\ Name \in DOMAIN Shells
         \/ Scan = "launcher" /\ Name \in DOMAIN Launchers
         \/ Scan = "runs" /\ Name \in {"env", "find", "xargs"}
         \/ Scan \in {"gh", "gh api"} /\ Name \in Manners
         \/ Scan = "set" /\ Name \in {"set", "setopt"}
         \/ Scan = "sets" /\ Name \in {"assignments", "read", "printf"}
         \/ Scan = "rules" /\ Name \in Families
         \/ Scan = "text" /\ Name \in TextKinds
         \/ Scan = "prompt" /\ Name \in DOMAIN Contexts
         \/ Scan = "request" /\ Name \in DOMAIN Requests
         \/ Scan = "lists" /\ Name \in {"redirects", "overrides", "stages"}
<1>1. \A A, B : tool \in A \X B => Scan \in A /\ Name \in B
  BY DEF Scan, Name
<1>2. \/ tool \in {"wrapper"} \X DOMAIN Wrappers
      \/ tool \in {"shell"} \X DOMAIN Shells
      \/ tool \in {"launcher"} \X DOMAIN Launchers
      \/ tool \in {"runs"} \X {"env", "find", "xargs"}
      \/ tool \in {"gh", "gh api"} \X Manners
      \/ tool \in {"set"} \X {"set", "setopt"}
      \/ tool \in {"sets"} \X {"assignments", "read", "printf"}
      \/ tool \in {"rules"} \X Families
      \/ tool \in {"text"} \X TextKinds
      \/ tool \in {"prompt"} \X DOMAIN Contexts
      \/ tool \in {"request"} \X DOMAIN Requests
      \/ tool \in {"lists"} \X {"redirects", "overrides", "stages"}
  BY Zenon DEF Tools
<1>3. CASE tool \in {"wrapper"} \X DOMAIN Wrappers
  <2>1. Scan \in {"wrapper"} /\ Name \in DOMAIN Wrappers
    BY <1>1, <1>3
  <2> QED
    BY <2>1
<1>4. CASE tool \in {"shell"} \X DOMAIN Shells
  <2>1. Scan \in {"shell"} /\ Name \in DOMAIN Shells
    BY <1>1, <1>4
  <2> QED
    BY <2>1
<1>5. CASE tool \in {"launcher"} \X DOMAIN Launchers
  <2>1. Scan \in {"launcher"} /\ Name \in DOMAIN Launchers
    BY <1>1, <1>5
  <2> QED
    BY <2>1
<1>6. CASE tool \in {"runs"} \X {"env", "find", "xargs"}
  <2>1. Scan \in {"runs"} /\ Name \in {"env", "find", "xargs"}
    BY <1>1, <1>6
  <2> QED
    BY <2>1
<1>7. CASE tool \in {"gh", "gh api"} \X Manners
  <2>1. Scan \in {"gh", "gh api"} /\ Name \in Manners
    BY <1>1, <1>7
  <2> QED
    BY <2>1
<1>8. CASE tool \in {"set"} \X {"set", "setopt"}
  <2>1. Scan \in {"set"} /\ Name \in {"set", "setopt"}
    BY <1>1, <1>8
  <2> QED
    BY <2>1
<1>9. CASE tool \in {"sets"} \X {"assignments", "read", "printf"}
  <2>1. Scan \in {"sets"} /\ Name \in {"assignments", "read", "printf"}
    BY <1>1, <1>9
  <2> QED
    BY <2>1
<1>10. CASE tool \in {"rules"} \X Families
  <2>1. Scan \in {"rules"} /\ Name \in Families
    BY <1>1, <1>10
  <2> QED
    BY <2>1
<1>11. CASE tool \in {"text"} \X TextKinds
  <2>1. Scan \in {"text"} /\ Name \in TextKinds
    BY <1>1, <1>11
  <2> QED
    BY <2>1
<1>12. CASE tool \in {"prompt"} \X DOMAIN Contexts
  <2>1. Scan \in {"prompt"} /\ Name \in DOMAIN Contexts
    BY <1>1, <1>12
  <2> QED
    BY <2>1
<1>13. CASE tool \in {"request"} \X DOMAIN Requests
  <2>1. Scan \in {"request"} /\ Name \in DOMAIN Requests
    BY <1>1, <1>13
  <2> QED
    BY <2>1
<1>14. CASE tool \in {"lists"} \X {"redirects", "overrides", "stages"}
  <2>1. Scan \in {"lists"} /\ Name \in {"redirects", "overrides", "stages"}
    BY <1>1, <1>14
  <2> QED
    BY <2>1
<1> QED
  BY <1>2, <1>3, <1>4, <1>5, <1>6, <1>7, <1>8, <1>9, <1>10, <1>11, <1>12, <1>13, <1>14, Zenon

LEMMA LinesMissNothing == WordsInv => RulesMissNothing
<1> SUFFICES ASSUME WordsInv PROVE RulesMissNothing
  OBVIOUS
<1>0. tool \in Tools /\ argv \in Seq(Words) /\ Len(argv) \in Nat /\ DOMAIN argv = 1..Len(argv)
  BY DEF WordsInv
<1>1. Name = "git" => Words = FamilyWords("git")
  <2>1. /\ "git" \notin DOMAIN Wrappers \cup DOMAIN Shells \cup DOMAIN Launchers
        /\ "git" \notin Manners \cup TextKinds \cup DOMAIN Contexts \cup DOMAIN Requests
    BY DEF Wrappers, Shells, Launchers, Manners, TextKinds, Contexts, Requests
  <2>2. Name = "git" => Scan = "rules"
    BY <1>0, <2>1, ZenonT(60) DEF Tools, Scan, Name
  <2> QED
    BY <2>2 DEF Words
<1>2. Name = "stages" => Words = StageWords
  <2>1. /\ "stages" \notin DOMAIN Wrappers \cup DOMAIN Shells \cup DOMAIN Launchers
        /\ "stages" \notin Manners \cup TextKinds \cup DOMAIN Contexts \cup DOMAIN Requests
        /\ "stages" \notin Families
    BY DEF Wrappers, Shells, Launchers, Manners, TextKinds, Contexts, Requests, Families
  <2>2. Name = "stages" => Scan = "lists"
    BY <1>0, <2>1, ToolKinds
  <2> QED
    BY <2>2 DEF Words
<1>3. ASSUME Name = "git", NEW r \in Guesses(argv, Len(argv)),
             \E w \in Effective(GitOverrides(argv, r)) : ~IsNoOp(w)
      PROVE  GitConfigMatches(argv) \/ ~IsAllowlistSafe(argv)
  BY <1>0, <1>1, <1>3, GitOverridesMatched
<1>4. (\E w \in Effective(argv) : ~IsNoOp(w)) => EnvMatches(argv)
  BY <1>0, EnvOverridesMatched
<1>5. Name = "stages" => (PipelineMatches(argv) <=>
           \E i, j \in DOMAIN argv : i < j /\ Has(argv[i], 1) /\ Has(argv[j], 2))
  BY <1>0, <1>2, PipelinesMatched
<1> QED
  BY <1>3, <1>4, <1>5 DEF RulesMissNothing, Has

THEOREM RulesNeverMiss == Spec => []RulesMissNothing
BY WordsType, LinesMissNothing, PTL

-----------------------------------------------------------------------------
(* The words that an entry is compared with, and the operands of the tool. *)

LEMMA RememberingCollect ==
  ASSUME NEW n \in Nat, NEW A, NEW stops \in SUBSET (Nat \X BOOLEAN),
         \A k \in Nat, b \in BOOLEAN : k > n => <<k, b>> \in stops,
         NEW out, NEW next, NEW add,
         \A x \in stops : out[x] \in Seq(A),
         \A k \in Nat, b \in BOOLEAN : <<k, b>> \notin stops =>
            \E j \in Nat, c \in BOOLEAN : j > k /\ next[<<k, b>>] = <<j, c>>,
         \A x \in (Nat \X BOOLEAN) \ stops : add[x] \in Seq(A)
  PROVE  \E f \in [Nat \X BOOLEAN -> Seq(A)] :
            Collects(f, Nat \X BOOLEAN, stops, out, next, add)
<1> DEFINE S == Nat \X BOOLEAN
           step == [x \in S |-> [s \in Seq(A) |-> add[x] \o s]]
<1>1. \A x \in (Nat \X BOOLEAN) \ stops : step[x] \in [Seq(A) -> Seq(A)]
  <2>1. ASSUME NEW x \in S \ stops PROVE step[x] \in [Seq(A) -> Seq(A)]
    <3>1. \A s \in Seq(A) : add[x] \o s \in Seq(A)
      OBVIOUS
    <3> QED
      BY <3>1
  <2> HIDE DEF step
  <2> QED
    BY <2>1
<1>2. PICK f \in [Nat \X BOOLEAN -> Seq(A)] : Unwinds(f, Nat \X BOOLEAN, stops, out, next, step)
  <2> HIDE DEF step
  <2> QED
    BY <1>1, RememberingScan
<1>3. ASSUME NEW x \in S PROVE f[x] = IF x \in stops THEN out[x] ELSE add[x] \o f[next[x]]
  <2>1. f[x] = IF x \in stops THEN out[x] ELSE step[x][f[next[x]]]
    BY <1>2 DEF Unwinds
  <2>2. CASE x \notin stops
    <3>0. next[x] \in Nat \X BOOLEAN
      <4>1. PICK k \in Nat, b \in BOOLEAN : x = <<k, b>>
        OBVIOUS
      <4>2. PICK j \in Nat, c \in BOOLEAN : next[x] = <<j, c>>
        BY <2>2, <4>1
      <4> QED
        BY <4>2
    <3>1. f[next[x]] \in Seq(A)
      BY <1>2, <3>0
    <3>2. step[x][f[next[x]]] = add[x] \o f[next[x]]
      BY <3>1
    <3> QED
      BY <2>1, <2>2, <3>2
  <2> QED
    BY <2>1, <2>2
<1> QED
  BY <1>2, <1>3 DEF Collects

\* The words that an entry is compared with, without the flags.
PlainFrom(f, words) ==
  \A i \in Nat : f[i] = IF i > Len(words) THEN << >>
                        ELSE IF IsFlag(words[i]) THEN f[i + 1]
                        ELSE <<NormalizeArg(words[i].t)>> \o f[i + 1]
TextsOf(words) == {NormalizeArg(words[i].t) : i \in Nat}

LEMMA PlainScans ==
  ASSUME NEW words, Len(words) \in Nat
  PROVE  \E f : PlainFrom(f, words) /\ PlainArgs(words) = f[1]
<1> DEFINE Eq(F) == F = [i \in Nat |->
                      IF i > Len(words) THEN << >>
                      ELSE IF IsFlag(words[i]) THEN F[i + 1]
                      ELSE <<NormalizeArg(words[i].t)>> \o F[i + 1]]
           A == TextsOf(words)
           stops == {k \in Nat : k > Len(words)}
           out == [k \in Nat |-> << >>]
           next == [k \in Nat |-> k + 1]
           add == [k \in Nat |-> IF IsFlag(words[k]) THEN << >>
                                 ELSE <<NormalizeArg(words[k].t)>>]
<1>1. /\ stops \in SUBSET Nat
      /\ \A k \in Nat : k > Len(words) => k \in stops
      /\ \A k \in stops : out[k] \in Seq(A)
  OBVIOUS
<1>2. \A k \in Nat \ stops : next[k] \in Nat /\ next[k] > k /\ add[k] \in Seq(A)
  <2>1. \A k \in Nat : NormalizeArg(words[k].t) \in A
    BY DEF TextsOf
  <2> HIDE DEF A
  <2> QED
    BY <2>1
<1>3. PICK f \in [Nat -> Seq(A)] : Collects(f, Nat, stops, out, next, add)
  <2> HIDE DEF stops, out, next, add, A
  <2> QED
    BY <1>1, <1>2, Collecting
<1>4. ASSUME NEW i \in Nat
      PROVE  f[i] = IF i > Len(words) THEN << >>
                    ELSE IF IsFlag(words[i]) THEN f[i + 1]
                    ELSE <<NormalizeArg(words[i].t)>> \o f[i + 1]
  <2>1. f[i] = IF i \in stops THEN out[i] ELSE add[i] \o f[next[i]]
    BY <1>3 DEF Collects
  <2>2. CASE i > Len(words)
    BY <2>1, <2>2
  <2>3. CASE ~(i > Len(words))
    <3>0. i \notin stops /\ next[i] = i + 1 /\ i + 1 \in Nat
      BY <2>3
    <3>1. f[i] = add[i] \o f[i + 1] /\ f[i + 1] \in Seq(A)
      <4> HIDE DEF A, add, stops, next
      <4> QED
        BY <1>3, <2>1, <3>0
    <3>2. << >> \o f[i + 1] = f[i + 1]
      BY <3>1
    <3> QED
      BY <2>3, <3>1, <3>2
  <2> QED
    BY <2>2, <2>3
<1>5. Eq(f)
  <2> DEFINE h == [i \in Nat |->
                      IF i > Len(words) THEN << >>
                      ELSE IF IsFlag(words[i]) THEN f[i + 1]
                      ELSE <<NormalizeArg(words[i].t)>> \o f[i + 1]]
  <2>1. \A i \in Nat : h[i] = f[i]
    BY <1>4
  <2>2. h = [i \in Nat |-> h[i]] /\ f = [i \in Nat |-> f[i]]
    OBVIOUS
  <2>3. f = h
    <3> HIDE DEF h
    <3> QED
      BY <2>1, <2>2
  <2> QED
    BY <2>3
<1> DEFINE g == CHOOSE F : Eq(F)
<1>6. Eq(g)
  <2> HIDE DEF Eq
  <2> QED
    BY <1>5
<1>7. PlainArgs(words) = g[1]
  BY DEF PlainArgs
<1> HIDE DEF g
<1>8. PlainFrom(g, words)
  BY <1>6 DEF PlainFrom
<1> QED
  BY <1>7, <1>8

LEMMA PlainTyped ==
  ASSUME NEW words, Len(words) \in Nat, NEW f, PlainFrom(f, words)
  PROVE  \A k \in Nat \ {0} : f[k] \in Seq(TextsOf(words))
<1> DEFINE A == TextsOf(words)
           G == {k \in Nat : f[k] \in Seq(A)}
<1>0. ASSUME NEW k \in Nat
      PROVE  f[k] = IF k > Len(words) THEN << >>
                    ELSE IF IsFlag(words[k]) THEN f[k + 1]
                    ELSE <<NormalizeArg(words[k].t)>> \o f[k + 1]
  BY DEF PlainFrom
<1>1. \A k \in Nat : k > Len(words) => k \in G
  <2>1. << >> \in Seq(A)
    OBVIOUS
  <2> HIDE DEF A
  <2> QED
    BY <1>0, <2>1
<1>2. ASSUME NEW k \in 1..Len(words), \A j \in Nat : j > k => j \in G
      PROVE  k \in G
  <2>1. f[k + 1] \in Seq(A)
    BY <1>2
  <2>2. NormalizeArg(words[k].t) \in A
    BY DEF TextsOf
  <2>3. <<NormalizeArg(words[k].t)>> \o f[k + 1] \in Seq(A)
    <3> HIDE DEF A
    <3> QED
      BY <2>1, <2>2
  <2>4. k \in Nat /\ ~(k > Len(words))
    OBVIOUS
  <2>5. f[k] \in Seq(A)
    <3> HIDE DEF A
    <3> QED
      BY <1>0, <2>1, <2>3, <2>4
  <2> QED
    BY <2>4, <2>5
<1> HIDE DEF G
<1>3. \A k \in Nat \ {0} : k \in G
  BY <1>1, <1>2, CountingDown
<1> QED
  BY <1>3 DEF G

\* The plain words of a line, one word at a time.
LEMMA PlainOfNone == PlainArgs(<< >>) = << >>
<1>1. PICK f : PlainFrom(f, << >>) /\ PlainArgs(<< >>) = f[1]
  BY PlainScans
<1>2. 1 \in Nat /\ 1 > Len(<< >>)
  OBVIOUS
<1>3. f[1] = << >>
  BY <1>1, <1>2, Zenon DEF PlainFrom
<1> QED
  BY <1>1, <1>3

LEMMA PlainOfMore ==
  ASSUME NEW X, NEW w \in X, NEW words \in Seq(X)
  PROVE  PlainArgs(<<w>> \o words) = IF IsFlag(w) THEN PlainArgs(words)
                                     ELSE <<NormalizeArg(w.t)>> \o PlainArgs(words)
<1> DEFINE more == <<w>> \o words
<1>1. Len(words) \in Nat
  OBVIOUS
<1>2. /\ Len(more) \in Nat /\ Len(more) = Len(words) + 1
      /\ more[1] = w
      /\ \A i \in 1..Len(words) : more[i + 1] = words[i]
  BY <1>1, Joined
<1> HIDE DEF more
<1>3. PICK f : PlainFrom(f, words) /\ PlainArgs(words) = f[1]
  BY <1>1, PlainScans
<1>4. PICK g : PlainFrom(g, more) /\ PlainArgs(more) = g[1]
  BY <1>2, PlainScans
<1> DEFINE G == {k \in Nat : g[k + 1] = f[k]}
<1>5. ASSUME NEW k \in Nat
      PROVE  f[k] = IF k > Len(words) THEN << >>
                    ELSE IF IsFlag(words[k]) THEN f[k + 1]
                    ELSE <<NormalizeArg(words[k].t)>> \o f[k + 1]
  BY <1>3 DEF PlainFrom
<1>6. ASSUME NEW k \in Nat
      PROVE  g[k] = IF k > Len(more) THEN << >>
                    ELSE IF IsFlag(more[k]) THEN g[k + 1]
                    ELSE <<NormalizeArg(more[k].t)>> \o g[k + 1]
  BY <1>4 DEF PlainFrom
<1>7. \A k \in Nat : k > Len(words) => k \in G
  <2>1. ASSUME NEW k \in Nat, k > Len(words) PROVE g[k + 1] = f[k]
    <3>1. k + 1 \in Nat /\ k + 1 > Len(more)
      BY <1>1, <1>2, <2>1
    <3> QED
      BY <1>5, <1>6, <2>1, <3>1
  <2> QED
    BY <2>1
<1>8. ASSUME NEW k \in 1..Len(words), \A j \in Nat : j > k => j \in G
      PROVE  k \in G
  <2>1. k \in Nat /\ k + 1 \in Nat /\ k + 1 > k /\ ~(k > Len(words)) /\ ~(k + 1 > Len(more))
    BY <1>1, <1>2
  <2>2. k + 1 \in G
    <3> HIDE DEF G
    <3> QED
      BY <1>8, <2>1
  <2>3. g[(k + 1) + 1] = f[k + 1] /\ more[k + 1] = words[k]
    BY <1>2, <2>2
  <2>4. g[k + 1] = f[k]
    BY <1>5, <1>6, <2>1, <2>3
  <2> QED
    BY <2>1, <2>4
<1>9. 1 \in G
  <2>1. 1 \in Nat \ {0}
    OBVIOUS
  <2> HIDE DEF G
  <2>2. \A k \in Nat \ {0} : k \in G
    BY <1>1, <1>7, <1>8, CountingDown
  <2> QED
    BY <2>1, <2>2
<1>10. g[1 + 1] = f[1]
  BY <1>9
<1>11. g[1] = IF IsFlag(w) THEN g[1 + 1] ELSE <<NormalizeArg(w.t)>> \o g[1 + 1]
  BY <1>1, <1>2, <1>6
<1> QED
  BY <1>3, <1>4, <1>10, <1>11 DEF more

\* What Strip keeps, from a word on.
Keeps(words, i) == IsFlag(words[i]) /\ words[i].t # "--"
Strips(words, flags, everywhere, i) ==
  words[i].t \in flags /\ (i < Len(words) \/ ~everywhere)
StripFrom(f, words, flags, everywhere) ==
  \A i \in Nat, on \in BOOLEAN :
    f[<<i, on>>] = IF i > Len(words) THEN << >>
                   ELSE IF on /\ Strips(words, flags, everywhere, i) THEN f[<<i + 2, on>>]
                   ELSE <<words[i]>> \o f[<<i + 1, everywhere \/ (on /\ Keeps(words, i))>>]

LEMMA StripScans ==
  ASSUME NEW words, Len(words) \in Nat, NEW flags, NEW everywhere \in BOOLEAN
  PROVE  \E f : /\ StripFrom(f, words, flags, everywhere)
                /\ Strip(words, flags, everywhere) = f[<<1, TRUE>>]
<1> DEFINE Global(i) == IsFlag(words[i]) /\ words[i].t # "--"
           Eq(F) == F = [x \in Nat \X BOOLEAN |->
             LET i == x[1]
                 on == x[2]
             IN IF i > Len(words) THEN << >>
                ELSE IF on /\ words[i].t \in flags /\ (i < Len(words) \/ ~everywhere)
                     THEN F[<<i + 2, on>>]
                ELSE <<words[i]>> \o F[<<i + 1, everywhere \/ (on /\ Global(i))>>]]
           A == {words[i] : i \in Nat}
           S == Nat \X BOOLEAN
           Goes(x) == x[2] /\ Strips(words, flags, everywhere, x[1])
           stops == {x \in S : x[1] > Len(words)}
           out == [x \in S |-> << >>]
           next == [x \in S |-> IF Goes(x) THEN <<x[1] + 2, x[2]>>
                                ELSE <<x[1] + 1, everywhere \/ (x[2] /\ Keeps(words, x[1]))>>]
           add == [x \in S |-> IF Goes(x) THEN << >> ELSE <<words[x[1]]>>]
<1>1. /\ stops \in SUBSET (Nat \X BOOLEAN)
      /\ \A k \in Nat, b \in BOOLEAN : k > Len(words) => <<k, b>> \in stops
      /\ \A x \in stops : out[x] \in Seq(A)
  OBVIOUS
<1>2. \A x \in (Nat \X BOOLEAN) \ stops : add[x] \in Seq(A)
  <2>1. ASSUME NEW x \in S PROVE add[x] \in Seq(A)
    <3>1. words[x[1]] \in A
      OBVIOUS
    <3>2. add[x] = << >> \/ add[x] = <<words[x[1]]>>
      BY Zenon
    <3>3. \A v \in A : <<v>> \in Seq(A)
      OBVIOUS
    <3>4. << >> \in Seq(A)
      OBVIOUS
    <3> HIDE DEF A, add
    <3> QED
      BY <3>1, <3>2, <3>3, <3>4, Zenon
  <2> HIDE DEF add, A
  <2> QED
    BY <2>1
<1>3. ASSUME NEW k \in Nat, NEW b \in BOOLEAN, <<k, b>> \notin stops
      PROVE  \E j \in Nat, c \in BOOLEAN : j > k /\ next[<<k, b>>] = <<j, c>>
  <2> DEFINE c == everywhere \/ (b /\ Keeps(words, k))
  <2>1. next[<<k, b>>] = <<k + 2, b>> \/ next[<<k, b>>] = <<k + 1, c>>
    BY Zenon
  <2>2. c \in BOOLEAN
    BY Zenon DEF Keeps, IsFlag
  <2>3. k + 2 \in Nat /\ k + 2 > k /\ k + 1 \in Nat /\ k + 1 > k
    OBVIOUS
  <2> HIDE DEF next, c
  <2> QED
    BY <2>1, <2>2, <2>3, Zenon
<1>4. PICK f \in [Nat \X BOOLEAN -> Seq(A)] : Collects(f, Nat \X BOOLEAN, stops, out, next, add)
  <2> HIDE DEF stops, out, next, add, A, S
  <2> QED
    BY <1>1, <1>2, <1>3, RememberingCollect
<1>5. ASSUME NEW x \in S
      PROVE  f[x] = IF x[1] > Len(words) THEN << >>
                    ELSE IF Goes(x) THEN f[<<x[1] + 2, x[2]>>]
                    ELSE <<words[x[1]]>> \o f[<<x[1] + 1, everywhere \/ (x[2] /\ Keeps(words, x[1]))>>]
  <2>1. f[x] = IF x \in stops THEN out[x] ELSE add[x] \o f[next[x]]
    BY <1>4 DEF Collects
  <2>2. CASE x[1] > Len(words)
    <3>1. x \in stops /\ out[x] = << >>
      BY <2>2
    <3> QED
      BY <2>1, <2>2, <3>1, Zenon
  <2>3. CASE ~(x[1] > Len(words)) /\ Goes(x)
    <3>1. x \notin stops /\ add[x] = << >> /\ next[x] = <<x[1] + 2, x[2]>>
      BY <2>3, Zenon
    <3>2. <<x[1] + 2, x[2]>> \in S
      <4>1. x[1] + 2 \in Nat /\ x[2] \in BOOLEAN
        OBVIOUS
      <4> QED
        BY <4>1, Zenon
    <3>3. f[next[x]] \in Seq(A)
      BY <1>4, <3>1, <3>2, Zenon
    <3>4. \A s \in Seq(A) : << >> \o s = s
      OBVIOUS
    <3>5. f[x] = << >> \o f[next[x]]
      BY <2>1, <3>1, Zenon
    <3> QED
      BY <2>3, <3>1, <3>3, <3>4, <3>5, Zenon
  <2>4. CASE ~(x[1] > Len(words)) /\ ~Goes(x)
    <3>1. x \notin stops /\ add[x] = <<words[x[1]]>>
      BY <2>4, Zenon
    <3>2. next[x] = <<x[1] + 1, everywhere \/ (x[2] /\ Keeps(words, x[1]))>>
      BY <2>4, Zenon
    <3> QED
      BY <2>1, <2>4, <3>1, <3>2, Zenon
  <2> QED
    BY <2>2, <2>3, <2>4, Zenon
<1>6. Eq(f)
  <2> DEFINE h == [x \in Nat \X BOOLEAN |->
             LET i == x[1]
                 on == x[2]
             IN IF i > Len(words) THEN << >>
                ELSE IF on /\ words[i].t \in flags /\ (i < Len(words) \/ ~everywhere)
                     THEN f[<<i + 2, on>>]
                ELSE <<words[i]>> \o f[<<i + 1, everywhere \/ (on /\ Global(i))>>]]
  <2>1. \A x \in S : h[x] = f[x]
    BY <1>5, Zenon DEF Strips, Keeps
  <2>2. h = [x \in S |-> h[x]] /\ f = [x \in S |-> f[x]]
    BY <1>4
  <2>3. f = h
    <3> HIDE DEF h
    <3> QED
      BY <2>1, <2>2
  <2> QED
    BY <2>3
<1> DEFINE g == CHOOSE F : Eq(F)
<1>7. Eq(g)
  <2> HIDE DEF Eq
  <2> QED
    BY <1>6
<1>8. Strip(words, flags, everywhere) = g[<<1, TRUE>>]
  BY DEF Strip
<1> HIDE DEF g
<1>9. StripFrom(g, words, flags, everywhere)
  BY <1>7 DEF StripFrom, Strips, Keeps
<1> QED
  BY <1>8, <1>9

\* The operands of a tool, from a word on.
RestAfter(words, i) == [k \in 1..(Len(words) - i) |-> NormalizeArg(words[i + k].t)]
TakesNext(family, words, r, i, sub) ==
  \/ i \in r
  \/ words[i].t \in TakesValue /\ (sub => family = "uv")
OperandsFrom(f, family, words, r) ==
  \A i \in Nat, sub \in BOOLEAN :
    f[<<i, sub>>] = IF i > Len(words) THEN << >>
                    ELSE IF words[i].t = "--" THEN RestAfter(words, i)
                    ELSE IF TakesNext(family, words, r, i, sub) THEN f[<<i + 2, sub>>]
                    ELSE IF IsFlag(words[i]) THEN f[<<i + 1, sub>>]
                    ELSE <<NormalizeArg(words[i].t)>> \o f[<<i + 1, TRUE>>]

LEMMA RestTyped ==
  ASSUME NEW words, Len(words) \in Nat, NEW i \in 0..Len(words)
  PROVE  RestAfter(words, i) \in Seq(TextsOf(words)) /\ Len(RestAfter(words, i)) = Len(words) - i
<1>1. Len(words) - i \in Nat
  OBVIOUS
<1>2. \A k \in 1..(Len(words) - i) : NormalizeArg(words[i + k].t) \in TextsOf(words)
  <2>1. \A k \in 1..(Len(words) - i) : i + k \in Nat
    OBVIOUS
  <2> QED
    BY <2>1 DEF TextsOf
<1> QED
  BY <1>1, <1>2 DEF RestAfter

LEMMA OperandScans ==
  ASSUME NEW family, NEW words, Len(words) \in Nat, NEW r
  PROVE  \E f : OperandsFrom(f, family, words, r) /\ Operands(family, words, r) = f[<<1, FALSE>>]
<1> DEFINE Takes(i, sub) == \/ i \in r
                            \/ words[i].t \in TakesValue /\ (sub => family = "uv")
           Eq(F) == F = [x \in Nat \X BOOLEAN |->
             LET i == x[1]
                 sub == x[2]
             IN IF i > Len(words) THEN << >>
                ELSE IF words[i].t = "--"
                     THEN [k \in 1..(Len(words) - i) |-> NormalizeArg(words[i + k].t)]
                ELSE IF Takes(i, sub) THEN F[<<i + 2, sub>>]
                ELSE IF IsFlag(words[i]) THEN F[<<i + 1, sub>>]
                ELSE <<NormalizeArg(words[i].t)>> \o F[<<i + 1, TRUE>>]]
           A == TextsOf(words)
           S == Nat \X BOOLEAN
           Skips(x) == TakesNext(family, words, r, x[1], x[2])
           Flag(x) == IsFlag(words[x[1]])
           stops == {x \in S : x[1] > Len(words) \/ words[x[1]].t = "--"}
           out == [x \in S |-> IF x[1] > Len(words) THEN << >> ELSE RestAfter(words, x[1])]
           next == [x \in S |-> IF Skips(x) THEN <<x[1] + 2, x[2]>>
                                ELSE IF Flag(x) THEN <<x[1] + 1, x[2]>>
                                ELSE <<x[1] + 1, TRUE>>]
           add == [x \in S |-> IF Skips(x) \/ Flag(x) THEN << >>
                               ELSE <<NormalizeArg(words[x[1]].t)>>]
<1>0. stops \in SUBSET (Nat \X BOOLEAN)
  OBVIOUS
<1>1. \A k \in Nat, b \in BOOLEAN : k > Len(words) => <<k, b>> \in stops
  OBVIOUS
<1>2. ASSUME NEW x \in stops PROVE out[x] \in Seq(A)
  <2>1. CASE x[1] > Len(words)
    <3>1. out[x] = << >>
      BY <2>1
    <3>2. << >> \in Seq(A)
      OBVIOUS
    <3> HIDE DEF A, out
    <3> QED
      BY <3>1, <3>2
  <2>2. CASE ~(x[1] > Len(words))
    <3>1. out[x] = RestAfter(words, x[1])
      BY <2>2
    <3>2. x[1] \in 0..Len(words)
      BY <2>2
    <3> HIDE DEF out
    <3> QED
      BY <3>1, <3>2, RestTyped
  <2> QED
    BY <2>1, <2>2
<1>3. \A x \in (Nat \X BOOLEAN) \ stops : add[x] \in Seq(A)
  <2>1. ASSUME NEW x \in S PROVE add[x] \in Seq(A)
    <3>1. NormalizeArg(words[x[1]].t) \in A
      BY DEF TextsOf
    <3>2. add[x] = << >> \/ add[x] = <<NormalizeArg(words[x[1]].t)>>
      BY Zenon
    <3>3. \A v \in A : <<v>> \in Seq(A)
      OBVIOUS
    <3>4. << >> \in Seq(A)
      OBVIOUS
    <3> HIDE DEF A, add
    <3> QED
      BY <3>1, <3>2, <3>3, <3>4, Zenon
  <2> HIDE DEF add, A
  <2> QED
    BY <2>1
<1>4. ASSUME NEW k \in Nat, NEW b \in BOOLEAN, <<k, b>> \notin stops
      PROVE  \E j \in Nat, c \in BOOLEAN : j > k /\ next[<<k, b>>] = <<j, c>>
  <2>1. next[<<k, b>>] \in {<<k + 2, b>>, <<k + 1, b>>, <<k + 1, TRUE>>}
    BY Zenon
  <2>2. /\ k + 2 \in Nat /\ k + 2 > k /\ k + 1 \in Nat /\ k + 1 > k
        /\ TRUE \in BOOLEAN
    OBVIOUS
  <2> HIDE DEF next
  <2> QED
    BY <2>1, <2>2, Zenon
<1>5. PICK f \in [Nat \X BOOLEAN -> Seq(A)] : Collects(f, Nat \X BOOLEAN, stops, out, next, add)
  <2> HIDE DEF stops, out, next, add, A, S
  <2> QED
    BY <1>0, <1>1, <1>2, <1>3, <1>4, RememberingCollect
<1>6. ASSUME NEW x \in S
      PROVE  f[x] = IF x[1] > Len(words) THEN << >>
                    ELSE IF words[x[1]].t = "--" THEN RestAfter(words, x[1])
                    ELSE IF Skips(x) THEN f[<<x[1] + 2, x[2]>>]
                    ELSE IF Flag(x) THEN f[<<x[1] + 1, x[2]>>]
                    ELSE <<NormalizeArg(words[x[1]].t)>> \o f[<<x[1] + 1, TRUE>>]
  <2>1. f[x] = IF x \in stops THEN out[x] ELSE add[x] \o f[next[x]]
    BY <1>5 DEF Collects
  <2>0. x[1] \in Nat /\ x[2] \in BOOLEAN /\ x[1] + 1 \in Nat /\ x[1] + 2 \in Nat
    OBVIOUS
  <2>00. /\ \A s \in Seq(A) : << >> \o s = s
    OBVIOUS
  <2>2. CASE x[1] > Len(words)
    <3>1. x \in stops /\ out[x] = << >>
      BY <2>2
    <3> QED
      BY <2>1, <2>2, <3>1, Zenon
  <2>3. CASE ~(x[1] > Len(words)) /\ words[x[1]].t = "--"
    <3>1. x \in stops /\ out[x] = RestAfter(words, x[1])
      BY <2>3
    <3> QED
      BY <2>1, <2>3, <3>1, Zenon
  <2>4. CASE x \notin stops /\ Skips(x)
    <3>1. add[x] = << >> /\ next[x] = <<x[1] + 2, x[2]>>
      BY <2>4, Zenon
    <3>2. <<x[1] + 2, x[2]>> \in S
      BY <2>0, Zenon
    <3>3. f[next[x]] \in Seq(A)
      BY <1>5, <3>1, <3>2, Zenon
    <3>5. f[x] = << >> \o f[next[x]]
      BY <2>1, <2>4, <3>1, Zenon
    <3>6. ~(x[1] > Len(words)) /\ words[x[1]].t # "--"
      BY <2>4
    <3> QED
      BY <2>00, <2>4, <3>1, <3>3, <3>5, <3>6, Zenon
  <2>5. CASE x \notin stops /\ ~Skips(x) /\ Flag(x)
    <3>1. add[x] = << >> /\ next[x] = <<x[1] + 1, x[2]>>
      BY <2>5, Zenon
    <3>2. <<x[1] + 1, x[2]>> \in S
      BY <2>0, Zenon
    <3>3. f[next[x]] \in Seq(A)
      BY <1>5, <3>1, <3>2, Zenon
    <3>5. f[x] = << >> \o f[next[x]]
      BY <2>1, <2>5, <3>1, Zenon
    <3>6. ~(x[1] > Len(words)) /\ words[x[1]].t # "--"
      BY <2>5
    <3> QED
      BY <2>00, <2>5, <3>1, <3>3, <3>5, <3>6, Zenon
  <2>6. CASE x \notin stops /\ ~Skips(x) /\ ~Flag(x)
    <3>1. add[x] = <<NormalizeArg(words[x[1]].t)>> /\ next[x] = <<x[1] + 1, TRUE>>
      BY <2>6, Zenon
    <3>6. ~(x[1] > Len(words)) /\ words[x[1]].t # "--"
      BY <2>6
    <3> QED
      BY <2>1, <2>6, <3>1, <3>6, Zenon
  <2>7. x \in stops => x[1] > Len(words) \/ words[x[1]].t = "--"
    OBVIOUS
  <2> QED
    BY <2>2, <2>3, <2>4, <2>5, <2>6, <2>7, Zenon
<1>7. Eq(f)
  <2> DEFINE h == [x \in Nat \X BOOLEAN |->
             LET i == x[1]
                 sub == x[2]
             IN IF i > Len(words) THEN << >>
                ELSE IF words[i].t = "--"
                     THEN [k \in 1..(Len(words) - i) |-> NormalizeArg(words[i + k].t)]
                ELSE IF Takes(i, sub) THEN f[<<i + 2, sub>>]
                ELSE IF IsFlag(words[i]) THEN f[<<i + 1, sub>>]
                ELSE <<NormalizeArg(words[i].t)>> \o f[<<i + 1, TRUE>>]]
  <2>1. \A x \in S : h[x] = f[x]
    BY <1>6, Zenon DEF TakesNext, RestAfter
  <2>2. h = [x \in S |-> h[x]] /\ f = [x \in S |-> f[x]]
    BY <1>5
  <2>3. f = h
    <3> HIDE DEF h
    <3> QED
      BY <2>1, <2>2
  <2> QED
    BY <2>3
<1> DEFINE g == CHOOSE F : Eq(F)
<1>8. Eq(g)
  <2> HIDE DEF Eq
  <2> QED
    BY <1>7
<1>9. Operands(family, words, r) = g[<<1, FALSE>>]
  BY DEF Operands
<1> HIDE DEF g
<1>10. OperandsFrom(g, family, words, r)
  <2>1. ASSUME NEW i \in Nat, NEW sub \in BOOLEAN
        PROVE  g[<<i, sub>>] =
                IF i > Len(words) THEN << >>
                ELSE IF words[i].t = "--"
                     THEN [k \in 1..(Len(words) - i) |-> NormalizeArg(words[i + k].t)]
                ELSE IF Takes(i, sub) THEN g[<<i + 2, sub>>]
                ELSE IF IsFlag(words[i]) THEN g[<<i + 1, sub>>]
                ELSE <<NormalizeArg(words[i].t)>> \o g[<<i + 1, TRUE>>]
    <3> HIDE DEF Takes
    <3> QED
      BY <1>8
  <2> QED
    BY <2>1, Zenon DEF OperandsFrom, TakesNext, RestAfter
<1> QED
  BY <1>9, <1>10

\* The scans for a subcommand, but git's.
ResolvedAt(words, i) == IF i <= Len(words) THEN [kind |-> "resolved", word |-> words[i].t]
                        ELSE [kind |-> "absent"]
ResolvesFrom(f, family, words) ==
  \A i \in Nat : f[i] =
    IF i > Len(words) THEN ResolvedAt(words, i)
    ELSE IF words[i].t = "--" THEN ResolvedAt(words, i + 1)
    ELSE IF words[i].t \in ValueFlags(family, words)
         THEN IF i = Len(words) \/ words[i+1].m = "unsafe"
              THEN [kind |-> "ambiguous"] ELSE f[i + 2]
    ELSE IF IsFlag(words[i]) THEN f[i + 1]
    ELSE ResolvedAt(words, i)
StartsFrom(f, family, words) ==
  \A i \in Nat : f[i] =
    IF i > Len(words) THEN Len(words) + 1
    ELSE IF words[i].t = "--" THEN i + 1
    ELSE IF words[i].t \in ValueFlags(family, words) THEN f[i + 2]
    ELSE IF IsFlag(words[i]) THEN f[i + 1]
    ELSE i

LEMMA ResolveScans ==
  ASSUME NEW family, NEW words, family # "git"
  PROVE  \E f : ResolvesFrom(f, family, words) /\ ResolveSubcommand(family, words) = f[1]
<1> DEFINE At(i) == IF i <= Len(words) THEN [kind |-> "resolved", word |-> words[i].t]
                    ELSE [kind |-> "absent"]
           Eq(F) == F = [i \in Nat |->
             IF i > Len(words) THEN At(i)
             ELSE IF words[i].t = "--" THEN At(i + 1)
             ELSE IF words[i].t \in ValueFlags(family, words)
                  THEN IF i = Len(words) \/ words[i+1].m = "unsafe"
                       THEN [kind |-> "ambiguous"] ELSE F[i + 2]
             ELSE IF IsFlag(words[i]) THEN F[i + 1]
             ELSE At(i)]
           V == ValueFlags(family, words)
           stops == {i \in Nat : \/ i > Len(words)
                                 \/ words[i].t = "--"
                                 \/ words[i].t \in V /\ (i = Len(words) \/ words[i+1].m = "unsafe")
                                 \/ words[i].t \notin V /\ ~IsFlag(words[i])}
           out == [i \in Nat |-> IF i > Len(words) THEN At(i)
                                 ELSE IF words[i].t = "--" THEN At(i + 1)
                                 ELSE IF words[i].t \in V THEN [kind |-> "ambiguous"] ELSE At(i)]
           next == [i \in Nat |-> IF words[i].t \in V THEN i + 2 ELSE i + 1]
<1>1. stops \in SUBSET Nat /\ \A k \in Nat \ stops : next[k] \in Nat
  OBVIOUS
<1>2. PICK f : Follows(f, Nat, stops, out, next)
  <2> HIDE DEF stops, out, next
  <2> QED
    BY <1>1, TailRecursion
<1>3. Eq(f)
  <2>1. f = [k \in Nat |-> IF k \in stops THEN out[k] ELSE f[next[k]]]
    BY <1>2 DEF Follows
  <2> HIDE DEF At, V
  <2> QED
    BY <2>1 DEF V
<1> DEFINE g == CHOOSE F : Eq(F)
<1>4. Eq(g)
  <2> HIDE DEF Eq
  <2> QED
    BY <1>3
<1>5. ResolveSubcommand(family, words) = g[1]
  BY DEF ResolveSubcommand
<1> HIDE DEF g
<1>6. ResolvesFrom(g, family, words)
  BY <1>4 DEF ResolvesFrom, ResolvedAt
<1> QED
  BY <1>5, <1>6

LEMMA StartScans ==
  ASSUME NEW family, NEW words, family # "git"
  PROVE  \E f : StartsFrom(f, family, words) /\ SubcommandStart(family, words) = f[1]
<1> DEFINE Eq(F) == F = [i \in Nat |->
             IF i > Len(words) THEN Len(words) + 1
             ELSE IF words[i].t = "--" THEN i + 1
             ELSE IF words[i].t \in ValueFlags(family, words) THEN F[i + 2]
             ELSE IF IsFlag(words[i]) THEN F[i + 1]
             ELSE i]
           V == ValueFlags(family, words)
           stops == {i \in Nat : \/ i > Len(words)
                                 \/ words[i].t = "--"
                                 \/ words[i].t \notin V /\ ~IsFlag(words[i])}
           out == [i \in Nat |-> IF i > Len(words) THEN Len(words) + 1
                                 ELSE IF words[i].t = "--" THEN i + 1 ELSE i]
           next == [i \in Nat |-> IF words[i].t \in V THEN i + 2 ELSE i + 1]
<1>1. stops \in SUBSET Nat /\ \A k \in Nat \ stops : next[k] \in Nat
  OBVIOUS
<1>2. PICK f : Follows(f, Nat, stops, out, next)
  <2> HIDE DEF stops, out, next
  <2> QED
    BY <1>1, TailRecursion
<1>3. Eq(f)
  <2>1. f = [k \in Nat |-> IF k \in stops THEN out[k] ELSE f[next[k]]]
    BY <1>2 DEF Follows
  <2> HIDE DEF V
  <2> QED
    BY <2>1 DEF V
<1> DEFINE g == CHOOSE F : Eq(F)
<1>4. Eq(g)
  <2> HIDE DEF Eq
  <2> QED
    BY <1>3
<1>5. SubcommandStart(family, words) = g[1]
  BY DEF SubcommandStart
<1> HIDE DEF g
<1>6. StartsFrom(g, family, words)
  BY <1>4 DEF StartsFrom
<1> QED
  BY <1>5, <1>6

LEMMA OperandsTyped ==
  ASSUME NEW family, NEW words, Len(words) \in Nat, NEW r, NEW f,
         OperandsFrom(f, family, words, r)
  PROVE  \A k \in Nat \ {0}, b \in BOOLEAN : f[<<k, b>>] \in Seq(TextsOf(words))
<1> DEFINE A == TextsOf(words)
           G == {k \in Nat : f[<<k, TRUE>>] \in Seq(A) /\ f[<<k, FALSE>>] \in Seq(A)}
<1>0. ASSUME NEW i \in Nat, NEW sub \in BOOLEAN
      PROVE  f[<<i, sub>>] = IF i > Len(words) THEN << >>
                    ELSE IF words[i].t = "--" THEN RestAfter(words, i)
                    ELSE IF TakesNext(family, words, r, i, sub) THEN f[<<i + 2, sub>>]
                    ELSE IF IsFlag(words[i]) THEN f[<<i + 1, sub>>]
                    ELSE <<NormalizeArg(words[i].t)>> \o f[<<i + 1, TRUE>>]
  BY Zenon DEF OperandsFrom
<1>e. << >> \in Seq(A)
  OBVIOUS
<1>1. \A k \in Nat : k > Len(words) => k \in G
  <2> HIDE DEF A
  <2> QED
    BY <1>0, <1>e
<1>2. ASSUME NEW k \in 1..Len(words), \A j \in Nat : j > k => j \in G
      PROVE  k \in G
  <2>0. /\ k \in Nat /\ ~(k > Len(words)) /\ k \in 0..Len(words)
        /\ k + 1 \in Nat /\ k + 1 > k /\ k + 2 \in Nat /\ k + 2 > k
    OBVIOUS
  <2>1. k + 1 \in G /\ k + 2 \in G
    <3> HIDE DEF G
    <3> QED
      BY <1>2, <2>0
  <2>2. NormalizeArg(words[k].t) \in A /\ RestAfter(words, k) \in Seq(A)
    BY <2>0, RestTyped DEF TextsOf
  <2>3. \A s \in Seq(A) : <<NormalizeArg(words[k].t)>> \o s \in Seq(A)
    <3> HIDE DEF A
    <3> QED
      BY <2>2
  <2>4. ASSUME NEW b \in BOOLEAN, f[<<k + 1, b>>] \in Seq(A), f[<<k + 2, b>>] \in Seq(A)
        PROVE  f[<<k, b>>] \in Seq(A)
    <3>1. f[<<k + 1, TRUE>>] \in Seq(A)
      BY <2>1
    <3> HIDE DEF A, G
    <3> QED
      BY <1>0, <2>0, <2>2, <2>3, <2>4, <3>1, Zenon
  <2>5. f[<<k, TRUE>>] \in Seq(A) /\ f[<<k, FALSE>>] \in Seq(A)
    <3>1. /\ f[<<k + 1, TRUE>>] \in Seq(A) /\ f[<<k + 2, TRUE>>] \in Seq(A)
          /\ f[<<k + 1, FALSE>>] \in Seq(A) /\ f[<<k + 2, FALSE>>] \in Seq(A)
      BY <2>1
    <3> HIDE DEF A, G
    <3> QED
      BY <2>4, <3>1, Zenon
  <2> QED
    BY <2>0, <2>5
<1> HIDE DEF G
<1>3. \A k \in Nat \ {0} : k \in G
  BY <1>1, <1>2, CountingDown
<1>4. ASSUME NEW k \in Nat \ {0}, NEW b \in BOOLEAN PROVE f[<<k, b>>] \in Seq(A)
  <2>1. f[<<k, TRUE>>] \in Seq(A) /\ f[<<k, FALSE>>] \in Seq(A)
    BY <1>3 DEF G
  <2> HIDE DEF A
  <2> QED
    BY <2>1
<1> QED
  BY <1>4

\* The words and the operands after one.
LEMMA RestGoes ==
  ASSUME NEW words, Len(words) \in Nat, NEW i \in 0..Len(words)
  PROVE  /\ i = Len(words) => RestAfter(words, i) = << >>
         /\ i < Len(words) => RestAfter(words, i) =
                                <<NormalizeArg(words[i + 1].t)>> \o RestAfter(words, i + 1)
<1>0. i \in Nat /\ Len(words) - i \in Nat
  OBVIOUS
<1>1. CASE i = Len(words)
  <2>1. Len(RestAfter(words, i)) = 0 /\ RestAfter(words, i) \in Seq(TextsOf(words))
    BY <1>1, RestTyped
  <2>2. RestAfter(words, i) = << >>
    <3> DEFINE s == RestAfter(words, i)
    <3> HIDE DEF s
    <3> QED
      BY <2>1 DEF s
  <2> QED
    BY <1>1, <2>2
<1>2. CASE i < Len(words)
  <2> DEFINE n == Len(words) - i
             x == NormalizeArg(words[i + 1].t)
             s == RestAfter(words, i + 1)
             t == RestAfter(words, i)
             A == TextsOf(words)
  <2>1. s \in Seq(A) /\ t \in Seq(A) /\ Len(s) = n - 1 /\ Len(t) = n /\ n \in Nat \ {0}
    <3>1. i + 1 \in 0..Len(words) /\ Len(words) - (i + 1) = (Len(words) - i) - 1
      BY <1>0, <1>2
    <3>2. Len(words) - i \in Nat \ {0}
      BY <1>0, <1>2
    <3> QED
      BY <3>1, <3>2, RestTyped
  <2>2. x \in A
    BY <1>0 DEF TextsOf
  <2>3. t[1] = x
    <3>1. 1 \in 1..(Len(words) - i)
      BY <1>0, <1>2
    <3> QED
      BY <3>1 DEF RestAfter
  <2>4. ASSUME NEW k \in 1..(n - 1) PROVE t[k + 1] = s[k]
    <3>1. k + 1 \in 1..(Len(words) - i) /\ k \in 1..(Len(words) - (i + 1)) /\ i + (k + 1) = (i + 1) + k
      BY <1>0, <2>1
    <3> QED
      BY <3>1 DEF RestAfter
  <2> HIDE DEF x, s, t, n, A
  <2>5. /\ <<x>> \o s \in Seq(A) /\ Len(<<x>> \o s) = n
        /\ (<<x>> \o s)[1] = x
        /\ \A k \in 1..(n - 1) : (<<x>> \o s)[k + 1] = s[k]
    BY <2>1, <2>2, Joined
  <2>6. ASSUME NEW k \in 1..n PROVE t[k] = (<<x>> \o s)[k]
    <3>1. CASE k = 1
      BY <2>3, <2>5, <3>1
    <3>2. CASE k # 1
      <4>1. k - 1 \in 1..(n - 1) /\ (k - 1) + 1 = k
        BY <2>1, <3>2
      <4> QED
        BY <2>4, <2>5, <4>1
    <3> QED
      BY <3>1, <3>2
  <2>7. t = <<x>> \o s
    <3> DEFINE u == <<x>> \o s
    <3> HIDE DEF u
    <3>1. t \in Seq(A) /\ u \in Seq(A) /\ Len(t) = Len(u) /\ \A k \in 1..Len(t) : t[k] = u[k]
      BY <2>1, <2>5, <2>6 DEF u
    <3>2. t = u
      BY <3>1, SeqEqual
    <3> QED
      BY <3>2 DEF u
  <2> QED
    BY <1>2, <2>7 DEF x, s, t
<1> QED
  BY <1>1, <1>2

\* Words that are kept are words of the line.
LEMMA StripTyped ==
  ASSUME NEW words, Len(words) \in Nat, NEW flags, NEW everywhere \in BOOLEAN, NEW s,
         StripFrom(s, words, flags, everywhere)
  PROVE  \A k \in Nat \ {0}, on \in BOOLEAN : s[<<k, on>>] \in Seq({words[i] : i \in Nat})
<1> DEFINE A == {words[i] : i \in Nat}
           Good(k) == s[<<k, TRUE>>] \in Seq(A) /\ s[<<k, FALSE>>] \in Seq(A)
           G == {k \in Nat : Good(k)}
<1>0. ASSUME NEW k \in Nat, NEW on \in BOOLEAN
      PROVE  \E next \in BOOLEAN :
               /\ k > Len(words) => s[<<k, on>>] = << >>
               /\ ~(k > Len(words)) => \/ s[<<k, on>>] = s[<<k + 2, on>>]
                                       \/ s[<<k, on>>] = <<words[k]>> \o s[<<k + 1, next>>]
  <2> DEFINE next == everywhere \/ (on /\ Keeps(words, k))
  <2>1. s[<<k, on>>] = IF k > Len(words) THEN << >>
                   ELSE IF on /\ Strips(words, flags, everywhere, k) THEN s[<<k + 2, on>>]
                   ELSE <<words[k]>> \o s[<<k + 1, next>>]
    BY Zenon DEF StripFrom
  <2>2. next \in BOOLEAN
    BY Zenon DEF Keeps, IsFlag
  <2> HIDE DEF next
  <2> QED
    BY <2>1, <2>2, Zenon
<1>e. << >> \in Seq(A)
  OBVIOUS
<1>1. \A k \in Nat : k > Len(words) => k \in G
  <2>1. ASSUME NEW k \in Nat, k > Len(words) PROVE Good(k)
    <3> HIDE DEF A
    <3>1. TRUE \in BOOLEAN /\ FALSE \in BOOLEAN
      OBVIOUS
    <3> QED
      BY <1>0, <1>e, <2>1, <3>1, Zenon
  <2> HIDE DEF Good
  <2> QED
    BY <2>1
<1>2. ASSUME NEW k \in 1..Len(words), \A j \in Nat : j > k => j \in G
      PROVE  k \in G
  <2>0. /\ k \in Nat /\ ~(k > Len(words))
        /\ k + 1 \in Nat /\ k + 1 > k /\ k + 2 \in Nat /\ k + 2 > k
    OBVIOUS
  <2>1. k + 1 \in G /\ k + 2 \in G
    <3> HIDE DEF G
    <3> QED
      BY <1>2, <2>0
  <2>2. Good(k + 1) /\ Good(k + 2)
    <3> HIDE DEF Good
    <3> QED
      BY <2>1
  <2>3. \A t \in Seq(A) : <<words[k]>> \o t \in Seq(A)
    <3>1. words[k] \in A
      BY <2>0
    <3> HIDE DEF A
    <3> QED
      BY <3>1
  <2>4. ASSUME NEW on \in BOOLEAN, s[<<k + 2, on>>] \in Seq(A) PROVE s[<<k, on>>] \in Seq(A)
    <3>1. \A next \in BOOLEAN : s[<<k + 1, next>>] \in Seq(A)
      <4>1. \A b \in BOOLEAN : b = TRUE \/ b = FALSE
        OBVIOUS
      <4> HIDE DEF A, G
      <4> QED
        BY <2>2, <4>1, Zenon
    <3> HIDE DEF A, G
    <3> QED
      BY <1>0, <2>0, <2>3, <2>4, <3>1, ZenonT(30)
  <2>5. Good(k)
    <3> HIDE DEF A, G
    <3> QED
      BY <2>2, <2>4, Zenon
  <2> HIDE DEF Good
  <2> QED
    BY <2>0, <2>5
<1> HIDE DEF G
<1>3. \A k \in Nat \ {0} : k \in G
  BY <1>1, <1>2, CountingDown
<1>4. ASSUME NEW k \in Nat \ {0}, NEW on \in BOOLEAN PROVE s[<<k, on>>] \in Seq(A)
  <2>1. Good(k)
    <3> HIDE DEF Good
    <3> QED
      BY <1>3 DEF G
  <2>2. on = TRUE \/ on = FALSE
    OBVIOUS
  <2> HIDE DEF A
  <2> QED
    BY <2>1, <2>2, Zenon
<1> QED
  BY <1>4

\* What an entry is compared with, from a word on.
StripSteps(s, words, flags, everywhere) ==
  \A k \in Nat \ {0}, on \in BOOLEAN :
    /\ k > Len(words) => PlainArgs(s[<<k, on>>]) = << >>
    /\ ~(k > Len(words)) /\ on /\ Strips(words, flags, everywhere, k) =>
         PlainArgs(s[<<k, on>>]) = PlainArgs(s[<<k + 2, on>>])
    /\ ~(k > Len(words)) /\ ~(on /\ Strips(words, flags, everywhere, k)) =>
         \A next \in BOOLEAN : (next <=> everywhere \/ (on /\ Keeps(words, k))) =>
           PlainArgs(s[<<k, on>>]) =
             IF IsFlag(words[k]) THEN PlainArgs(s[<<k + 1, next>>])
             ELSE <<NormalizeArg(words[k].t)>> \o PlainArgs(s[<<k + 1, next>>])

LEMMA StripGoes ==
  ASSUME NEW words, Len(words) \in Nat, NEW flags, NEW everywhere \in BOOLEAN, NEW s,
         StripFrom(s, words, flags, everywhere)
  PROVE  StripSteps(s, words, flags, everywhere)
<1> SUFFICES ASSUME NEW k \in Nat \ {0}, NEW on \in BOOLEAN
    PROVE  /\ k > Len(words) => PlainArgs(s[<<k, on>>]) = << >>
           /\ ~(k > Len(words)) /\ on /\ Strips(words, flags, everywhere, k) =>
                PlainArgs(s[<<k, on>>]) = PlainArgs(s[<<k + 2, on>>])
           /\ ~(k > Len(words)) /\ ~(on /\ Strips(words, flags, everywhere, k)) =>
                \A next \in BOOLEAN : (next <=> everywhere \/ (on /\ Keeps(words, k))) =>
                  PlainArgs(s[<<k, on>>]) =
                    IF IsFlag(words[k]) THEN PlainArgs(s[<<k + 1, next>>])
                    ELSE <<NormalizeArg(words[k].t)>> \o PlainArgs(s[<<k + 1, next>>])
  BY Zenon DEF StripSteps
<1> DEFINE A == {words[i] : i \in Nat}
<1>1. s[<<k, on>>] = IF k > Len(words) THEN << >>
                   ELSE IF on /\ Strips(words, flags, everywhere, k) THEN s[<<k + 2, on>>]
                   ELSE <<words[k]>> \o s[<<k + 1, everywhere \/ (on /\ Keeps(words, k))>>]
  BY Zenon DEF StripFrom
<1>2. ASSUME ~(k > Len(words)), ~(on /\ Strips(words, flags, everywhere, k)),
             NEW next \in BOOLEAN, next <=> everywhere \/ (on /\ Keeps(words, k))
      PROVE  PlainArgs(s[<<k, on>>]) =
                  IF IsFlag(words[k]) THEN PlainArgs(s[<<k + 1, next>>])
                  ELSE <<NormalizeArg(words[k].t)>> \o PlainArgs(s[<<k + 1, next>>])
  <2>1. next = (everywhere \/ (on /\ Keeps(words, k)))
    BY <1>2, Zenon
  <2>2. s[<<k, on>>] = <<words[k]>> \o s[<<k + 1, next>>]
    BY <1>1, <1>2, <2>1, Zenon
  <2>3. k + 1 \in Nat \ {0} /\ words[k] \in A
    OBVIOUS
  <2>4. s[<<k + 1, next>>] \in Seq(A)
    BY <2>3, StripTyped
  <2>5. \A t \in Seq(A) : PlainArgs(<<words[k]>> \o t) =
            IF IsFlag(words[k]) THEN PlainArgs(t) ELSE <<NormalizeArg(words[k].t)>> \o PlainArgs(t)
    <3> HIDE DEF A
    <3> QED
      BY <2>3, PlainOfMore
  <2> HIDE DEF A
  <2> QED
    BY <2>2, <2>4, <2>5, Zenon
<1>3. k > Len(words) => PlainArgs(s[<<k, on>>]) = << >>
  BY <1>1, PlainOfNone, Zenon
<1>4. ~(k > Len(words)) /\ on /\ Strips(words, flags, everywhere, k) =>
              PlainArgs(s[<<k, on>>]) = PlainArgs(s[<<k + 2, on>>])
  BY <1>1, Zenon
<1> QED
  BY <1>2, <1>3, <1>4, Zenon

\* What is left of the line is all operands if none of it is a flag.
LEMMA AllOperands ==
  ASSUME NEW words, Len(words) \in Nat, NEW k \in 1..(Len(words) + 1), NEW q,
         q[Len(words) + 1] = << >>,
         \A j \in k..Len(words) : q[j] = <<NormalizeArg(words[j].t)>> \o q[j + 1]
  PROVE  q[k] = RestAfter(words, k - 1)
<1> DEFINE G == {j \in Nat : j \in k..(Len(words) + 1) => q[j] = RestAfter(words, j - 1)}
<1>1. \A j \in Nat : j > Len(words) => j \in G
  <2>1. ASSUME NEW j \in Nat, j > Len(words), j \in k..(Len(words) + 1)
        PROVE  q[j] = RestAfter(words, j - 1)
    <3>1. j = Len(words) + 1 /\ j - 1 = Len(words) /\ Len(words) \in 0..Len(words)
      BY <2>1
    <3>2. RestAfter(words, Len(words)) = << >>
      BY <3>1, RestGoes
    <3> QED
      BY <3>1, <3>2
  <2> QED
    BY <2>1
<1>2. ASSUME NEW j \in 1..Len(words), \A m \in Nat : m > j => m \in G
      PROVE  j \in G
  <2>1. ASSUME j \in k..(Len(words) + 1) PROVE q[j] = RestAfter(words, j - 1)
    <3>1. /\ j \in Nat /\ j + 1 \in Nat /\ j + 1 > j /\ (j + 1) - 1 = j
          /\ j + 1 \in k..(Len(words) + 1) /\ j \in k..Len(words)
          /\ j - 1 \in 0..Len(words) /\ j - 1 < Len(words) /\ (j - 1) + 1 = j
      BY <2>1
    <3>2. j + 1 \in G
      <4> HIDE DEF G
      <4> QED
        BY <1>2, <3>1
    <3>3. q[j + 1] = RestAfter(words, j)
      BY <3>1, <3>2
    <3>4. RestAfter(words, j - 1) = <<NormalizeArg(words[j].t)>> \o RestAfter(words, j)
      BY <3>1, RestGoes
    <3> QED
      BY <3>1, <3>3, <3>4
  <2> QED
    BY <2>1
<1> HIDE DEF G
<1>3. \A j \in Nat \ {0} : j \in G
  BY <1>1, <1>2, CountingDown
<1>4. k \in Nat \ {0} /\ k \in k..(Len(words) + 1)
  OBVIOUS
<1> QED
  BY <1>3, <1>4 DEF G

\* No flag is given after a "--".
EndsFlags(words) == \A i, j \in 1..Len(words) : i < j /\ words[i].t = "--" => ~IsFlag(words[j])

LEMMA StripsRest ==
  ASSUME NEW words, Len(words) \in Nat, NEW flags, flags \subseteq FlagTexts,
         NEW everywhere \in BOOLEAN, NEW s, StripFrom(s, words, flags, everywhere),
         NEW k \in 1..Len(words), words[k].t = "--", EndsFlags(words)
  PROVE  PlainArgs(s[<<k + 1, everywhere>>]) = RestAfter(words, k)
<1>s. StripSteps(s, words, flags, everywhere)
  BY StripGoes
<1> DEFINE q == [j \in Nat |-> PlainArgs(s[<<j, everywhere>>])]
<1>1. q[Len(words) + 1] = << >>
  <2>1. Len(words) + 1 \in Nat \ {0} /\ Len(words) + 1 > Len(words)
    OBVIOUS
  <2> QED
    BY <1>s, <2>1, Zenon DEF StripSteps
<1>2. ASSUME NEW j \in (k + 1)..Len(words) PROVE q[j] = <<NormalizeArg(words[j].t)>> \o q[j + 1]
  <2>1. /\ j \in Nat \ {0} /\ ~(j > Len(words)) /\ j \in Nat /\ j + 1 \in Nat
        /\ j \in 1..Len(words) /\ k < j
    OBVIOUS
  <2>2. ~IsFlag(words[j])
    BY <2>1 DEF EndsFlags
  <2>3. ~Keeps(words, j) /\ ~Strips(words, flags, everywhere, j)
    BY <2>2 DEF Keeps, Strips, IsFlag
  <2>4. everywhere <=> everywhere \/ (everywhere /\ Keeps(words, j))
    BY <2>3, Zenon
  <2>5. ~(everywhere /\ Strips(words, flags, everywhere, j))
    BY <2>3, Zenon
  <2>6. PlainArgs(s[<<j, everywhere>>]) =
          <<NormalizeArg(words[j].t)>> \o PlainArgs(s[<<j + 1, everywhere>>])
    BY <1>s, <2>1, <2>2, <2>4, <2>5, Zenon DEF StripSteps
  <2> QED
    BY <2>1, <2>6
<1>3. k + 1 \in 1..(Len(words) + 1) /\ (k + 1) - 1 = k /\ k + 1 \in Nat
  OBVIOUS
<1>4. q[k + 1] = RestAfter(words, (k + 1) - 1)
  <2> HIDE DEF q
  <2> QED
    BY <1>1, <1>2, <1>3, AllOperands
<1> QED
  BY <1>3, <1>4

\* Without globals and flags, the words that an entry is compared with are the
\* operands.
LEMMA StripMatches ==
  ASSUME NEW family \in {"codex", "uv", "logcli"}, NEW words, Len(words) \in Nat,
         NEW flags, flags \subseteq FlagTexts \ {"--"},
         \A i \in 1..Len(words) : words[i].t \in flags <=> words[i].t \in TakesValue,
         family = "logcli" => flags = {},
         NEW everywhere \in BOOLEAN, everywhere <=> family # "codex", EndsFlags(words),
         NEW s, StripFrom(s, words, flags, everywhere), NEW o, OperandsFrom(o, family, words, {})
  PROVE  PlainArgs(s[<<1, TRUE>>]) = o[<<1, FALSE>>]
<1> DEFINE P(k, on) == PlainArgs(s[<<k, on>>])
           Good(k) == P(k, TRUE) = o[<<k, FALSE>>] /\ P(k, everywhere) = o[<<k, TRUE>>]
           G == {k \in Nat : Good(k)}
           V(k) == words[k].t \in flags
<1>s. StripSteps(s, words, flags, everywhere)
  BY StripGoes
<1>b. /\ TRUE \in BOOLEAN /\ FALSE \in BOOLEAN
      /\ flags \subseteq FlagTexts
  OBVIOUS
<1>0. ASSUME NEW k \in 1..Len(words), NEW sub \in BOOLEAN
      PROVE  /\ words[k].t = "--" => o[<<k, sub>>] = RestAfter(words, k)
             /\ V(k) /\ (sub => family = "uv") => o[<<k, sub>>] = o[<<k + 2, sub>>]
             /\ IsFlag(words[k]) /\ words[k].t # "--" /\ ~(V(k) /\ (sub => family = "uv")) =>
                  o[<<k, sub>>] = o[<<k + 1, sub>>]
             /\ ~IsFlag(words[k]) =>
                  o[<<k, sub>>] = <<NormalizeArg(words[k].t)>> \o o[<<k + 1, TRUE>>]
  <2>1. k \in Nat /\ ~(k > Len(words)) /\ k \notin {}
    OBVIOUS
  <2>2. o[<<k, sub>>] = IF k > Len(words) THEN << >>
                    ELSE IF words[k].t = "--" THEN RestAfter(words, k)
                    ELSE IF TakesNext(family, words, {}, k, sub) THEN o[<<k + 2, sub>>]
                    ELSE IF IsFlag(words[k]) THEN o[<<k + 1, sub>>]
                    ELSE <<NormalizeArg(words[k].t)>> \o o[<<k + 1, TRUE>>]
    BY <2>1, Zenon DEF OperandsFrom
  <2>3. TakesNext(family, words, {}, k, sub) <=> V(k) /\ (sub => family = "uv")
    BY <2>1, Zenon DEF TakesNext
  <2>4. /\ V(k) => words[k].t # "--" /\ IsFlag(words[k])
        /\ ~IsFlag(words[k]) => words[k].t # "--"
    BY DEF IsFlag, FlagTexts
  <2> HIDE DEF V
  <2> QED
    BY <2>1, <2>2, <2>3, <2>4, Zenon
<1>1. ASSUME NEW k \in Nat \ {0}, k > Len(words), NEW sub \in BOOLEAN
      PROVE  o[<<k, sub>>] = << >>
  <2>1. o[<<k, sub>>] = IF k > Len(words) THEN << >>
                    ELSE IF words[k].t = "--" THEN RestAfter(words, k)
                    ELSE IF TakesNext(family, words, {}, k, sub) THEN o[<<k + 2, sub>>]
                    ELSE IF IsFlag(words[k]) THEN o[<<k + 1, sub>>]
                    ELSE <<NormalizeArg(words[k].t)>> \o o[<<k + 1, TRUE>>]
    BY Zenon DEF OperandsFrom
  <2> QED
    BY <1>1, <2>1, Zenon
<1>2. ASSUME NEW k \in Nat \ {0}, k > Len(words) PROVE Good(k)
  <2>1. \A on \in BOOLEAN : P(k, on) = << >>
    BY <1>s, <1>2, Zenon DEF StripSteps
  <2> HIDE DEF P
  <2> QED
    BY <1>1, <1>2, <1>b, <2>1, Zenon
<1>3. ASSUME NEW k \in 1..Len(words), Good(k + 1), Good(k + 2)
      PROVE  Good(k)
  <2>0. /\ k \in Nat \ {0} /\ k \in Nat /\ ~(k > Len(words))
        /\ k + 1 \in Nat \ {0} /\ k + 2 \in Nat \ {0}
    OBVIOUS
  <2>1. ASSUME NEW on \in BOOLEAN
        PROVE  /\ on /\ Strips(words, flags, everywhere, k) => P(k, on) = P(k + 2, on)
               /\ ~(on /\ Strips(words, flags, everywhere, k)) =>
                   \A next \in BOOLEAN : (next <=> everywhere \/ (on /\ Keeps(words, k))) =>
                     P(k, on) = IF IsFlag(words[k]) THEN P(k + 1, next)
                                ELSE <<NormalizeArg(words[k].t)>> \o P(k + 1, next)
    BY <1>s, <2>0, Zenon DEF StripSteps
  <2>2. Strips(words, flags, everywhere, k) <=> V(k) /\ (k < Len(words) \/ ~everywhere)
    BY Zenon DEF Strips
  <2>3. /\ V(k) => words[k].t # "--" /\ IsFlag(words[k])
        /\ ~IsFlag(words[k]) => words[k].t # "--"
    BY DEF IsFlag, FlagTexts
  <2>4. Keeps(words, k) <=> IsFlag(words[k]) /\ words[k].t # "--"
    BY Zenon DEF Keeps
  <2>5. CASE words[k].t = "--"
    <3>1. P(k + 1, everywhere) = RestAfter(words, k)
      BY <1>b, <2>5, StripsRest
    <3>2. /\ o[<<k, FALSE>>] = RestAfter(words, k)
          /\ o[<<k, TRUE>>] = RestAfter(words, k)
      BY <1>0, <1>b, <2>5, Zenon
    <3>3. ~V(k) /\ IsFlag(words[k]) /\ ~Keeps(words, k)
      BY <2>3, <2>4, <2>5, Zenon DEF IsFlag, FlagTexts
    <3>4. ~Strips(words, flags, everywhere, k)
      <4> HIDE DEF V
      <4> QED
        BY <2>2, <3>3, Zenon
    <3>5. ASSUME NEW on \in BOOLEAN PROVE P(k, on) = P(k + 1, everywhere)
      <4>1. everywhere <=> everywhere \/ (on /\ Keeps(words, k))
        BY <3>3, Zenon
      <4> HIDE DEF P
      <4> QED
        BY <2>1, <3>3, <3>4, <4>1, Zenon
    <3> HIDE DEF P
    <3> QED
      BY <1>b, <3>1, <3>2, <3>5, Zenon
  <2>6. CASE V(k)
    <3>1. words[k].t # "--" /\ IsFlag(words[k]) /\ Keeps(words, k) /\ family # "logcli"
      <4>1. flags # {}
        BY <2>6
      <4> HIDE DEF V
      <4> QED
        BY <2>3, <2>4, <2>6, <4>1, Zenon
    <3>2. o[<<k, FALSE>>] = o[<<k + 2, FALSE>>]
      <4> HIDE DEF V
      <4> QED
        BY <1>0, <1>b, <2>6, Zenon
    <3>3. P(k, TRUE) = o[<<k, FALSE>>]
      <4>1. CASE k < Len(words) \/ ~everywhere
        <5>1. P(k, TRUE) = P(k + 2, TRUE)
          <6> HIDE DEF V, P
          <6> QED
            BY <1>b, <2>1, <2>2, <2>6, <4>1, Zenon
        <5> HIDE DEF P
        <5> QED
          BY <1>3, <3>2, <5>1, Zenon
      <4>2. CASE ~(k < Len(words) \/ ~everywhere)
        <5>1. k + 1 > Len(words) /\ k + 2 > Len(words)
          BY <4>2
        <5>2. ~Strips(words, flags, everywhere, k)
          BY <2>2, <4>2, Zenon
        <5>3. P(k, TRUE) = P(k + 1, TRUE)
          <6>1. TRUE <=> everywhere \/ (TRUE /\ Keeps(words, k))
            BY <3>1, Zenon
          <6> HIDE DEF P
          <6> QED
            BY <1>b, <2>1, <3>1, <5>2, <6>1, Zenon
        <5>4. P(k + 1, TRUE) = << >>
          BY <1>s, <1>b, <2>0, <5>1, Zenon DEF StripSteps
        <5>5. o[<<k + 2, FALSE>>] = << >>
          BY <1>1, <1>b, <2>0, <5>1, Zenon
        <5> HIDE DEF P
        <5> QED
          BY <3>2, <5>3, <5>4, <5>5, Zenon
      <4> QED
        BY <4>1, <4>2, Zenon
    <3>4. P(k, everywhere) = o[<<k, TRUE>>]
      <4>1. CASE ~everywhere
        <5>1. family = "codex" /\ family # "uv"
          BY <4>1
        <5>2. o[<<k, TRUE>>] = o[<<k + 1, TRUE>>]
          <6> HIDE DEF V
          <6> QED
            BY <1>0, <1>b, <3>1, <5>1, Zenon
        <5>3. everywhere <=> everywhere \/ (everywhere /\ Keeps(words, k))
          BY <4>1, Zenon
        <5>4. P(k, everywhere) = P(k + 1, everywhere)
          <6> HIDE DEF P
          <6> QED
            BY <1>b, <2>1, <3>1, <4>1, <5>3, Zenon
        <5> HIDE DEF P
        <5> QED
          BY <1>3, <5>2, <5>4, Zenon
      <4>2. CASE everywhere
        <5>0. family = "uv"
          BY <3>1, <4>2
        <5>00. everywhere = TRUE
          BY <4>2, Zenon
        <5>1. o[<<k, TRUE>>] = o[<<k + 2, TRUE>>]
          <6> HIDE DEF V
          <6> QED
            BY <1>0, <1>b, <2>6, <5>0, Zenon
        <5>2. CASE k < Len(words)
          <6>1. P(k, everywhere) = P(k + 2, everywhere)
            <7> HIDE DEF V, P
            <7> QED
              BY <1>b, <2>1, <2>2, <2>6, <4>2, <5>2, Zenon
          <6> HIDE DEF P
          <6> QED
            BY <1>3, <5>1, <6>1, Zenon
        <5>3. CASE ~(k < Len(words))
          <6>1. k + 1 > Len(words) /\ k + 2 > Len(words)
            BY <5>3
          <6>2. ~Strips(words, flags, everywhere, k)
            BY <2>2, <4>2, <5>3, Zenon
          <6>3. P(k, everywhere) = P(k + 1, everywhere)
            <7>1. everywhere <=> everywhere \/ (everywhere /\ Keeps(words, k))
              BY Zenon
            <7> HIDE DEF P
            <7> QED
              BY <1>b, <2>1, <3>1, <6>2, <7>1, Zenon
          <6>4. P(k + 1, everywhere) = << >>
            BY <1>s, <1>b, <2>0, <6>1, Zenon DEF StripSteps
          <6>5. o[<<k + 2, TRUE>>] = << >>
            BY <1>1, <1>b, <2>0, <6>1, Zenon
          <6> HIDE DEF P
          <6> QED
            BY <5>1, <6>3, <6>4, <6>5, Zenon
        <5> QED
          BY <5>2, <5>3, Zenon
      <4> QED
        BY <4>1, <4>2, Zenon
    <3> HIDE DEF P
    <3> QED
      BY <3>3, <3>4, Zenon
  <2>7. CASE words[k].t # "--" /\ ~V(k)
    <3>1. ~Strips(words, flags, everywhere, k)
      <4> HIDE DEF V
      <4> QED
        BY <2>2, <2>7, Zenon
    <3>2. CASE IsFlag(words[k])
      <4>1. Keeps(words, k)
        BY <2>4, <2>7, <3>2, Zenon
      <4>2. TRUE <=> everywhere \/ (TRUE /\ Keeps(words, k))
        BY <4>1, Zenon
      <4>3. everywhere <=> everywhere \/ (everywhere /\ Keeps(words, k))
        BY Zenon
      <4>4. P(k, TRUE) = P(k + 1, TRUE) /\ P(k, everywhere) = P(k + 1, everywhere)
        <5> HIDE DEF P
        <5> QED
          BY <1>b, <2>1, <3>1, <3>2, <4>2, <4>3, Zenon
      <4>5. o[<<k, TRUE>>] = o[<<k + 1, TRUE>>] /\ o[<<k, FALSE>>] = o[<<k + 1, FALSE>>]
        <5> HIDE DEF V
        <5> QED
          BY <1>0, <1>b, <2>7, <3>2, Zenon
      <4> HIDE DEF P
      <4> QED
        BY <1>3, <4>4, <4>5, Zenon
    <3>3. CASE ~IsFlag(words[k])
      <4>1. ~Keeps(words, k)
        BY <2>4, <3>3, Zenon
      <4>2. \A on \in BOOLEAN : everywhere <=> everywhere \/ (on /\ Keeps(words, k))
        BY <4>1, Zenon
      <4>4. \A on \in BOOLEAN : P(k, on) = <<NormalizeArg(words[k].t)>> \o P(k + 1, everywhere)
        <5> HIDE DEF P
        <5> QED
          BY <1>b, <2>1, <3>1, <3>3, <4>2, Zenon
      <4>5. \A sub \in BOOLEAN : o[<<k, sub>>] = <<NormalizeArg(words[k].t)>> \o o[<<k + 1, TRUE>>]
        <5> HIDE DEF V
        <5> QED
          BY <1>0, <3>3, Zenon
      <4> HIDE DEF P
      <4> QED
        BY <1>3, <1>b, <4>4, <4>5, Zenon
    <3> QED
      BY <3>2, <3>3, Zenon
  <2> QED
    BY <2>5, <2>6, <2>7, Zenon
<1>4. \A k \in Nat : k > Len(words) => k \in G
  <2> HIDE DEF Good
  <2>1. \A k \in Nat : k > Len(words) => k \in Nat \ {0}
    OBVIOUS
  <2> QED
    BY <1>2, <2>1
<1>5. ASSUME NEW k \in 1..Len(words), \A j \in Nat : j > k => j \in G
      PROVE  k \in G
  <2>1. k \in Nat /\ k + 1 \in Nat /\ k + 1 > k /\ k + 2 \in Nat /\ k + 2 > k
    OBVIOUS
  <2>2. Good(k + 1) /\ Good(k + 2)
    <3> HIDE DEF Good
    <3> QED
      BY <1>5, <2>1
  <2>3. Good(k)
    <3> HIDE DEF Good
    <3> QED
      BY <1>3, <2>2
  <2> HIDE DEF Good
  <2> QED
    BY <2>1, <2>3
<1>6. 1 \in G
  <2>1. 1 \in Nat \ {0}
    OBVIOUS
  <2> HIDE DEF G
  <2>2. \A k \in Nat \ {0} : k \in G
    BY <1>4, <1>5, CountingDown
  <2> QED
    BY <2>1, <2>2
<1>7. Good(1)
  <2> HIDE DEF Good
  <2> QED
    BY <1>6
<1> QED
  BY <1>7

-----------------------------------------------------------------------------
(* What the allowlist allows is what runs. *)

\* A sequence that begins with a word has it as a prefix.
LEMMA FirstIsPrefix ==
  ASSUME NEW X, NEW t \in Seq(X), t # << >>, NEW x, t[1] = x
  PROVE  IsPrefix(<<x>>, t)
<1>1. Len(t) \in Nat /\ Len(t) # 0 /\ Len(<<x>>) = 1
  OBVIOUS
<1>2. Len(<<x>>) <= Len(t)
  BY <1>1
<1>3. SubSeq(<<x>>, 1, 1) = <<x>> /\ SubSeq(t, 1, 1) = <<t[1]>>
  <2>1. t[1] \in X /\ 1 \in 1..Len(t) /\ 1 \in Int
    BY <1>1
  <2>2. \A i \in 1..1 : t[i] \in X
    BY <2>1
  <2>3. /\ SubSeq(t, 1, 1) \in Seq(X) /\ Len(SubSeq(t, 1, 1)) = 1
        /\ SubSeq(t, 1, 1)[1] = t[1]
    BY <2>1, <2>2, SubSeqProperties
  <2>4. SubSeq(t, 1, 1) = <<t[1]>>
    <3> DEFINE u == SubSeq(t, 1, 1)
    <3>1. u \in Seq(X) /\ Len(u) = 1 /\ u[1] = t[1]
      BY <2>3
    <3> HIDE DEF u
    <3>2. u = <<t[1]>>
      BY <3>1
    <3> QED
      BY <3>2 DEF u
  <2>5. SubSeq(<<x>>, 1, 1) = <<x>>
    <3>1. <<x>> \in Seq({x}) /\ Len(<<x>>) = 1
      OBVIOUS
    <3>2. SubSeq(<<x>>, 1, Len(<<x>>)) = <<x>>
      BY <3>1, SubSeqFull
    <3> QED
      BY <3>1, <3>2, Zenon
  <2> QED
    BY <2>4, <2>5
<1> QED
  BY <1>1, <1>2, <1>3 DEF IsPrefix

\* The two scans for the subcommand agree, and the tool takes what they find.
ScansAgree(found, start, words, run) ==
  /\ found.kind = "absent" => start = Len(words) + 1
  /\ found.kind = "resolved" =>
       /\ start \in 1..Len(words) /\ words[start].t = found.word
       /\ run # << >> /\ run[1] = NormalizeArg(found.word)

LEMMA StartsAgree ==
  ASSUME NEW family, NEW words, Len(words) \in Nat,
         ValueFlags(family, words) \subseteq FlagTexts \ {"--"},
         \A i \in 1..Len(words) :
            words[i].t \in ValueFlags(family, words) <=> words[i].t \in TakesValue,
         NEW f, ResolvesFrom(f, family, words), NEW g, StartsFrom(g, family, words),
         NEW o, OperandsFrom(o, family, words, {})
  PROVE  ScansAgree(f[1], g[1], words, o[<<1, FALSE>>])
<1> DEFINE V(k) == words[k].t \in ValueFlags(family, words)
           Good(k) == ScansAgree(f[k], g[k], words, o[<<k, FALSE>>])
           G == {k \in Nat : Good(k)}
<1>0. ASSUME NEW k \in Nat
      PROVE  /\ f[k] = IF k > Len(words) THEN ResolvedAt(words, k)
                       ELSE IF words[k].t = "--" THEN ResolvedAt(words, k + 1)
                       ELSE IF V(k)
                            THEN IF k = Len(words) \/ words[k+1].m = "unsafe"
                                 THEN [kind |-> "ambiguous"] ELSE f[k + 2]
                       ELSE IF IsFlag(words[k]) THEN f[k + 1]
                       ELSE ResolvedAt(words, k)
             /\ g[k] = IF k > Len(words) THEN Len(words) + 1
                       ELSE IF words[k].t = "--" THEN k + 1
                       ELSE IF V(k) THEN g[k + 2]
                       ELSE IF IsFlag(words[k]) THEN g[k + 1]
                       ELSE k
             /\ o[<<k, FALSE>>] =
                       IF k > Len(words) THEN << >>
                       ELSE IF words[k].t = "--" THEN RestAfter(words, k)
                       ELSE IF TakesNext(family, words, {}, k, FALSE) THEN o[<<k + 2, FALSE>>]
                       ELSE IF IsFlag(words[k]) THEN o[<<k + 1, FALSE>>]
                       ELSE <<NormalizeArg(words[k].t)>> \o o[<<k + 1, TRUE>>]
  <2>1. TRUE \in BOOLEAN /\ FALSE \in BOOLEAN
    OBVIOUS
  <2> QED
    BY <2>1, Zenon DEF ResolvesFrom, StartsFrom, OperandsFrom
<1>1. \A k \in Nat : k > Len(words) => k \in G
  <2>1. ASSUME NEW k \in Nat, k > Len(words) PROVE Good(k)
    <3>1. ~(k <= Len(words))
      BY <2>1
    <3>2. f[k].kind = "absent" /\ g[k] = Len(words) + 1
      <4>1. f[k] = ResolvedAt(words, k) /\ g[k] = Len(words) + 1
        BY <1>0, <2>1, Zenon
      <4>2. ResolvedAt(words, k) = [kind |-> "absent"]
        BY <3>1, Zenon DEF ResolvedAt
      <4> QED
        BY <4>1, <4>2
    <3> QED
      BY <3>2 DEF ScansAgree
  <2> HIDE DEF Good
  <2> QED
    BY <2>1
<1>2. ASSUME NEW k \in 1..Len(words), Good(k + 1), Good(k + 2) PROVE Good(k)
  <2>0. /\ k \in Nat /\ k + 1 \in Nat \ {0} /\ ~(k > Len(words)) /\ k <= Len(words)
        /\ k \in 0..Len(words) /\ Len(words) - k \in Nat
    OBVIOUS
  <2>1. TakesNext(family, words, {}, k, FALSE) <=> V(k)
    BY <2>0, Zenon DEF TakesNext
  <2>2. /\ V(k) => words[k].t # "--" /\ IsFlag(words[k])
        /\ ~IsFlag(words[k]) => words[k].t # "--"
    BY DEF IsFlag, FlagTexts
  <2>3. CASE words[k].t = "--"
    <3>1. /\ f[k] = ResolvedAt(words, k + 1)
          /\ g[k] = k + 1
          /\ o[<<k, FALSE>>] = RestAfter(words, k)
      BY <1>0, <2>0, <2>3, Zenon
    <3>2. CASE k = Len(words)
      <4>1. f[k].kind = "absent" /\ g[k] = Len(words) + 1
        BY <3>1, <3>2 DEF ResolvedAt
      <4> QED
        BY <4>1 DEF ScansAgree
    <3>3. CASE k < Len(words)
      <4>1. k + 1 <= Len(words) /\ k + 1 \in 1..Len(words) /\ 1 \in 1..(Len(words) - k)
        BY <3>3
      <4>2. f[k] = [kind |-> "resolved", word |-> words[k + 1].t]
        BY <3>1, <4>1 DEF ResolvedAt
      <4>3. o[<<k, FALSE>>][1] = NormalizeArg(words[k + 1].t)
        BY <3>1, <4>1 DEF RestAfter
      <4>4. o[<<k, FALSE>>] # << >>
        <5>1. Len(RestAfter(words, k)) = Len(words) - k /\ Len(words) - k # 0
          BY <2>0, <3>3, RestTyped
        <5>2. Len(<< >>) = 0
          OBVIOUS
        <5> QED
          BY <3>1, <5>1, <5>2, Zenon
      <4>5. f[k].kind = "resolved" /\ f[k].word = words[k + 1].t
        BY <4>2
      <4> QED
        BY <3>1, <4>1, <4>3, <4>4, <4>5 DEF ScansAgree
    <3> QED
      BY <2>0, <3>2, <3>3
  <2>4. CASE V(k)
    <3>1. g[k] = g[k + 2] /\ o[<<k, FALSE>>] = o[<<k + 2, FALSE>>]
      <4> HIDE DEF V
      <4> QED
        BY <1>0, <2>0, <2>1, <2>2, <2>4, Zenon
    <3>2. f[k] = [kind |-> "ambiguous"] \/ f[k] = f[k + 2]
      <4> HIDE DEF V
      <4> QED
        BY <1>0, <2>0, <2>2, <2>4, Zenon
    <3>3. CASE f[k] = [kind |-> "ambiguous"]
      <4>1. f[k].kind = "ambiguous"
        BY <3>3
      <4> QED
        BY <4>1 DEF ScansAgree
    <3>4. CASE f[k] = f[k + 2]
      BY <1>2, <3>1, <3>4, Zenon
    <3> QED
      BY <3>2, <3>3, <3>4, Zenon
  <2>5. CASE IsFlag(words[k]) /\ ~V(k) /\ words[k].t # "--"
    <3>1. /\ g[k] = g[k + 1] /\ o[<<k, FALSE>>] = o[<<k + 1, FALSE>>]
          /\ f[k] = f[k + 1]
      <4> HIDE DEF V
      <4> QED
        BY <1>0, <2>0, <2>1, <2>5, Zenon
    <3> QED
      BY <1>2, <3>1, Zenon
  <2>6. CASE ~IsFlag(words[k])
    <3>1. /\ g[k] = k /\ f[k] = ResolvedAt(words, k)
          /\ o[<<k, FALSE>>] = <<NormalizeArg(words[k].t)>> \o o[<<k + 1, TRUE>>]
      <4> HIDE DEF V
      <4> QED
        BY <1>0, <2>0, <2>1, <2>2, <2>6, Zenon
    <3>2. f[k].kind = "resolved" /\ f[k].word = words[k].t
      BY <2>0, <3>1 DEF ResolvedAt
    <3>3. o[<<k + 1, TRUE>>] \in Seq(TextsOf(words)) /\ NormalizeArg(words[k].t) \in TextsOf(words)
      <4>1. TRUE \in BOOLEAN
        OBVIOUS
      <4>2. o[<<k + 1, TRUE>>] \in Seq(TextsOf(words))
        BY <2>0, <4>1, OperandsTyped
      <4> QED
        BY <2>0, <4>2 DEF TextsOf
    <3>4. o[<<k, FALSE>>] # << >> /\ o[<<k, FALSE>>][1] = NormalizeArg(words[k].t)
      BY <3>1, <3>3
    <3> QED
      BY <3>1, <3>2, <3>4 DEF ScansAgree
  <2> QED
    BY <2>3, <2>4, <2>5, <2>6, Zenon
<1>3. ASSUME NEW k \in 1..Len(words), \A j \in Nat : j > k => j \in G
      PROVE  k \in G
  <2>1. k \in Nat /\ k + 1 \in Nat /\ k + 1 > k /\ k + 2 \in Nat /\ k + 2 > k
    OBVIOUS
  <2>2. Good(k + 1) /\ Good(k + 2)
    <3> HIDE DEF Good
    <3> QED
      BY <1>3, <2>1
  <2>3. Good(k)
    <3> HIDE DEF Good
    <3> QED
      BY <1>2, <2>2
  <2> HIDE DEF Good
  <2> QED
    BY <2>1, <2>3
<1>4. Good(1)
  <2> HIDE DEF Good
  <2>1. 1 \in Nat \ {0}
    OBVIOUS
  <2>2. \A k \in Nat \ {0} : k \in G
    <3> HIDE DEF G
    <3> QED
      BY <1>1, <1>3, CountingDown
  <2> QED
    BY <2>1, <2>2
<1> QED
  BY <1>4

\* What git takes for its subcommand is the word after its globals, if it knows
\* them all.
Known(inv) == \A g \in ToSet(inv.globals) : g.kind # "unknown"
GitAgrees(inv, words, k, o) ==
  /\ inv.at \in k..(Len(words) + 1) \/ (k > Len(words) /\ inv.at = Len(words) + 1)
  /\ inv.at = Len(words) + 1 => o[<<k, FALSE>>] = << >>
  /\ inv.at <= Len(words) =>
       \/ /\ inv.at > 1 /\ words[inv.at - 1].t = "--"
          /\ o[<<k, FALSE>>] = RestAfter(words, inv.at - 1)
       \/ /\ ~IsFlag(words[inv.at])
          /\ o[<<k, FALSE>>] = o[<<inv.at, FALSE>>]

LEMMA GitStarts ==
  ASSUME NEW words, Len(words) \in Nat, NEW f, GitFrom(f, words), Known(f[1]), NEW r,
         \A i \in r : words[i].t \in {"-x", "-df"},
         NEW o, OperandsFrom(o, "git", words, r)
  PROVE  GitAgrees(f[1], words, 1, o)
<1> DEFINE Good(k) == Known(f[k]) => GitAgrees(f[k], words, k, o)
           G == {k \in Nat : Good(k)}
<1>0. ASSUME NEW k \in Nat
      PROVE  /\ f[k] =
                 IF k > Len(words) THEN [globals |-> << >>, at |-> Len(words) + 1]
                 ELSE IF words[k].t = "--" THEN [globals |-> << >>, at |-> k + 1]
                 ELSE IF words[k].t \in {"-c", "--config-env", "-C"}
                      THEN WithGlobal(words[k].t, OperandAt(words, k), f[k + 2])
                 ELSE IF words[k].t = "--git-dir=" THEN WithGlobal("joined", words[k], f[k + 1])
                 ELSE IF words[k].t = "--no-pager" THEN WithGlobal("bool", words[k], f[k + 1])
                 ELSE IF words[k].t \in {"-x", "-df", "-m", "--with"}
                      THEN WithGlobal("unknown", words[k], f[k + 1])
                 ELSE [globals |-> << >>, at |-> k]
             /\ o[<<k, FALSE>>] =
                       IF k > Len(words) THEN << >>
                       ELSE IF words[k].t = "--" THEN RestAfter(words, k)
                       ELSE IF TakesNext("git", words, r, k, FALSE) THEN o[<<k + 2, FALSE>>]
                       ELSE IF IsFlag(words[k]) THEN o[<<k + 1, FALSE>>]
                       ELSE <<NormalizeArg(words[k].t)>> \o o[<<k + 1, TRUE>>]
  <2>1. TRUE \in BOOLEAN /\ FALSE \in BOOLEAN
    OBVIOUS
  <2> QED
    BY <2>1, Zenon DEF GitFrom, OperandsFrom
<1>t. \A k \in Nat \ {0} : f[k] \in Invocations(words)
  BY GitTyped
<1>1. \A k \in Nat : k > Len(words) => k \in G
  <2>1. ASSUME NEW k \in Nat, k > Len(words) PROVE Good(k)
    <3>0. f[k] = [globals |-> << >>, at |-> Len(words) + 1] /\ o[<<k, FALSE>>] = << >>
      BY <1>0, <2>1, Zenon
    <3>1. f[k].at = Len(words) + 1 /\ o[<<k, FALSE>>] = << >>
      BY <3>0
    <3> QED
      BY <2>1, <3>1 DEF GitAgrees
  <2> HIDE DEF Good
  <2> QED
    BY <2>1
<1>2. ASSUME NEW k \in 1..Len(words), Good(k + 1), Good(k + 2) PROVE Good(k)
  <2> SUFFICES ASSUME Known(f[k]) PROVE GitAgrees(f[k], words, k, o)
    OBVIOUS
  <2>0. /\ k \in Nat /\ k + 1 \in Nat \ {0} /\ k + 2 \in Nat \ {0} /\ ~(k > Len(words))
        /\ k <= Len(words) /\ k \in 0..Len(words) /\ (k + 1) - 1 = k
    OBVIOUS
  <2>1. words[k] \in Operands0(words) /\ OperandAt(words, k) \in Operands0(words)
    BY <2>0 DEF Operands0, OperandAt
  <2>2. ASSUME NEW kind \in Kinds, NEW operand \in Operands0(words), NEW j \in {k + 1, k + 2},
               f[k] = WithGlobal(kind, operand, f[j])
        PROVE  kind # "unknown" /\ f[k].at = f[j].at /\ Known(f[j])
    <3>1. f[j] \in Invocations(words)
      BY <1>t, <2>0
    <3>2. /\ WithGlobal(kind, operand, f[j]).at = f[j].at
          /\ ToSet(WithGlobal(kind, operand, f[j]).globals) =
               {[kind |-> kind, operand |-> operand]} \cup ToSet(f[j].globals)
      BY <3>1, GlobalAdded
    <3>3. [kind |-> kind, operand |-> operand].kind = kind
      OBVIOUS
    <3> QED
      BY <2>2, <3>2, <3>3 DEF Known
  <2>3. ASSUME NEW j \in {k + 1, k + 2}, f[k].at = f[j].at, Known(f[j]), Good(j),
               o[<<k, FALSE>>] = o[<<j, FALSE>>]
        PROVE  GitAgrees(f[k], words, k, o)
    <3>1. GitAgrees(f[j], words, j, o)
      BY <2>3
    <3>2. f[k].at \in k..(Len(words) + 1)
      <4>1. f[j].at \in j..(Len(words) + 1) \/ (j > Len(words) /\ f[j].at = Len(words) + 1)
        BY <3>1 DEF GitAgrees
      <4> QED
        BY <2>3, <4>1
    <3> QED
      BY <2>3, <3>1, <3>2, Zenon DEF GitAgrees
  <2>4. CASE words[k].t = "--"
    <3>0. f[k] = [globals |-> << >>, at |-> k + 1] /\ o[<<k, FALSE>>] = RestAfter(words, k)
      BY <1>0, <2>0, <2>4, Zenon
    <3>1. f[k].at = k + 1 /\ o[<<k, FALSE>>] = RestAfter(words, k)
      BY <3>0
    <3>2. k = Len(words) => RestAfter(words, k) = << >>
      BY <2>0, RestGoes
    <3> QED
      BY <2>0, <2>4, <3>1, <3>2 DEF GitAgrees
  <2>5. CASE words[k].t \in {"-c", "--config-env", "-C"}
    <3>1. words[k].t \in Kinds /\ words[k].t # "--" /\ words[k].t \in TakesValue
      BY <2>5 DEF Kinds, TakesValue
    <3>2. f[k] = WithGlobal(words[k].t, OperandAt(words, k), f[k + 2])
      BY <1>0, <2>0, <2>5, <3>1
    <3>3. o[<<k, FALSE>>] = o[<<k + 2, FALSE>>]
      BY <1>0, <2>0, <3>1, Zenon DEF TakesNext
    <3> QED
      BY <1>2, <2>1, <2>2, <2>3, <3>1, <3>2, <3>3
  <2>6. CASE words[k].t \in {"--git-dir=", "--no-pager"}
    <3>1. /\ words[k].t \notin {"--", "-c", "--config-env", "-C", "-x", "-df"}
          /\ words[k].t \notin TakesValue /\ IsFlag(words[k])
      BY <2>6 DEF TakesValue, IsFlag, FlagTexts
    <3>2. \E kind \in Kinds : f[k] = WithGlobal(kind, words[k], f[k + 1])
      BY <1>0, <2>0, <2>6, <3>1 DEF Kinds
    <3>3. ~TakesNext("git", words, r, k, FALSE)
      BY <3>1 DEF TakesNext
    <3>4. o[<<k, FALSE>>] = o[<<k + 1, FALSE>>]
      BY <1>0, <2>0, <3>1, <3>3, Zenon
    <3> QED
      BY <1>2, <2>1, <2>2, <2>3, <3>2, <3>4
  <2>7. CASE words[k].t \in {"-x", "-df", "-m", "--with"}
    <3>1. f[k] = WithGlobal("unknown", words[k], f[k + 1])
      BY <1>0, <2>0, <2>7
    <3>2. "unknown" \in Kinds
      BY DEF Kinds
    <3> QED
      BY <2>1, <2>2, <3>1, <3>2
  <2>8. CASE words[k].t \notin {"--", "-c", "--config-env", "-C", "--git-dir=", "--no-pager",
                                "-x", "-df", "-m", "--with"}
    <3>1. f[k] = [globals |-> << >>, at |-> k]
      BY <1>0, <2>0, <2>8
    <3>2. ~IsFlag(words[k])
      BY <2>8 DEF IsFlag, FlagTexts
    <3> QED
      BY <2>0, <3>1, <3>2 DEF GitAgrees
  <2> QED
    BY <2>4, <2>5, <2>6, <2>7, <2>8
<1>3. ASSUME NEW k \in 1..Len(words), \A j \in Nat : j > k => j \in G
      PROVE  k \in G
  <2>1. k \in Nat /\ k + 1 \in Nat /\ k + 1 > k /\ k + 2 \in Nat /\ k + 2 > k
    OBVIOUS
  <2>2. Good(k + 1) /\ Good(k + 2)
    <3> HIDE DEF Good
    <3> QED
      BY <1>3, <2>1
  <2>3. Good(k)
    <3> HIDE DEF Good
    <3> QED
      BY <1>2, <2>2
  <2> HIDE DEF Good
  <2> QED
    BY <2>1, <2>3
<1>4. Good(1)
  <2> HIDE DEF Good
  <2>1. 1 \in Nat \ {0}
    OBVIOUS
  <2>2. \A k \in Nat \ {0} : k \in G
    <3> HIDE DEF G
    <3> QED
      BY <1>1, <1>3, CountingDown
  <2> QED
    BY <2>1, <2>2
<1> QED
  BY <1>4

\* The words after the subcommand, as an entry is compared with them and as git
\* takes them.
LEMMA TailMatches ==
  ASSUME NEW words, Len(words) \in Nat, EndsFlags(words), NEW at \in 1..Len(words),
         NEW r, \A i \in r : i < at, NEW o, OperandsFrom(o, "git", words, r),
         NEW p, PlainFrom(p, words)
  PROVE  /\ \A k \in (at + 1)..(Len(words) + 1) : p[k] = o[<<k, TRUE>>]
         /\ at > 1 /\ words[at - 1].t = "--" => p[at] = RestAfter(words, at - 1)
<1>0. ASSUME NEW k \in Nat
      PROVE  p[k] = IF k > Len(words) THEN << >>
                    ELSE IF IsFlag(words[k]) THEN p[k + 1]
                    ELSE <<NormalizeArg(words[k].t)>> \o p[k + 1]
  BY DEF PlainFrom
<1>1. ASSUME NEW k \in 1..Len(words), words[k].t = "--"
      PROVE  p[k + 1] = RestAfter(words, k)
  <2>1. p[Len(words) + 1] = << >>
    <3>1. Len(words) + 1 \in Nat /\ Len(words) + 1 > Len(words)
      OBVIOUS
    <3> QED
      BY <1>0, <3>1
  <2>2. ASSUME NEW j \in (k + 1)..Len(words) PROVE p[j] = <<NormalizeArg(words[j].t)>> \o p[j + 1]
    <3>1. j \in 1..Len(words) /\ k < j /\ j \in Nat /\ ~(j > Len(words))
      OBVIOUS
    <3>2. ~IsFlag(words[j])
      BY <1>1, <3>1 DEF EndsFlags
    <3> QED
      BY <1>0, <3>1, <3>2
  <2>3. k + 1 \in 1..(Len(words) + 1) /\ (k + 1) - 1 = k
    OBVIOUS
  <2>4. p[k + 1] = RestAfter(words, (k + 1) - 1)
    BY <2>1, <2>2, <2>3, AllOperands
  <2> QED
    BY <2>3, <2>4
<1>2. at > 1 /\ words[at - 1].t = "--" => p[at] = RestAfter(words, at - 1)
  <2> SUFFICES ASSUME at > 1, words[at - 1].t = "--" PROVE p[at] = RestAfter(words, at - 1)
    OBVIOUS
  <2>1. at - 1 \in 1..Len(words) /\ (at - 1) + 1 = at
    OBVIOUS
  <2>2. p[(at - 1) + 1] = RestAfter(words, at - 1)
    BY <1>1, <2>1
  <2> QED
    BY <2>1, <2>2
<1> DEFINE Good(k) == k > at => p[k] = o[<<k, TRUE>>]
           G == {k \in Nat : Good(k)}
<1>3. ASSUME NEW k \in Nat
      PROVE  o[<<k, TRUE>>] =
               IF k > Len(words) THEN << >>
               ELSE IF words[k].t = "--" THEN RestAfter(words, k)
               ELSE IF TakesNext("git", words, r, k, TRUE) THEN o[<<k + 2, TRUE>>]
               ELSE IF IsFlag(words[k]) THEN o[<<k + 1, TRUE>>]
               ELSE <<NormalizeArg(words[k].t)>> \o o[<<k + 1, TRUE>>]
  <2>1. TRUE \in BOOLEAN
    OBVIOUS
  <2> QED
    BY <2>1, Zenon DEF OperandsFrom
<1>4. \A k \in Nat : k > Len(words) => k \in G
  <2>1. ASSUME NEW k \in Nat, k > Len(words) PROVE Good(k)
    BY <1>0, <1>3, <2>1
  <2> HIDE DEF Good
  <2> QED
    BY <2>1
<1>5. ASSUME NEW k \in 1..Len(words), \A j \in Nat : j > k => j \in G
      PROVE  k \in G
  <2>0. k \in Nat /\ k + 1 \in Nat /\ k + 1 > k /\ ~(k > Len(words))
    OBVIOUS
  <2>1. k + 1 \in G
    <3> HIDE DEF G
    <3> QED
      BY <1>5, <2>0
  <2>2. ASSUME k > at PROVE p[k] = o[<<k, TRUE>>]
    <3>1. p[k + 1] = o[<<k + 1, TRUE>>]
      <4>1. k + 1 > at
        BY <2>2
      <4> QED
        BY <2>1, <4>1
    <3>2. ~TakesNext("git", words, r, k, TRUE)
      <4>1. k \notin r
        BY <2>2
      <4> QED
        BY <4>1 DEF TakesNext
    <3>3. CASE words[k].t = "--"
      <4>1. p[k + 1] = RestAfter(words, k)
        BY <1>1, <3>3
      <4>2. IsFlag(words[k])
        BY <3>3 DEF IsFlag, FlagTexts
      <4>3. o[<<k, TRUE>>] = RestAfter(words, k)
        BY <1>3, <2>0, <3>3, Zenon
      <4>4. p[k] = p[k + 1]
        BY <1>0, <2>0, <4>2, Zenon
      <4> QED
        BY <4>1, <4>3, <4>4
    <3>4. CASE words[k].t # "--"
      BY <1>0, <1>3, <2>0, <3>1, <3>2, <3>4, Zenon
    <3> QED
      BY <3>3, <3>4
  <2> QED
    BY <2>0, <2>2
<1>6. \A k \in Nat \ {0} : k \in G
  <2> HIDE DEF G
  <2> QED
    BY <1>4, <1>5, CountingDown
<1>7. ASSUME NEW k \in (at + 1)..(Len(words) + 1) PROVE p[k] = o[<<k, TRUE>>]
  <2>1. k \in Nat \ {0} /\ k > at
    OBVIOUS
  <2>2. Good(k)
    <3> HIDE DEF Good
    <3> QED
      BY <1>6, <2>1
  <2> QED
    BY <2>1, <2>2
<1> QED
  BY <1>2, <1>7

\* The plain words of what is left of a line.
LEMMA PlainOfRest ==
  ASSUME NEW X, NEW words \in Seq(X), NEW p, PlainFrom(p, words)
  PROVE  \A k \in 1..(Len(words) + 1) : PlainArgs(SubSeq(words, k, Len(words))) = p[k]
<1> DEFINE Good(k) == k <= Len(words) + 1 => PlainArgs(SubSeq(words, k, Len(words))) = p[k]
           G == {k \in Nat : Good(k)}
<1>n. Len(words) \in Nat
  OBVIOUS
<1>0. ASSUME NEW k \in Nat
      PROVE  p[k] = IF k > Len(words) THEN << >>
                    ELSE IF IsFlag(words[k]) THEN p[k + 1]
                    ELSE <<NormalizeArg(words[k].t)>> \o p[k + 1]
  BY DEF PlainFrom
<1>1. \A k \in Nat : k > Len(words) => k \in G
  <2>1. ASSUME NEW k \in Nat, k > Len(words) PROVE Good(k)
    <3>1. k \in Int /\ Len(words) \in Int /\ Len(words) < k
      BY <1>n, <2>1
    <3>2. SubSeq(words, k, Len(words)) = << >>
      BY <3>1, SubSeqEmpty
    <3>3. PlainArgs(SubSeq(words, k, Len(words))) = << >>
      BY <3>2, PlainOfNone, Zenon
    <3> QED
      BY <1>0, <2>1, <3>3
  <2> HIDE DEF Good
  <2> QED
    BY <2>1
<1>2. ASSUME NEW k \in 1..Len(words), \A j \in Nat : j > k => j \in G
      PROVE  k \in G
  <2>0. /\ k \in Nat /\ k + 1 \in Nat /\ k + 1 > k /\ ~(k > Len(words))
        /\ k + 1 <= Len(words) + 1 /\ Len(words) \in k..Len(words)
    BY <1>n
  <2>1. k + 1 \in G
    <3> HIDE DEF G
    <3> QED
      BY <1>2, <2>0
  <2>2. PlainArgs(SubSeq(words, k + 1, Len(words))) = p[k + 1]
    BY <2>0, <2>1
  <2>3. SubSeq(words, k, Len(words)) = <<words[k]>> \o SubSeq(words, k + 1, Len(words))
    BY <2>0, SubSeqRecursiveFirst
  <2>4. SubSeq(words, k + 1, Len(words)) \in Seq(X) /\ words[k] \in X
    <3>1. \A i \in (k + 1)..Len(words) : words[i] \in X
      OBVIOUS
    <3>2. k + 1 \in Int /\ Len(words) \in Int
      BY <1>n
    <3>3. SubSeq(words, k + 1, Len(words)) \in Seq(X)
      BY <3>1, <3>2, SubSeqProperties
    <3> QED
      BY <3>3
  <2>5. PlainArgs(SubSeq(words, k, Len(words))) =
          IF IsFlag(words[k]) THEN PlainArgs(SubSeq(words, k + 1, Len(words)))
          ELSE <<NormalizeArg(words[k].t)>> \o PlainArgs(SubSeq(words, k + 1, Len(words)))
    <3> DEFINE t == SubSeq(words, k + 1, Len(words))
    <3>1. t \in Seq(X) /\ SubSeq(words, k, Len(words)) = <<words[k]>> \o t
      BY <2>3, <2>4
    <3> HIDE DEF t
    <3>2. PlainArgs(SubSeq(words, k, Len(words))) =
            IF IsFlag(words[k]) THEN PlainArgs(t)
            ELSE <<NormalizeArg(words[k].t)>> \o PlainArgs(t)
      BY <2>4, <3>1, PlainOfMore
    <3> QED
      BY <3>2 DEF t
  <2>6. Good(k)
    BY <1>0, <2>0, <2>2, <2>5
  <2> HIDE DEF Good
  <2> QED
    BY <2>0, <2>6
<1>3. \A k \in Nat \ {0} : k \in G
  <2> HIDE DEF G
  <2> QED
    BY <1>n, <1>1, <1>2, CountingDown
<1>4. ASSUME NEW k \in 1..(Len(words) + 1)
      PROVE  PlainArgs(SubSeq(words, k, Len(words))) = p[k]
  <2>1. k \in Nat \ {0} /\ k <= Len(words) + 1
    BY <1>n
  <2>2. Good(k)
    <3> HIDE DEF Good
    <3> QED
      BY <1>3, <2>1
  <2> QED
    BY <2>1, <2>2
<1> QED
  BY <1>4

\* Of the words of a family, the flags with values are those the tool knows.
LEMMA ValuesKnown ==
  ASSUME NEW family \in {"codex", "uv", "logcli"}, NEW words \in Seq(FamilyWords(family)),
         family = "uv" => words # << >> /\ words[1].t = "run"
  PROVE  /\ ValueFlags(family, words) \subseteq FlagTexts \ {"--"}
         /\ \A i \in 1..Len(words) :
              words[i].t \in ValueFlags(family, words) <=> words[i].t \in TakesValue
         /\ family = "logcli" => ValueFlags(family, words) = {}
<1>1. \A i \in 1..Len(words) : words[i] \in FamilyWords(family)
  OBVIOUS
<1>2. CASE family = "codex"
  <2>1. ValueFlags(family, words) = {"-m"}
    BY <1>2, Zenon DEF ValueFlags
  <2>2. \A w \in FamilyWords("codex") : w.t \in {"-m", "-x", "--", "exec", "list"}
    BY DEF FamilyWords, Static, Dynamic
  <2> QED
    BY <1>1, <1>2, <2>1, <2>2 DEF FlagTexts, TakesValue
<1>3. CASE family = "uv"
  <2>1. ValueFlags(family, words) = {"--with"}
    <3>1. family # "codex"
      BY <1>3
    <3> QED
      BY <1>3, <3>1, Zenon DEF ValueFlags
  <2>2. \A w \in FamilyWords("uv") :
          w.t \in {"run", "--with", "-x", "--", "ruff", "bin/ruff", "list"}
    BY DEF FamilyWords, Static
  <2> QED
    BY <1>1, <1>3, <2>1, <2>2 DEF FlagTexts, TakesValue
<1>4. CASE family = "logcli"
  <2>1. ValueFlags(family, words) = {}
    <3>1. family # "codex" /\ family # "uv"
      BY <1>4
    <3> QED
      BY <3>1, Zenon DEF ValueFlags
  <2>2. \A w \in FamilyWords("logcli") :
          w.t \in {"-x", "--", "list", "stash", "../stash", "bin/stash"}
    BY DEF FamilyWords, Static
  <2> QED
    BY <1>1, <1>4, <2>1, <2>2 DEF FlagTexts, TakesValue
<1> QED
  BY <1>2, <1>3, <1>4

\* What the families but git allow.
LEMMA OthersAllow ==
  ASSUME NEW family \in {"codex", "uv", "logcli"}, NEW words \in Seq(FamilyWords(family)),
         family = "uv" => words # << >> /\ words[1].t = "run"
  PROVE  LET sub == ResolveSubcommand(family, words)
             at == SubcommandStart(family, words)
             run == Operands(family, words, {})
         IN /\ sub.kind = "absent" => at = Len(words) + 1
            /\ sub.kind = "resolved" =>
                 words[at].t = sub.word /\ IsPrefix(<<NormalizeArg(sub.word)>>, run)
            /\ EndsFlags(words) => PlainArgs(EffectiveArgv(family, words)) = run
<1>0. Len(words) \in Nat /\ family # "git"
  OBVIOUS
<1>1. PICK f : ResolvesFrom(f, family, words) /\ ResolveSubcommand(family, words) = f[1]
  BY <1>0, ResolveScans
<1>2. PICK g : StartsFrom(g, family, words) /\ SubcommandStart(family, words) = g[1]
  BY <1>0, StartScans
<1>3. PICK o : OperandsFrom(o, family, words, {}) /\ Operands(family, words, {}) = o[<<1, FALSE>>]
  BY <1>0, OperandScans
<1> DEFINE flags == ValueFlags(family, words)
<1>4. /\ flags \subseteq FlagTexts \ {"--"}
      /\ \A i \in 1..Len(words) : words[i].t \in flags <=> words[i].t \in TakesValue
      /\ family = "logcli" => flags = {}
  BY ValuesKnown
<1>5. ScansAgree(f[1], g[1], words, o[<<1, FALSE>>])
  BY <1>0, <1>1, <1>2, <1>3, <1>4, StartsAgree
<1>6. o[<<1, FALSE>>] \in Seq(TextsOf(words))
  <2>1. FALSE \in BOOLEAN /\ 1 \in Nat \ {0}
    OBVIOUS
  <2>2. \A k \in Nat \ {0}, b \in BOOLEAN : o[<<k, b>>] \in Seq(TextsOf(words))
    BY <1>0, <1>3, OperandsTyped
  <2> QED
    BY <2>1, <2>2, Zenon
<1>7. ASSUME f[1].kind = "resolved"
      PROVE  words[g[1]].t = f[1].word /\ IsPrefix(<<NormalizeArg(f[1].word)>>, o[<<1, FALSE>>])
  <2>1. /\ words[g[1]].t = f[1].word
        /\ o[<<1, FALSE>>] # << >> /\ o[<<1, FALSE>>][1] = NormalizeArg(f[1].word)
    BY <1>5, <1>7, Zenon DEF ScansAgree
  <2> QED
    BY <1>6, <2>1, FirstIsPrefix
<1>8. ASSUME EndsFlags(words) PROVE PlainArgs(EffectiveArgv(family, words)) = o[<<1, FALSE>>]
  <2>1. PICK everywhere \in BOOLEAN : everywhere <=> family # "codex"
    <3>1. (family # "codex") \in BOOLEAN
      OBVIOUS
    <3> QED
      BY <3>1, Zenon
  <2>2. EffectiveArgv(family, words) = Strip(words, flags, everywhere)
    <3>1. CASE family = "codex"
      <4>1. everywhere = FALSE
        BY <2>1, <3>1, Zenon
      <4>2. EffectiveArgv(family, words) = Strip(words, flags, FALSE)
        BY <1>0, <3>1, Zenon DEF EffectiveArgv
      <4> QED
        BY <4>1, <4>2, Zenon
    <3>2. CASE family # "codex"
      <4>1. everywhere = TRUE
        BY <2>1, <3>2, Zenon
      <4>2. EffectiveArgv(family, words) = Strip(words, flags, TRUE)
        BY <1>0, <3>2, Zenon DEF EffectiveArgv
      <4> QED
        BY <4>1, <4>2, Zenon
    <3> QED
      BY <3>1, <3>2, Zenon
  <2>3. PICK s : /\ StripFrom(s, words, flags, everywhere)
                 /\ Strip(words, flags, everywhere) = s[<<1, TRUE>>]
    BY <1>0, StripScans
  <2>4. PlainArgs(s[<<1, TRUE>>]) = o[<<1, FALSE>>]
    <3> HIDE DEF flags
    <3> QED
      BY <1>0, <1>3, <1>4, <1>8, <2>1, <2>3, StripMatches
  <2> HIDE DEF flags
  <2> QED
    BY <2>2, <2>3, <2>4, Zenon
<1>9. f[1].kind = "absent" => g[1] = Len(words) + 1
  BY <1>5, Zenon DEF ScansAgree
<1> QED
  BY <1>1, <1>2, <1>3, <1>7, <1>8, <1>9, Zenon

\* What git allows.
LEMMA GitAllows ==
  ASSUME NEW X, NEW words \in Seq(X), NEW r \in Guesses(words, GitInvocation(words).at)
  PROVE  LET sub == GitSubcommand(words)
             at == GitInvocation(words).at
             run == Operands("git", words, r)
         IN /\ sub.kind = "absent" => at = Len(words) + 1
            /\ sub.kind = "resolved" =>
                 words[at].t = sub.word /\ IsPrefix(<<NormalizeArg(sub.word)>>, run)
            /\ IsAllowlistSafe(words) /\ EndsFlags(words) =>
                 run = << >> \/ PlainArgs(EffectiveArgv("git", words)) = run
<1>0. Len(words) \in Nat /\ DOMAIN words = 1..Len(words)
  OBVIOUS
<1>1. PICK f : GitFrom(f, words) /\ GitInvocation(words) = f[1]
  BY <1>0, GitScans
<1>2. PICK o : OperandsFrom(o, "git", words, r) /\ Operands("git", words, r) = o[<<1, FALSE>>]
  BY <1>0, OperandScans
<1>3. PICK p : PlainFrom(p, words) /\ PlainArgs(words) = p[1]
  BY <1>0, PlainScans
<1> DEFINE inv == GitInvocation(words)
           at == inv.at
           run == o[<<1, FALSE>>]
<1>4. \A i \in r : i \in 1..Len(words) /\ i < at /\ words[i].t \in {"-x", "-df"}
  BY <1>0 DEF Guesses
<1>5. ASSUME GitSubcommand(words).kind # "ambiguous" PROVE GitAgrees(inv, words, 1, o)
  <2>1. ~\E g \in ToSet(inv.globals) : IsAmbiguous(g)
    <3>1. ASSUME \E g \in ToSet(inv.globals) : IsAmbiguous(g) PROVE FALSE
      <4>1. GitSubcommand(words) = [kind |-> "ambiguous"]
        BY <3>1, Zenon DEF GitSubcommand
      <4> QED
        BY <1>5, <4>1
    <3> QED
      BY <3>1
  <2>2. \A g : g.kind = "unknown" => IsAmbiguous(g)
    <3>1. "unknown" # "bool"
      OBVIOUS
    <3> QED
      BY <3>1, Zenon DEF IsAmbiguous
  <2>3. Known(f[1])
    BY <1>1, <2>1, <2>2, Zenon DEF Known
  <2>4. \A i \in r : words[i].t \in {"-x", "-df"}
    BY <1>4
  <2>5. GitAgrees(f[1], words, 1, o)
    BY <1>0, <1>1, <1>2, <2>3, <2>4, GitStarts
  <2> QED
    BY <1>1, <2>5
<1>6. /\ GitSubcommand(words).kind = "absent" => at > Len(words)
      /\ GitSubcommand(words).kind = "resolved" =>
           /\ ~(at > Len(words)) /\ GitSubcommand(words).word = words[at].t
           /\ GitSubcommand(words) = [kind |-> "resolved", word |-> words[at].t]
  <2>1. \/ GitSubcommand(words) = [kind |-> "ambiguous"]
        \/ at > Len(words) /\ GitSubcommand(words) = [kind |-> "absent"]
        \/ ~(at > Len(words)) /\ GitSubcommand(words) = [kind |-> "resolved", word |-> words[at].t]
    BY Zenon DEF GitSubcommand
  <2> HIDE DEF at
  <2> QED
    BY <2>1
<1>7. ASSUME GitSubcommand(words).kind = "absent" PROVE at = Len(words) + 1 /\ run = << >>
  <2>1. GitAgrees(inv, words, 1, o)
    BY <1>5, <1>7
  <2>2. at \in 1..(Len(words) + 1) \/ at = Len(words) + 1
    BY <2>1, Zenon DEF GitAgrees
  <2>3. at = Len(words) + 1
    <3>1. at > Len(words)
      BY <1>6, <1>7
    <3> HIDE DEF at
    <3> QED
      BY <1>0, <2>2, <3>1
  <2> QED
    BY <2>1, <2>3, Zenon DEF GitAgrees
<1>8. ASSUME GitSubcommand(words).kind = "resolved"
      PROVE  /\ at \in 1..Len(words)
             /\ \/ /\ at > 1 /\ words[at - 1].t = "--"
                   /\ run = RestAfter(words, at - 1)
                \/ /\ ~IsFlag(words[at])
                   /\ run = <<NormalizeArg(words[at].t)>> \o o[<<at + 1, TRUE>>]
  <2>1. GitAgrees(inv, words, 1, o)
    BY <1>5, <1>8
  <2>2. at \in 1..(Len(words) + 1) \/ at = Len(words) + 1
    BY <2>1, Zenon DEF GitAgrees
  <2>3. at \in 1..Len(words) /\ at \in Nat /\ at <= Len(words) /\ ~(at > Len(words))
    <3>1. ~(at > Len(words))
      BY <1>6, <1>8
    <3> HIDE DEF at
    <3> QED
      BY <1>0, <2>2, <3>1
  <2>4. \/ /\ at > 1 /\ words[at - 1].t = "--"
           /\ run = RestAfter(words, at - 1)
        \/ /\ ~IsFlag(words[at])
           /\ run = o[<<at, FALSE>>]
    BY <2>1, <2>3, Zenon DEF GitAgrees
  <2>5. ASSUME ~IsFlag(words[at])
        PROVE  o[<<at, FALSE>>] = <<NormalizeArg(words[at].t)>> \o o[<<at + 1, TRUE>>]
    <3>1. words[at].t # "--" /\ words[at].t \notin TakesValue /\ at \notin r
      <4>1. words[at].t # "--" /\ words[at].t \notin TakesValue
        BY <2>5 DEF IsFlag, FlagTexts, TakesValue
      <4>2. at \notin r
        <5> HIDE DEF at
        <5> QED
          BY <1>4, <2>3
      <4> QED
        BY <4>1, <4>2
    <3>2. ~TakesNext("git", words, r, at, FALSE)
      BY <3>1, Zenon DEF TakesNext
    <3>3. FALSE \in BOOLEAN
      OBVIOUS
    <3>4. o[<<at, FALSE>>] =
                       IF at > Len(words) THEN << >>
                       ELSE IF words[at].t = "--" THEN RestAfter(words, at)
                       ELSE IF TakesNext("git", words, r, at, FALSE) THEN o[<<at + 2, FALSE>>]
                       ELSE IF IsFlag(words[at]) THEN o[<<at + 1, FALSE>>]
                       ELSE <<NormalizeArg(words[at].t)>> \o o[<<at + 1, TRUE>>]
      BY <1>2, <2>3, <3>3, Zenon DEF OperandsFrom
    <3> HIDE DEF at
    <3> QED
      BY <2>3, <2>5, <3>1, <3>2, <3>4, Zenon
  <2> HIDE DEF at, run
  <2> QED
    BY <2>3, <2>4, <2>5, Zenon
<1>9. ASSUME GitSubcommand(words).kind = "resolved"
      PROVE  words[at].t = GitSubcommand(words).word /\ IsPrefix(<<NormalizeArg(GitSubcommand(words).word)>>, run)
  <2>1. at \in 1..Len(words) /\ words[at].t = GitSubcommand(words).word
    BY <1>6, <1>8, <1>9
  <2>2. \A k \in Nat \ {0}, b \in BOOLEAN : o[<<k, b>>] \in Seq(TextsOf(words))
    BY <1>0, <1>2, OperandsTyped
  <2>3. at + 1 \in Nat \ {0} /\ at \in Nat /\ 1 \in Nat \ {0}
    <3> HIDE DEF at
    <3> QED
      BY <1>0, <2>1
  <2>4. TRUE \in BOOLEAN /\ FALSE \in BOOLEAN
    OBVIOUS
  <2>5. run \in Seq(TextsOf(words)) /\ o[<<at + 1, TRUE>>] \in Seq(TextsOf(words))
    BY <2>2, <2>3, <2>4, Zenon
  <2>6. NormalizeArg(words[at].t) \in TextsOf(words)
    BY <2>3 DEF TextsOf
  <2> DEFINE x == NormalizeArg(words[at].t)
             A == TextsOf(words)
  <2>7. \E s \in Seq(A) : run = <<x>> \o s
    <3>1. CASE ~IsFlag(words[at]) /\ run = <<x>> \o o[<<at + 1, TRUE>>]
      BY <2>5, <3>1, Zenon
    <3>2. CASE at > 1 /\ words[at - 1].t = "--" /\ run = RestAfter(words, at - 1)
      <4>1. at - 1 \in 0..Len(words) /\ at - 1 < Len(words) /\ (at - 1) + 1 = at /\ at \in 0..Len(words)
        <5> HIDE DEF at
        <5> QED
          BY <1>0, <2>1, <3>2
      <4>2. RestAfter(words, at - 1) = <<x>> \o RestAfter(words, at)
        <5>1. RestAfter(words, at - 1) =
                <<NormalizeArg(words[(at - 1) + 1].t)>> \o RestAfter(words, (at - 1) + 1)
          BY <1>0, <4>1, RestGoes
        <5> QED
          BY <4>1, <5>1, Zenon
      <4>3. RestAfter(words, at) \in Seq(A)
        BY <1>0, <4>1, RestTyped
      <4> QED
        BY <3>2, <4>2, <4>3, Zenon
    <3> HIDE DEF at, run, x, A
    <3> QED
      BY <1>8, <1>9, <3>1, <3>2, Zenon DEF x
  <2>8. run # << >> /\ run[1] = x
    <3>1. PICK s \in Seq(A) : run = <<x>> \o s
      BY <2>7
    <3> HIDE DEF run, A, x
    <3>2. Len(run) = Len(s) + 1 /\ run[1] = x /\ Len(s) \in Nat
      <4>1. x \in {x} \cup A /\ s \in Seq({x} \cup A)
        OBVIOUS
      <4> QED
        BY <3>1, <4>1, Joined
    <3>3. Len(run) # 0
      BY <3>2
    <3>4. Len(<< >>) = 0
      OBVIOUS
    <3> QED
      BY <3>2, <3>3, <3>4, Zenon
  <2>9. IsPrefix(<<x>>, run)
    <3> HIDE DEF run, x
    <3> QED
      BY <2>5, <2>8, FirstIsPrefix
  <2> HIDE DEF at, run
  <2> QED
    BY <2>1, <2>9
<1>10. ASSUME IsAllowlistSafe(words), EndsFlags(words), GitSubcommand(words).kind = "resolved"
       PROVE  PlainArgs(EffectiveArgv("git", words)) = run
  <2>1. EffectiveArgv("git", words) = SubSeq(words, at, Len(words))
    BY <1>10, Zenon DEF EffectiveArgv
  <2>2. at \in 1..Len(words)
    BY <1>8, <1>10
  <2>3. at \in 1..(Len(words) + 1) /\ at + 1 \in (at + 1)..(Len(words) + 1) /\ at \in Nat /\ ~(at > Len(words))
    <3> HIDE DEF at
    <3> QED
      BY <1>0, <2>2
  <2>4. PlainArgs(SubSeq(words, at, Len(words))) = p[at]
    BY <1>3, <2>3, PlainOfRest
  <2>5. /\ \A k \in (at + 1)..(Len(words) + 1) : p[k] = o[<<k, TRUE>>]
        /\ at > 1 /\ words[at - 1].t = "--" => p[at] = RestAfter(words, at - 1)
    <3>1. \A i \in r : i < at
      BY <1>4
    <3> HIDE DEF at
    <3> QED
      BY <1>0, <1>2, <1>3, <1>10, <2>2, <3>1, TailMatches
  <2>6. CASE ~IsFlag(words[at]) /\ run = <<NormalizeArg(words[at].t)>> \o o[<<at + 1, TRUE>>]
    <3>1. p[at] = IF at > Len(words) THEN << >>
                  ELSE IF IsFlag(words[at]) THEN p[at + 1]
                  ELSE <<NormalizeArg(words[at].t)>> \o p[at + 1]
      BY <1>3, <2>3, Zenon DEF PlainFrom
    <3> HIDE DEF at, run
    <3> QED
      BY <2>1, <2>3, <2>4, <2>5, <2>6, <3>1, Zenon
  <2>7. CASE at > 1 /\ words[at - 1].t = "--" /\ run = RestAfter(words, at - 1)
    BY <2>1, <2>4, <2>5, <2>7, Zenon
  <2> HIDE DEF at, run
  <2> QED
    BY <1>8, <1>10, <2>6, <2>7, Zenon
<1>11. IsAllowlistSafe(words) =>
         GitSubcommand(words).kind = "absent" \/ GitSubcommand(words).kind = "resolved"
  <2>1. IsAllowlistSafe(words) => GitSubcommand(words).kind # "ambiguous"
    BY Zenon DEF IsAllowlistSafe
  <2>2. GitSubcommand(words).kind \in {"ambiguous", "absent", "resolved"}
    <3>1. \/ GitSubcommand(words) = [kind |-> "ambiguous"]
          \/ GitSubcommand(words) = [kind |-> "absent"]
          \/ \E t : GitSubcommand(words) = [kind |-> "resolved", word |-> t]
      BY Zenon DEF GitSubcommand
    <3> QED
      BY <3>1
  <2> QED
    BY <2>1, <2>2
<1> HIDE DEF at, run
<1> QED
  BY <1>2, <1>7, <1>9, <1>10, <1>11, Zenon DEF at, run

\* Rules are tried on the words of their family.
LEMMA RulesTried ==
  ASSUME WordsInv, Scan = "rules"
  PROVE  Name \in Families /\ argv \in Seq(FamilyWords(Name))
<1>1. Name \in Families
  BY ToolKinds DEF WordsInv
<1>2. Words = FamilyWords(Name)
  BY <1>1 DEF Words, Families
<1> QED
  BY <1>1, <1>2 DEF WordsInv

\* An entry that matches at a level of trust matches at the levels above it.
LEMMA TrustKeepsEntries ==
  ASSUME NEW family, NEW words, NEW level \in TrustLevels,
         NEW entry \in AllowlistMatches(family, words, level), NEW higher \in level..3
  PROVE  entry \in AllowlistMatches(family, words, higher)
<1>1. entry \in Entries /\ entry.trust <= level
  BY Zenon DEF AllowlistMatches
<1>2. entry.trust <= higher
  <2>1. \A e \in Entries : e.trust \in Nat
    BY DEF Entries
  <2>2. entry.trust \in Nat /\ level \in Nat /\ higher \in Nat /\ level <= higher
    BY <1>1, <2>1 DEF TrustLevels
  <2> QED
    BY <1>1, <2>2
<1> QED
  BY <1>1, <1>2, Zenon DEF AllowlistMatches

LEMMA LinesAllowWhatRuns == WordsInv => AllowedIsWhatRuns
<1> SUFFICES ASSUME WordsInv, Scan = "rules",
                    Name = "uv" => argv # << >> /\ argv[1].t = "run"
    PROVE  LET sub == ResolveSubcommand(Name, argv)
               at == SubcommandStart(Name, argv)
           IN /\ sub.kind = "absent" => at = Len(argv) + 1
              /\ sub.kind = "resolved" =>
                   /\ argv[at].t = sub.word
                   /\ \A r \in ReadingsOf(Name) :
                        IsPrefix(<<NormalizeArg(sub.word)>>, Operands(Name, argv, r))
              /\ \A level \in TrustLevels :
                   \A entry \in AllowlistMatches(Name, argv, level) :
                     /\ \A r \in ReadingsOf(Name) : RunsAllowed(entry, r)
                     /\ \A higher \in level..3 :
                          entry \in AllowlistMatches(Name, argv, higher)
  BY Zenon DEF AllowedIsWhatRuns
<1>1. Name \in Families /\ argv \in Seq(FamilyWords(Name)) /\ Name \in {"git", "codex", "uv", "logcli"}
  BY RulesTried DEF Families
<1>2. ~EndsFlags(argv) => \E i, j \in DOMAIN argv : i < j /\ argv[i].t = "--" /\ IsFlag(argv[j])
  <2>1. DOMAIN argv = 1..Len(argv)
    BY <1>1
  <2> QED
    BY <2>1, Zenon DEF EndsFlags
<1> DEFINE sub == ResolveSubcommand(Name, argv)
           at == SubcommandStart(Name, argv)
           run(r) == Operands(Name, argv, r)
<1>3. /\ sub.kind = "absent" => at = Len(argv) + 1
      /\ sub.kind = "resolved" => argv[at].t = sub.word
      /\ \A r \in ReadingsOf(Name) :
           /\ sub.kind = "resolved" => IsPrefix(<<NormalizeArg(sub.word)>>, run(r))
           /\ EndsFlags(argv) /\ (Name = "git" => IsAllowlistSafe(argv)) =>
                run(r) = << >> \/ PlainArgs(EffectiveArgv(Name, argv)) = run(r)
  <2>1. CASE Name = "git"
    <3>1. sub = GitSubcommand(argv) /\ at = GitInvocation(argv).at
      BY <2>1, Zenon DEF ResolveSubcommand, SubcommandStart
    <3>2. ReadingsOf(Name) = Guesses(argv, GitInvocation(argv).at)
      BY <2>1, <3>1, Zenon DEF ReadingsOf
    <3>3. {} \in Guesses(argv, GitInvocation(argv).at)
      BY DEF Guesses
    <3>4. ASSUME NEW r \in Guesses(argv, GitInvocation(argv).at)
          PROVE  /\ GitSubcommand(argv).kind = "absent" => GitInvocation(argv).at = Len(argv) + 1
                 /\ GitSubcommand(argv).kind = "resolved" =>
                      /\ argv[GitInvocation(argv).at].t = GitSubcommand(argv).word
                      /\ IsPrefix(<<NormalizeArg(GitSubcommand(argv).word)>>, Operands("git", argv, r))
                 /\ IsAllowlistSafe(argv) /\ EndsFlags(argv) =>
                      Operands("git", argv, r) = << >>
                      \/ PlainArgs(EffectiveArgv("git", argv)) = Operands("git", argv, r)
      BY <1>1, <2>1, GitAllows
    <3> HIDE DEF sub, at
    <3> QED
      BY <2>1, <3>1, <3>2, <3>3, <3>4, Zenon
  <2>2. CASE Name # "git"
    <3>1. Name \in {"codex", "uv", "logcli"}
      BY <1>1, <2>2
    <3>2. ReadingsOf(Name) = {{}}
      BY <2>2, Zenon DEF ReadingsOf
    <3>3. /\ sub.kind = "absent" => at = Len(argv) + 1
          /\ sub.kind = "resolved" =>
               argv[at].t = sub.word /\ IsPrefix(<<NormalizeArg(sub.word)>>, run({}))
          /\ EndsFlags(argv) => PlainArgs(EffectiveArgv(Name, argv)) = run({})
      BY <1>1, <3>1, OthersAllow
    <3> HIDE DEF sub, at, run
    <3> QED
      BY <3>2, <3>3, Zenon
  <2> QED
    BY <2>1, <2>2
<1>4. ASSUME NEW level \in TrustLevels, NEW entry \in AllowlistMatches(Name, argv, level),
             NEW r \in ReadingsOf(Name)
      PROVE  RunsAllowed(entry, r)
  <2>1. /\ Name = "git" => IsAllowlistSafe(argv)
        /\ IsPrefix(entry.args, PlainArgs(EffectiveArgv(Name, argv)))
    BY Zenon DEF AllowlistMatches, ArgsMatchPrefix
  <2> HIDE DEF sub, at
  <2> QED
    BY <1>2, <1>3, <2>1, Zenon DEF RunsAllowed
<1> HIDE DEF sub, at, run
<1> QED
  BY <1>3, <1>4, TrustKeepsEntries, Zenon DEF sub, at, run

\* Whatever the words are, what the allowlist allows is what the tool runs.
THEOREM AllowedIsRun == Spec => []AllowedIsWhatRuns
BY WordsType, LinesAllowWhatRuns, PTL

-----------------------------------------------------------------------------
(* Globals before a subcommand do not matter. *)

\* The words of a line from one on.
WordsFrom(words, at) == {words[i] : i \in at..Len(words)}

\* A line before which globals were put.
LEMMA Prefixed ==
  ASSUME NEW X, NEW globals \in Seq(X), NEW words \in Seq(X), words # << >>
  PROVE  LET full == globals \o words
             m == Len(globals)
             n == Len(words)
         IN /\ full \in Seq(X) /\ Len(full) = m + n /\ m \in Nat /\ n \in Nat \ {0}
            /\ \A i \in 1..m : full[i] = globals[i]
            /\ \A i \in 1..n : full[m + i] = words[i]
            /\ ToSet(words) \subseteq ToSet(full)
            /\ WordsFrom(full, m + 1) = WordsFrom(words, 1)
            /\ SubSeq(full, m + 1, Len(full)) = words
<1> DEFINE full == globals \o words
           m == Len(globals)
           n == Len(words)
<1>1. full \in Seq(X) /\ Len(full) = m + n /\ m \in Nat /\ n \in Nat \ {0}
  OBVIOUS
<1>2. /\ \A i \in 1..m : full[i] = globals[i]
      /\ \A i \in 1..n : full[m + i] = words[i]
  OBVIOUS
<1>3. SubSeq(full, m + 1, m + n) = words
  <2>1. m + 1 \in (m + 1)..(m + n) /\ m + n \in (m + 1)..(m + n)
    BY <1>1
  <2>2. SubSeq(full, m + 1, m + n) = SubSeq(words, (m + 1) - m, (m + n) - m)
    BY <2>1, SubSeqOfConcat2
  <2>3. (m + 1) - m = 1 /\ (m + n) - m = n
    BY <1>1
  <2>4. SubSeq(words, 1, n) = words
    BY SubSeqFull
  <2> HIDE DEF full, m, n
  <2> QED
    BY <2>2, <2>3, <2>4
<1>4. DOMAIN full = 1..(m + n) /\ DOMAIN words = 1..n
  OBVIOUS
<1> HIDE DEF full, m, n
<1>5. ToSet(words) \subseteq ToSet(full)
  <2>1. \A i \in 1..n : m + i \in 1..(m + n)
    BY <1>1
  <2> QED
    BY <1>2, <1>4, <2>1 DEF ToSet
<1>6. {full[i] : i \in (m + 1)..(m + n)} = {words[i] : i \in 1..n}
  <2>1. ASSUME NEW i \in (m + 1)..(m + n) PROVE \E j \in 1..n : full[i] = words[j]
    <3>1. i - m \in 1..n /\ m + (i - m) = i
      BY <1>1
    <3> QED
      BY <1>2, <3>1
  <2>2. ASSUME NEW j \in 1..n PROVE \E i \in (m + 1)..(m + n) : full[i] = words[j]
    <3>1. m + j \in (m + 1)..(m + n)
      BY <1>1
    <3> QED
      BY <1>2, <3>1
  <2> DEFINE A == {full[i] : i \in (m + 1)..(m + n)}
             B == {words[i] : i \in 1..n}
  <2>3. \A x \in A : x \in B
    BY <2>1
  <2>4. \A x \in B : x \in A
    BY <2>2
  <2>5. A = B
    <3> HIDE DEF A, B
    <3> QED
      BY <2>3, <2>4
  <2> QED
    BY <2>5
<1>7. WordsFrom(full, m + 1) = WordsFrom(words, 1)
  BY <1>1, <1>6, Zenon DEF WordsFrom, n
<1> QED
  BY <1>1, <1>2, <1>3, <1>5, <1>7 DEF full, m, n

\* A subcommand is found at a word, and its text is known.
Found(family, words, at, t) ==
  /\ SubcommandStart(family, words) = at
  /\ ResolveSubcommand(family, words) = [kind |-> "resolved", word |-> t]

LEMMA GitFound ==
  ASSUME NEW X, NEW words \in Seq(X), NEW at \in 1..Len(words), GitInvocation(words).at = at,
         \A g \in ToSet(GitInvocation(words).globals) :
            /\ g.kind # "unknown" /\ g.operand # NoOperand /\ g.operand.m = "plain"
            /\ g.kind = "-c" => HasKey(g.operand.t)
            /\ g.kind # "--config-env"
  PROVE  /\ Found("git", words, at, words[at].t)
         /\ IsAllowlistSafe(words)
         /\ GitSubcommand(words) = [kind |-> "resolved", word |-> words[at].t]
         /\ EffectiveArgv("git", words) = SubSeq(words, at, Len(words))
<1>1. ~\E g \in ToSet(GitInvocation(words).globals) : IsAmbiguous(g)
  <2>1. "plain" # "unsafe"
    OBVIOUS
  <2> QED
    BY <2>1, Zenon DEF IsAmbiguous
<1>2. ~(at > Len(words))
  OBVIOUS
<1>3. GitSubcommand(words) = [kind |-> "resolved", word |-> words[at].t]
  BY <1>1, <1>2, Zenon DEF GitSubcommand
<1>4. IsAllowlistSafe(words)
  <2>1. GitSubcommand(words).kind # "ambiguous"
    BY <1>3
  <2>2. "plain" # "unsafe"
    OBVIOUS
  <2> QED
    BY <2>1, <2>2, Zenon DEF IsAllowlistSafe
<1>5. GitSubcommand(words).kind = "resolved"
  BY <1>3
<1> QED
  BY <1>3, <1>4, <1>5, Zenon DEF Found, SubcommandStart, ResolveSubcommand, EffectiveArgv

\* git finds the subcommand behind a reviewed global.
LEMMA GitLooksPast ==
  ASSUME NEW words \in Seq(FamilyWords("git")), words # << >>, ~IsFlag(words[1]),
         NEW globals \in GlobalPrefixes("git") \cup {<< >>}
  PROVE  /\ Found("git", globals \o words, Len(globals) + 1, words[1].t)
         /\ IsAllowlistSafe(globals \o words)
         /\ GitSubcommand(globals \o words) = [kind |-> "resolved", word |-> words[1].t]
         /\ EffectiveArgv("git", globals \o words) = words
<1> DEFINE X == FamilyWords("git") \cup {Static("list")}
           full == globals \o words
           m == Len(globals)
           n == Len(words)
<1>1. globals \in Seq(X) /\ words \in Seq(X)
  <2>1. /\ Static("-C") \in X /\ Static("list") \in X /\ Static("--no-pager") \in X
        /\ Static("--git-dir=") \in X /\ Static("-c") \in X /\ Static("key=true") \in X
    BY DEF FamilyWords
  <2>2. globals \in {<< >>, <<Static("-C"), Static("list")>>, <<Static("--no-pager")>>,
                     <<Static("--git-dir=")>>, <<Static("-c"), Static("key=true")>>}
    BY Zenon DEF GlobalPrefixes
  <2>3. globals \in Seq(X)
    <3> HIDE DEF X
    <3>1. << >> \in Seq(X) /\ \A a, b \in X : <<a>> \in Seq(X) /\ <<a, b>> \in Seq(X)
      OBVIOUS
    <3> QED
      BY <2>1, <2>2, <3>1, Zenon
  <2>4. words \in Seq(X)
    OBVIOUS
  <2> QED
    BY <2>3, <2>4
<1>2. /\ full \in Seq(X) /\ Len(full) = m + n /\ m \in Nat /\ n \in Nat \ {0}
      /\ \A i \in 1..m : full[i] = globals[i]
      /\ \A i \in 1..n : full[m + i] = words[i]
      /\ SubSeq(full, m + 1, Len(full)) = words
  <2> HIDE DEF X
  <2> QED
    BY <1>1, Prefixed
<1> HIDE DEF X
<1>3. /\ Len(full) \in Nat /\ m + 1 \in 1..Len(full) /\ m + 1 \in Nat /\ ~(m + 1 > Len(full))
      /\ full[m + 1] = words[1]
  <2>1. 1 \in 1..n
    BY <1>2
  <2> HIDE DEF full, m, n
  <2> QED
    BY <1>2, <2>1
<1> HIDE DEF full
<1>4. PICK f : GitFrom(f, full) /\ GitInvocation(full) = f[1]
  BY <1>3, GitScans
<1>5. ASSUME NEW k \in Nat
      PROVE  f[k] =
        IF k > Len(full) THEN [globals |-> << >>, at |-> Len(full) + 1]
        ELSE IF full[k].t = "--" THEN [globals |-> << >>, at |-> k + 1]
        ELSE IF full[k].t \in {"-c", "--config-env", "-C"}
             THEN WithGlobal(full[k].t, OperandAt(full, k), f[k + 2])
        ELSE IF full[k].t = "--git-dir=" THEN WithGlobal("joined", full[k], f[k + 1])
        ELSE IF full[k].t = "--no-pager" THEN WithGlobal("bool", full[k], f[k + 1])
        ELSE IF full[k].t \in {"-x", "-df", "-m", "--with"}
             THEN WithGlobal("unknown", full[k], f[k + 1])
        ELSE [globals |-> << >>, at |-> k]
  BY <1>4, Zenon DEF GitFrom
<1>6. f[m + 1] = [globals |-> << >>, at |-> m + 1]
  <2>1. full[m + 1].t \notin {"--", "-c", "--config-env", "-C", "--git-dir=", "--no-pager",
                              "-x", "-df", "-m", "--with"}
    BY <1>3 DEF IsFlag, FlagTexts
  <2> QED
    BY <1>3, <1>5, <2>1
<1>e. f[m + 1] \in Invocations(full) /\ ToSet(f[m + 1].globals) = {}
  <2>1. f[m + 1] \in Invocations(full)
    BY <1>3, <1>6 DEF Invocations
  <2>2. f[m + 1].globals = << >>
    BY <1>6
  <2> QED
    BY <2>1, <2>2 DEF ToSet
<1>7. f[1].at = m + 1 /\ \A g \in ToSet(f[1].globals) :
            /\ g.kind # "unknown" /\ g.operand # NoOperand /\ g.operand.m = "plain"
            /\ g.kind = "-c" => HasKey(g.operand.t)
            /\ g.kind # "--config-env"
  <2>1. CASE globals = << >>
    <3>1. m = 0 /\ m + 1 = 1
      BY <2>1
    <3> HIDE DEF m
    <3> QED
      BY <1>6, <1>e, <3>1
  <2>2. ASSUME NEW kind \in Kinds \ {"unknown", "--config-env"}, NEW operand \in Operands0(full),
               operand # NoOperand, operand.m = "plain", kind = "-c" => HasKey(operand.t),
               f[1] = WithGlobal(kind, operand, f[m + 1])
        PROVE  f[1].at = m + 1 /\ \A g \in ToSet(f[1].globals) :
                 /\ g.kind # "unknown" /\ g.operand # NoOperand /\ g.operand.m = "plain"
                 /\ g.kind = "-c" => HasKey(g.operand.t)
                 /\ g.kind # "--config-env"
    <3>1. f[1].at = f[m + 1].at /\ ToSet(f[1].globals) = {[kind |-> kind, operand |-> operand]}
      BY <1>e, <2>2, GlobalAdded
    <3>2. f[m + 1].at = m + 1
      BY <1>6
    <3> QED
      BY <2>2, <3>1, <3>2
  <2>3. ASSUME NEW t \in {"-C", "-c"}, NEW u, globals = <<Static(t), Static(u)>>,
               t = "-c" => HasKey(u)
        PROVE  f[1].at = m + 1 /\ \A g \in ToSet(f[1].globals) :
                 /\ g.kind # "unknown" /\ g.operand # NoOperand /\ g.operand.m = "plain"
                 /\ g.kind = "-c" => HasKey(g.operand.t)
                 /\ g.kind # "--config-env"
    <3>1. m = 2 /\ 1 \in 1..m /\ 2 \in 1..m /\ globals[1] = Static(t) /\ globals[2] = Static(u)
      BY <2>3
    <3>2. full[1] = Static(t) /\ full[2] = Static(u)
      <4> HIDE DEF m
      <4> QED
        BY <1>2, <3>1
    <3>3. /\ 1 + 2 = m + 1 /\ ~(1 > Len(full)) /\ 1 < Len(full) /\ 1 + 1 = 2
      <4> HIDE DEF m
      <4> QED
        BY <1>3, <3>1
    <3>4. OperandAt(full, 1) = Static(u) /\ full[1].t = t
      BY <3>2, <3>3 DEF OperandAt, Static
    <3>5. f[1] = WithGlobal(t, Static(u), f[m + 1])
      <4>1. t # "--" /\ t \in {"-c", "--config-env", "-C"}
        BY <2>3
      <4>2. f[1] = WithGlobal(full[1].t, OperandAt(full, 1), f[1 + 2])
        <5>1. 1 \in Nat
          OBVIOUS
        <5> QED
          BY <1>5, <3>3, <3>4, <4>1, <5>1, Zenon
      <4> QED
        BY <3>3, <3>4, <4>2, Zenon
    <3>6. t \in Kinds \ {"unknown", "--config-env"}
      BY DEF Kinds
    <3>7. Static(u) \in Operands0(full)
      <4>1. 2 \in Nat
        OBVIOUS
      <4> QED
        BY <3>2, <4>1, Zenon DEF Operands0
    <3>8. Static(u) # NoOperand /\ Static(u).m = "plain" /\ Static(u).t = u
      <4>1. NoOperand.m = "none" /\ Static(u).m = "plain" /\ Static(u).t = u
        BY DEF NoOperand, Static
      <4> QED
        BY <4>1
    <3> QED
      BY <2>2, <2>3, <3>5, <3>6, <3>7, <3>8
  <2>4. ASSUME NEW t \in {"--no-pager", "--git-dir="}, globals = <<Static(t)>>
        PROVE  f[1].at = m + 1 /\ \A g \in ToSet(f[1].globals) :
                 /\ g.kind # "unknown" /\ g.operand # NoOperand /\ g.operand.m = "plain"
                 /\ g.kind = "-c" => HasKey(g.operand.t)
                 /\ g.kind # "--config-env"
    <3>1. m = 1 /\ 1 \in 1..m /\ globals[1] = Static(t)
      BY <2>4
    <3>2. full[1] = Static(t)
      <4> HIDE DEF m
      <4> QED
        BY <1>2, <3>1
    <3>3. 1 + 1 = m + 1 /\ ~(1 > Len(full)) /\ full[1].t = t /\ 1 \in Nat
      <4>1. full[1].t = t
        BY <3>2 DEF Static
      <4> HIDE DEF m
      <4> QED
        BY <1>3, <3>1, <4>1
    <3>4. \E kind \in {"joined", "bool"} : f[1] = WithGlobal(kind, Static(t), f[m + 1])
      <4>1. t \notin {"--", "-c", "--config-env", "-C"} /\ (t = "--no-pager" => t # "--git-dir=")
        BY <2>4
      <4>2. \/ f[1] = WithGlobal("joined", full[1], f[1 + 1])
            \/ f[1] = WithGlobal("bool", full[1], f[1 + 1])
        BY <1>5, <2>4, <3>3, <4>1
      <4> QED
        BY <3>2, <3>3, <4>2, Zenon
    <3>6. \A kind \in {"joined", "bool"} : kind \in Kinds \ {"unknown", "--config-env"} /\ kind # "-c"
      BY DEF Kinds
    <3>7. Static(t) \in Operands0(full)
      BY <3>2, <3>3, Zenon DEF Operands0
    <3>8. Static(t) # NoOperand /\ Static(t).m = "plain"
      <4>1. NoOperand.m = "none" /\ Static(t).m = "plain"
        BY DEF NoOperand, Static
      <4> QED
        BY <4>1
    <3> QED
      BY <2>2, <3>4, <3>6, <3>7, <3>8
  <2>5. globals \in {<< >>, <<Static("-C"), Static("list")>>, <<Static("--no-pager")>>,
                     <<Static("--git-dir=")>>, <<Static("-c"), Static("key=true")>>}
    BY Zenon DEF GlobalPrefixes
  <2>6. HasKey("key=true") /\ "-C" # "-c"
    BY DEF HasKey
  <2>7. CASE globals = <<Static("-C"), Static("list")>>
    BY <2>3, <2>6, <2>7
  <2>8. CASE globals = <<Static("-c"), Static("key=true")>>
    BY <2>3, <2>6, <2>8
  <2>9. CASE globals = <<Static("--no-pager")>> \/ globals = <<Static("--git-dir=")>>
    BY <2>4, <2>9
  <2> HIDE DEF m
  <2> QED
    BY <2>1, <2>5, <2>7, <2>8, <2>9, Zenon
<1> HIDE DEF m
<1>8. /\ Found("git", full, m + 1, full[m + 1].t)
      /\ IsAllowlistSafe(full)
      /\ GitSubcommand(full) = [kind |-> "resolved", word |-> full[m + 1].t]
      /\ EffectiveArgv("git", full) = SubSeq(full, m + 1, Len(full))
  BY <1>2, <1>3, <1>4, <1>7, GitFound
<1> QED
  BY <1>2, <1>3, <1>8 DEF full, m

\* After the globals of codex all words are kept.
LEMMA StripKeeps ==
  ASSUME NEW X, NEW words \in Seq(X), NEW flags, NEW everywhere \in BOOLEAN, ~everywhere,
         NEW s, StripFrom(s, words, flags, everywhere)
  PROVE  \A k \in 1..(Len(words) + 1) : s[<<k, everywhere>>] = SubSeq(words, k, Len(words))
<1> DEFINE Good(k) == k <= Len(words) + 1 => s[<<k, everywhere>>] = SubSeq(words, k, Len(words))
           G == {k \in Nat : Good(k)}
<1>n. Len(words) \in Nat
  OBVIOUS
<1>0. ASSUME NEW k \in Nat
      PROVE  s[<<k, everywhere>>] = IF k > Len(words) THEN << >>
                                    ELSE <<words[k]>> \o s[<<k + 1, everywhere>>]
  <2> DEFINE next == everywhere \/ (everywhere /\ Keeps(words, k))
  <2>1. s[<<k, everywhere>>] =
          IF k > Len(words) THEN << >>
          ELSE IF everywhere /\ Strips(words, flags, everywhere, k) THEN s[<<k + 2, everywhere>>]
          ELSE <<words[k]>> \o s[<<k + 1, next>>]
    BY Zenon DEF StripFrom
  <2>2. next = everywhere
    <3>1. next <=> everywhere
      BY Zenon
    <3> QED
      BY <3>1, Zenon
  <2> HIDE DEF next
  <2> QED
    BY <2>1, <2>2, Zenon
<1>1. \A k \in Nat : k > Len(words) => k \in G
  <2>1. ASSUME NEW k \in Nat, k > Len(words) PROVE Good(k)
    <3>1. k \in Int /\ Len(words) \in Int /\ Len(words) < k
      BY <1>n, <2>1
    <3>2. SubSeq(words, k, Len(words)) = << >>
      BY <3>1, SubSeqEmpty
    <3> QED
      BY <1>0, <2>1, <3>2, Zenon
  <2> HIDE DEF Good
  <2> QED
    BY <2>1
<1>2. ASSUME NEW k \in 1..Len(words), \A j \in Nat : j > k => j \in G
      PROVE  k \in G
  <2>0. /\ k \in Nat /\ k + 1 \in Nat /\ k + 1 > k /\ ~(k > Len(words))
        /\ k + 1 <= Len(words) + 1 /\ Len(words) \in k..Len(words)
    BY <1>n
  <2>1. k + 1 \in G
    <3> HIDE DEF G
    <3> QED
      BY <1>2, <2>0
  <2>2. s[<<k + 1, everywhere>>] = SubSeq(words, k + 1, Len(words))
    BY <2>0, <2>1
  <2>3. SubSeq(words, k, Len(words)) = <<words[k]>> \o SubSeq(words, k + 1, Len(words))
    BY <2>0, SubSeqRecursiveFirst
  <2>4. s[<<k, everywhere>>] = <<words[k]>> \o s[<<k + 1, everywhere>>]
    BY <1>0, <2>0, Zenon
  <2>5. Good(k)
    BY <2>2, <2>3, <2>4, Zenon
  <2> HIDE DEF Good
  <2> QED
    BY <2>0, <2>5
<1>3. \A k \in Nat \ {0} : k \in G
  <2> HIDE DEF G
  <2> QED
    BY <1>n, <1>1, <1>2, CountingDown
<1>4. ASSUME NEW k \in 1..(Len(words) + 1)
      PROVE  s[<<k, everywhere>>] = SubSeq(words, k, Len(words))
  <2>1. k \in Nat \ {0} /\ k <= Len(words) + 1
    BY <1>n
  <2>2. Good(k)
    <3> HIDE DEF Good
    <3> QED
      BY <1>3, <2>1
  <2> QED
    BY <2>1, <2>2
<1> QED
  BY <1>4

\* codex finds the subcommand behind a reviewed global.
LEMMA CodexLooksPast ==
  ASSUME NEW words \in Seq(FamilyWords("codex")), words # << >>, ~IsFlag(words[1]),
         NEW globals \in GlobalPrefixes("codex") \cup {<< >>}
  PROVE  /\ Found("codex", globals \o words, Len(globals) + 1, words[1].t)
         /\ EffectiveArgv("codex", globals \o words) = words
<1> DEFINE X == FamilyWords("codex")
           full == globals \o words
           m == Len(globals)
           n == Len(words)
           V == ValueFlags("codex", full)
<1>g. globals = << >> \/ globals = <<Static("-m"), Static("list")>>
  BY Zenon DEF GlobalPrefixes
<1>1. globals \in Seq(X) /\ words \in Seq(X)
  <2>1. Static("-m") \in X /\ Static("list") \in X
    BY DEF FamilyWords
  <2>2. words \in Seq(X)
    OBVIOUS
  <2> HIDE DEF X
  <2>3. << >> \in Seq(X) /\ \A a, b \in X : <<a, b>> \in Seq(X)
    OBVIOUS
  <2> QED
    BY <1>g, <2>1, <2>2, <2>3, Zenon
<1>2. /\ full \in Seq(X) /\ Len(full) = m + n /\ m \in Nat /\ n \in Nat \ {0}
      /\ \A i \in 1..m : full[i] = globals[i]
      /\ \A i \in 1..n : full[m + i] = words[i]
      /\ SubSeq(full, m + 1, Len(full)) = words
  <2> HIDE DEF X
  <2> QED
    BY <1>1, Prefixed
<1> HIDE DEF X
<1>3. /\ Len(full) \in Nat /\ m + 1 \in 1..Len(full) /\ m + 1 \in Nat /\ ~(m + 1 > Len(full))
      /\ m + 1 <= Len(full) /\ (m + 1) + 1 \in 1..(Len(full) + 1)
      /\ full[m + 1] = words[1]
  <2>1. 1 \in 1..n
    BY <1>2
  <2> HIDE DEF full, m, n
  <2> QED
    BY <1>2, <2>1
<1> HIDE DEF full
<1>v. V = {"-m"}
  BY Zenon DEF ValueFlags
<1>c. "codex" # "git"
  OBVIOUS
<1>4. /\ full[m + 1].t # "--" /\ full[m + 1].t \notin V /\ ~IsFlag(full[m + 1])
      /\ ~Keeps(full, m + 1)
  BY <1>3, <1>v DEF IsFlag, FlagTexts, Keeps
<1>5. m = 0 \/ /\ m = 2 /\ full[1] = Static("-m") /\ full[2] = Static("list")
               /\ ~(1 > Len(full)) /\ 1 # Len(full)
  <2>1. CASE globals = << >>
    BY <2>1
  <2>2. CASE globals = <<Static("-m"), Static("list")>>
    <3>1. m = 2 /\ 1 \in 1..m /\ 2 \in 1..m /\ globals[1] = Static("-m") /\ globals[2] = Static("list")
      BY <2>2
    <3> HIDE DEF m
    <3> QED
      BY <1>2, <1>3, <3>1
  <2> QED
    BY <1>g, <2>1, <2>2
<1>6. m = 2 => /\ full[1].t \in V /\ full[1].t # "--" /\ full[1 + 1].m # "unsafe"
               /\ m + 1 = 1 + 2
  <2>1. Static("-m").t = "-m" /\ Static("list").m = "plain" /\ "-m" # "--" /\ 1 + 1 = 2 /\ 1 + 2 = 3
    BY DEF Static
  <2> HIDE DEF m
  <2> QED
    BY <1>5, <1>v, <2>1
<1> HIDE DEF V, m
<1>7. PICK f : ResolvesFrom(f, "codex", full) /\ ResolveSubcommand("codex", full) = f[1]
  BY <1>c, ResolveScans
<1>8. f[1] = [kind |-> "resolved", word |-> full[m + 1].t]
  <2>0. \A i \in Nat : f[i] =
      IF i > Len(full) THEN ResolvedAt(full, i)
      ELSE IF full[i].t = "--" THEN ResolvedAt(full, i + 1)
      ELSE IF full[i].t \in V
           THEN IF i = Len(full) \/ full[i+1].m = "unsafe"
                THEN [kind |-> "ambiguous"] ELSE f[i + 2]
      ELSE IF IsFlag(full[i]) THEN f[i + 1]
      ELSE ResolvedAt(full, i)
    BY <1>7, Zenon DEF ResolvesFrom, V
  <2>1. f[m + 1] = ResolvedAt(full, m + 1)
    BY <1>3, <1>4, <2>0, Zenon
  <2>2. ResolvedAt(full, m + 1) = [kind |-> "resolved", word |-> full[m + 1].t]
    BY <1>3, Zenon DEF ResolvedAt
  <2>3. CASE m = 0
    <3>1. m + 1 = 1
      BY <2>3
    <3> QED
      BY <2>1, <2>2, <3>1
  <2>4. CASE m = 2
    <3>1. 1 \in Nat
      OBVIOUS
    <3>0. ~(1 > Len(full)) /\ 1 # Len(full)
      BY <1>5, <2>4
    <3>2. f[1] = f[1 + 2]
      BY <1>6, <2>0, <2>4, <3>0, <3>1, Zenon
    <3> QED
      BY <1>6, <2>1, <2>2, <2>4, <3>2
  <2> QED
    BY <1>5, <2>3, <2>4
<1>9. PICK g : StartsFrom(g, "codex", full) /\ SubcommandStart("codex", full) = g[1]
  BY <1>c, StartScans
<1>10. g[1] = m + 1
  <2>0. \A i \in Nat : g[i] =
      IF i > Len(full) THEN Len(full) + 1
      ELSE IF full[i].t = "--" THEN i + 1
      ELSE IF full[i].t \in V THEN g[i + 2]
      ELSE IF IsFlag(full[i]) THEN g[i + 1]
      ELSE i
    BY <1>9, Zenon DEF StartsFrom, V
  <2>1. g[m + 1] = m + 1
    BY <1>3, <1>4, <2>0, Zenon
  <2>3. CASE m = 0
    <3>1. m + 1 = 1
      BY <2>3
    <3> QED
      BY <2>1, <3>1
  <2>4. CASE m = 2
    <3>1. 1 \in Nat
      OBVIOUS
    <3>2. g[1] = g[1 + 2]
      BY <1>5, <1>6, <2>0, <2>4, <3>1
    <3> QED
      BY <1>6, <2>1, <2>4, <3>2
  <2> QED
    BY <1>5, <2>3, <2>4
<1>11. Strip(full, V, FALSE) = words
  <2>1. PICK everywhere \in BOOLEAN : everywhere = FALSE
    OBVIOUS
  <2>2. PICK s : StripFrom(s, full, V, everywhere) /\ Strip(full, V, everywhere) = s[<<1, TRUE>>]
    BY <1>3, StripScans
  <2>3. ~everywhere
    BY <2>1
  <2>4. s[<<(m + 1) + 1, everywhere>>] = SubSeq(full, (m + 1) + 1, Len(full))
    <3>1. \A k \in 1..(Len(full) + 1) : s[<<k, everywhere>>] = SubSeq(full, k, Len(full))
      BY <1>2, <2>2, <2>3, StripKeeps, ZenonT(30)
    <3> QED
      BY <1>3, <3>1
  <2>5. s[<<m + 1, TRUE>>] = <<full[m + 1]>> \o s[<<(m + 1) + 1, everywhere>>]
    <3> DEFINE next == everywhere \/ (TRUE /\ Keeps(full, m + 1))
    <3>1. ~Strips(full, V, everywhere, m + 1)
      BY <1>4, Zenon DEF Strips
    <3>2. s[<<m + 1, TRUE>>] =
            IF m + 1 > Len(full) THEN << >>
            ELSE IF TRUE /\ Strips(full, V, everywhere, m + 1) THEN s[<<(m + 1) + 2, TRUE>>]
            ELSE <<full[m + 1]>> \o s[<<(m + 1) + 1, next>>]
      <4>1. TRUE \in BOOLEAN
        OBVIOUS
      <4> QED
        BY <1>3, <2>2, <4>1, Zenon DEF StripFrom
    <3>3. next = everywhere
      <4>1. next <=> everywhere
        BY <1>4, Zenon
      <4> QED
        BY <4>1, Zenon
    <3> HIDE DEF next
    <3> QED
      BY <1>3, <3>1, <3>2, <3>3, Zenon
  <2>6. s[<<m + 1, TRUE>>] = SubSeq(full, m + 1, Len(full))
    <3>1. Len(full) \in (m + 1)..Len(full)
      BY <1>3
    <3>2. SubSeq(full, m + 1, Len(full)) = <<full[m + 1]>> \o SubSeq(full, (m + 1) + 1, Len(full))
      BY <1>2, <1>3, <3>1, SubSeqRecursiveFirst
    <3> QED
      BY <2>4, <2>5, <3>2, Zenon
  <2>7. s[<<1, TRUE>>] = s[<<m + 1, TRUE>>]
    <3>1. CASE m = 0
      <4>1. m + 1 = 1
        BY <3>1
      <4> QED
        BY <4>1
    <3>2. CASE m = 2
      <4>1. TRUE \in BOOLEAN /\ 1 \in Nat
        OBVIOUS
      <4>2. Strips(full, V, everywhere, 1)
        BY <1>6, <2>3, <3>2, Zenon DEF Strips
      <4>3. s[<<1, TRUE>>] = s[<<1 + 2, TRUE>>]
        <5>1. ~(1 > Len(full))
          BY <1>3
        <5> QED
          BY <2>2, <4>1, <4>2, <5>1, Zenon DEF StripFrom
      <4> QED
        BY <1>6, <3>2, <4>3
    <3> QED
      BY <1>5, <3>1, <3>2
  <2> QED
    BY <1>2, <2>1, <2>2, <2>6, <2>7
<1>12. EffectiveArgv("codex", full) = words
  BY <1>c, <1>11, Zenon DEF EffectiveArgv, V
<1>13. Found("codex", full, m + 1, words[1].t)
  BY <1>3, <1>7, <1>8, <1>9, <1>10, Zenon DEF Found
<1> QED
  BY <1>12, <1>13 DEF full, m

LEMMA RulesKnown ==
  \A rule \in Rules : /\ rule.pin = {} => rule.none = {}
                      /\ rule.pin # {} => rule.first = {}
                      /\ rule.first \subseteq {"branch"}
                      /\ rule.min \in Nat
<1> SUFFICES ASSUME NEW rule \in Rules
    PROVE  /\ rule.pin = {} => rule.none = {}
           /\ rule.pin # {} => rule.first = {}
           /\ rule.first \subseteq {"branch"}
           /\ rule.min \in Nat
  OBVIOUS
<1>1. CASE rule = [Rule EXCEPT !.pin = {"branch"}, !.any = {"-C", "-d"}]
  BY <1>1 DEF Rule
<1>2. CASE rule = [Rule EXCEPT !.pin = {"branch", "exec"}]
  BY <1>2 DEF Rule
<1>3. CASE rule = [Rule EXCEPT !.pin = {"stash"}, !.all = {"-f"}, !.none = {"-c"}]
  BY <1>3 DEF Rule
<1>4. CASE rule = [Rule EXCEPT !.pin = {"branch", "run"}, !.min = 2]
  BY <1>4 DEF Rule
<1>5. CASE rule = [Rule EXCEPT !.args = {"stash"}, !.first = {"branch"}]
  BY <1>5 DEF Rule
<1>6. CASE rule = [Rule EXCEPT !.every = {"branch", "-d"}, !.noargs = {"-f"}]
  BY <1>6 DEF Rule
<1>7. CASE rule = [Rule EXCEPT !.any = {"-d"}, !.args = {"branch", "ruff"}]
  BY <1>7 DEF Rule
<1> QED
  BY <1>1, <1>2, <1>3, <1>4, <1>5, <1>6, <1>7, Zenon DEF Rules

\* What rules say of a line with globals and of the line without.
LEMMA RulesLookPast ==
  ASSUME NEW family, NEW X, NEW words \in Seq(X), words # << >>, NEW globals \in Seq(X),
         NEW t, Found(family, words, 1, t),
         Found(family, globals \o words, Len(globals) + 1, t),
         (globals \o words)[1].t # "branch", NEW rule \in Rules
  PROVE  LET full == globals \o words IN
         /\ rule.noargs = {} /\ MatchesRule(rule, family, words) => MatchesRule(rule, family, full)
         /\ rule.pin # {} /\ rule.args \cup rule.every \cup rule.noargs = {} =>
              (MatchesRule(rule, family, full) => MatchesRule(rule, family, words))
<1> DEFINE full == globals \o words
           m == Len(globals)
           n == Len(words)
<1>1. /\ Len(full) = m + n /\ m \in Nat /\ n \in Nat \ {0}
      /\ ToSet(words) \subseteq ToSet(full)
      /\ WordsFrom(full, m + 1) = WordsFrom(words, 1)
  BY Prefixed
<1>2. full[1].t # "branch"
  OBVIOUS
<1>3. Found(family, full, m + 1, t)
  OBVIOUS
<1>4. full # << >>
  <2>1. Len(full) # 0
    <3> HIDE DEF full, m, n
    <3> QED
      BY <1>1
  <2>2. Len(<< >>) = 0
    OBVIOUS
  <2> QED
    BY <2>1, <2>2
<1> HIDE DEF full
<1>5. /\ rule.pin = {} => rule.none = {}
      /\ rule.pin # {} => rule.first = {}
      /\ rule.first \subseteq {"branch"}
      /\ rule.min \in Nat
  BY RulesKnown
<1>6. /\ SubcommandStart(family, words) = 1 /\ SubcommandStart(family, full) = m + 1
      /\ ResolveSubcommand(family, words) = ResolveSubcommand(family, full)
  BY <1>3, Zenon DEF Found
<1>7. rule.pin # {} => FlagWords(rule, family, full) = FlagWords(rule, family, words)
  BY <1>1, <1>6, Zenon DEF FlagWords, WordsFrom
<1>8. rule.pin = {} => /\ FlagWords(rule, family, words) \subseteq FlagWords(rule, family, full)
                       /\ rule.none = {}
  BY <1>1, <1>5, Zenon DEF FlagWords
<1>9. FlagsMatch(rule, FlagWords(rule, family, words)) => FlagsMatch(rule, FlagWords(rule, family, full))
  <2>1. CASE rule.pin # {}
    BY <1>7, <2>1, Zenon
  <2>2. CASE rule.pin = {}
    <3> DEFINE A == FlagWords(rule, family, words)
               B == FlagWords(rule, family, full)
    <3>1. A \subseteq B /\ rule.none = {}
      BY <1>8, <2>2
    <3> HIDE DEF A, B
    <3>2. FlagsMatch(rule, A) => FlagsMatch(rule, B)
      <4>1. \A flag : (\E w \in A : MatchesFlag(w, flag)) => \E w \in B : MatchesFlag(w, flag)
        BY <3>1
      <4> QED
        BY <3>1, <4>1 DEF FlagsMatch
    <3> QED
      BY <3>2 DEF A, B
  <2> QED
    BY <2>1, <2>2
<1>10. PinMatches(rule, family, words) <=> PinMatches(rule, family, full)
  BY <1>6, Zenon DEF PinMatches
<1>11. Len(words) + 1 >= SubcommandStart(family, words) + rule.min
         <=> Len(full) + 1 >= SubcommandStart(family, full) + rule.min
  BY <1>1, <1>5, <1>6
<1>12. rule.noargs = {} /\ ArgsMatch(rule, words) => ArgsMatch(rule, full)
  <2>1. {w.t : w \in ToSet(words)} \subseteq {w.t : w \in ToSet(full)}
    BY <1>1
  <2>2. full[1].t \notin rule.first
    BY <1>2, <1>5
  <2> QED
    BY <2>1, <2>2 DEF ArgsMatch
<1>13. rule.pin # {} /\ rule.args \cup rule.every \cup rule.noargs = {} => ArgsMatch(rule, words)
  BY <1>5 DEF ArgsMatch
<1>14. rule.noargs = {} /\ MatchesRule(rule, family, words) => MatchesRule(rule, family, full)
  BY <1>9, <1>10, <1>11, <1>12, Zenon DEF MatchesRule
<1>15. rule.pin # {} /\ rule.args \cup rule.every \cup rule.noargs = {} =>
         (MatchesRule(rule, family, full) => MatchesRule(rule, family, words))
  BY <1>7, <1>10, <1>11, <1>13, Zenon DEF MatchesRule
<1> QED
  BY <1>14, <1>15, Zenon DEF full

\* What the allowlist says of a line is what its words without globals say.
LEMMA SameEntries ==
  ASSUME NEW family, NEW one, NEW other, NEW trust,
         family = "git" => /\ IsAllowlistSafe(one) /\ IsAllowlistSafe(other)
                           /\ GitSubcommand(one) = GitSubcommand(other),
         EffectiveArgv(family, one) = EffectiveArgv(family, other)
  PROVE  AllowlistMatches(family, one, trust) = AllowlistMatches(family, other, trust)
<1>1. ASSUME NEW entry
      PROVE  entry \in AllowlistMatches(family, one, trust)
               <=> entry \in AllowlistMatches(family, other, trust)
  BY Zenon DEF AllowlistMatches
<1>2. \A A, B : (\A e : e \in A <=> e \in B) => A = B
  OBVIOUS
<1> QED
  BY <1>1, <1>2, Zenon

LEMMA LinesLookPast == WordsInv => GlobalsDoNotMatter
<1> SUFFICES ASSUME WordsInv, Scan = "rules", argv # << >>, ~IsFlag(argv[1]),
                    NEW globals \in GlobalPrefixes(Name)
    PROVE  /\ AllowlistMatches(Name, globals \o argv, 3) = AllowlistMatches(Name, argv, 3)
           /\ \A rule \in Rules :
                /\ rule.noargs = {} /\ MatchesRule(rule, Name, argv) =>
                     MatchesRule(rule, Name, globals \o argv)
                /\ rule.pin # {} /\ rule.args \cup rule.every \cup rule.noargs = {} =>
                     (MatchesRule(rule, Name, globals \o argv) => MatchesRule(rule, Name, argv))
  BY Zenon DEF GlobalsDoNotMatter
<1>1. Name \in Families /\ argv \in Seq(FamilyWords(Name)) /\ Name \in {"git", "codex", "uv", "logcli"}
  BY RulesTried DEF Families
<1> DEFINE full == globals \o argv
           X == FamilyWords(Name) \cup {Static("list")}
<1>2. /\ << >> \o argv = argv /\ Len(<< >>) + 1 = 1
  BY <1>1
<1>3. CASE Name = "git"
  <2>1. \A g \in GlobalPrefixes("git") \cup {<< >>} :
          /\ Found("git", g \o argv, Len(g) + 1, argv[1].t)
          /\ IsAllowlistSafe(g \o argv)
          /\ GitSubcommand(g \o argv) = [kind |-> "resolved", word |-> argv[1].t]
          /\ EffectiveArgv("git", g \o argv) = argv
    BY <1>1, <1>3, GitLooksPast
  <2>2. /\ Found("git", full, Len(globals) + 1, argv[1].t)
        /\ IsAllowlistSafe(full) /\ GitSubcommand(full) = [kind |-> "resolved", word |-> argv[1].t]
        /\ EffectiveArgv("git", full) = argv
    BY <1>3, <2>1
  <2>3. /\ Found("git", argv, 1, argv[1].t)
        /\ IsAllowlistSafe(argv) /\ GitSubcommand(argv) = [kind |-> "resolved", word |-> argv[1].t]
        /\ EffectiveArgv("git", argv) = argv
    <3>1. /\ Found("git", << >> \o argv, Len(<< >>) + 1, argv[1].t)
          /\ IsAllowlistSafe(<< >> \o argv)
          /\ GitSubcommand(<< >> \o argv) = [kind |-> "resolved", word |-> argv[1].t]
          /\ EffectiveArgv("git", << >> \o argv) = argv
      BY <2>1
    <3> QED
      BY <1>2, <3>1
  <2>4. globals \in {<<Static("-C"), Static("list")>>, <<Static("--no-pager")>>,
                     <<Static("--git-dir=")>>, <<Static("-c"), Static("key=true")>>}
    BY <1>3, Zenon DEF GlobalPrefixes
  <2>5. globals \in Seq(X) /\ argv \in Seq(X)
    <3>1. /\ Static("-C") \in X /\ Static("list") \in X /\ Static("--no-pager") \in X
          /\ Static("--git-dir=") \in X /\ Static("-c") \in X /\ Static("key=true") \in X
      BY <1>3 DEF FamilyWords
    <3>2. argv \in Seq(X)
      BY <1>1
    <3> HIDE DEF X
    <3>3. \A a, b \in X : <<a>> \in Seq(X) /\ <<a, b>> \in Seq(X)
      OBVIOUS
    <3> QED
      BY <2>4, <3>1, <3>2, <3>3, Zenon
  <2>6. full[1].t # "branch"
    <3>1. /\ Len(globals) \in Nat \ {0} /\ globals[1].t # "branch"
      BY <2>4 DEF Static
    <3>2. \A i \in 1..Len(globals) : full[i] = globals[i]
      <4> HIDE DEF X
      <4> QED
        BY <2>5, Prefixed
    <3>3. full[1] = globals[1]
      <4>1. 1 \in 1..Len(globals)
        BY <3>1
      <4> QED
        BY <3>2, <4>1
    <3> QED
      BY <3>1, <3>3
  <2>7. AllowlistMatches(Name, full, 3) = AllowlistMatches(Name, argv, 3)
    <3> HIDE DEF full
    <3> QED
      BY <1>3, <2>2, <2>3, SameEntries
  <2> HIDE DEF X
  <2> QED
    BY <1>3, <2>2, <2>3, <2>5, <2>6, <2>7, RulesLookPast
<1>4. CASE Name = "codex"
  <2>1. \A g \in GlobalPrefixes("codex") \cup {<< >>} :
          /\ Found("codex", g \o argv, Len(g) + 1, argv[1].t)
          /\ EffectiveArgv("codex", g \o argv) = argv
    BY <1>1, <1>4, CodexLooksPast
  <2>2. /\ Found("codex", full, Len(globals) + 1, argv[1].t)
        /\ EffectiveArgv("codex", full) = argv
    BY <1>4, <2>1
  <2>3. /\ Found("codex", argv, 1, argv[1].t)
        /\ EffectiveArgv("codex", argv) = argv
    <3>1. /\ Found("codex", << >> \o argv, Len(<< >>) + 1, argv[1].t)
          /\ EffectiveArgv("codex", << >> \o argv) = argv
      BY <2>1
    <3> QED
      BY <1>2, <3>1
  <2>4. globals = <<Static("-m"), Static("list")>>
    BY <1>4, Zenon DEF GlobalPrefixes
  <2>5. globals \in Seq(X) /\ argv \in Seq(X)
    <3>1. Static("-m") \in X /\ Static("list") \in X
      BY <1>4 DEF FamilyWords
    <3>2. argv \in Seq(X)
      BY <1>1
    <3> HIDE DEF X
    <3>3. \A a, b \in X : <<a>> \in Seq(X) /\ <<a, b>> \in Seq(X)
      OBVIOUS
    <3> QED
      BY <2>4, <3>1, <3>2, <3>3, Zenon
  <2>6. full[1].t # "branch"
    <3>1. /\ Len(globals) \in Nat \ {0} /\ globals[1].t # "branch"
      BY <2>4 DEF Static
    <3>2. \A i \in 1..Len(globals) : full[i] = globals[i]
      <4> HIDE DEF X
      <4> QED
        BY <2>5, Prefixed
    <3>3. full[1] = globals[1]
      <4>1. 1 \in 1..Len(globals)
        BY <3>1
      <4> QED
        BY <3>2, <4>1
    <3> QED
      BY <3>1, <3>3
  <2>7. AllowlistMatches(Name, full, 3) = AllowlistMatches(Name, argv, 3)
    <3> HIDE DEF full
    <3> QED
      BY <1>4, <2>2, <2>3, SameEntries
  <2> HIDE DEF X
  <2> QED
    BY <1>4, <2>2, <2>3, <2>5, <2>6, <2>7, RulesLookPast
<1>5. CASE Name \notin {"git", "codex"}
  <2>1. GlobalPrefixes(Name) = {}
    BY <1>5, Zenon DEF GlobalPrefixes
  <2> QED
    BY <2>1
<1> QED
  BY <1>3, <1>4, <1>5

\* Whatever the words are, reviewed globals before them change nothing.
THEOREM GlobalsNeverMatter == Spec => []GlobalsDoNotMatter
BY WordsType, LinesLookPast, PTL

-----------------------------------------------------------------------------
(* What the classifiers let pass is harmless. *)

\* A scan of boolean value that only goes on.
SetFrom(f, words) ==
  \A i \in Nat :
    f[i] = IF i > Len(words) THEN TRUE
           ELSE IF words[i].t \notin DOMAIN Clusters THEN FALSE
           ELSE IF ToSet(Clusters[words[i].t]) \cap {"a", "k"} # {} THEN FALSE
           ELSE IF "o" \notin ToSet(Clusters[words[i].t]) THEN f[i + 1]
           ELSE IF /\ Last(Clusters[words[i].t]) = "o"
                   /\ i < Len(words) /\ NameIsBenign(words[i+1].t)
                THEN f[i + 2] ELSE FALSE

LEMMA SetScans ==
  ASSUME NEW words, SetIsBenign(words)
  PROVE  \E f : SetFrom(f, words) /\ f[1]
<1> DEFINE letters(i) == Clusters[words[i].t]
           Named(i) == /\ Last(letters(i)) = "o"
                       /\ i < Len(words) /\ NameIsBenign(words[i+1].t)
           Eq(F) == F = [i \in Nat |->
             IF i > Len(words) THEN TRUE
             ELSE IF words[i].t \notin DOMAIN Clusters THEN FALSE
             ELSE IF ToSet(letters(i)) \cap {"a", "k"} # {} THEN FALSE
             ELSE IF "o" \notin ToSet(letters(i)) THEN F[i + 1]
             ELSE IF Named(i) THEN F[i + 2] ELSE FALSE]
           fails == {i \in Nat : \/ words[i].t \notin DOMAIN Clusters
                                 \/ ToSet(letters(i)) \cap {"a", "k"} # {}
                                 \/ "o" \in ToSet(letters(i)) /\ ~Named(i)}
           stops == {i \in Nat : i > Len(words)} \cup fails
           out == [i \in Nat |-> IF i > Len(words) THEN TRUE ELSE FALSE]
           next == [i \in Nat |-> IF "o" \notin ToSet(letters(i)) THEN i + 1 ELSE i + 2]
<1>1. PICK f : Follows(f, Nat, stops, out, next)
  <2>1. stops \in SUBSET Nat /\ \A i \in Nat \ stops : next[i] \in Nat
    OBVIOUS
  <2> HIDE DEF stops, out, next
  <2> QED
    BY <2>1, TailRecursion
<1>2. Eq(f)
  <2>1. f = [i \in Nat |-> IF i \in stops THEN out[i] ELSE f[next[i]]]
    BY <1>1 DEF Follows
  <2>2. ASSUME NEW i \in Nat
        PROVE  (IF i \in stops THEN out[i] ELSE f[next[i]]) =
             IF i > Len(words) THEN TRUE
             ELSE IF words[i].t \notin DOMAIN Clusters THEN FALSE
             ELSE IF ToSet(letters(i)) \cap {"a", "k"} # {} THEN FALSE
             ELSE IF "o" \notin ToSet(letters(i)) THEN f[i + 1]
             ELSE IF Named(i) THEN f[i + 2] ELSE FALSE
    <3> HIDE DEF letters, Named
    <3>1. CASE i > Len(words)
      <4>1. i \in stops /\ out[i] = TRUE
        BY <3>1, Zenon
      <4> QED
        BY <3>1, <4>1, Zenon
    <3>2. CASE ~(i > Len(words)) /\ i \in fails
      BY <3>2
    <3>3. CASE ~(i > Len(words)) /\ i \notin fails
      BY <3>3
    <3> QED
      BY <3>1, <3>2, <3>3
  <2> QED
    BY <2>1, <2>2, Zenon
<1> DEFINE g == CHOOSE F : Eq(F)
<1>3. Eq(g)
  <2> HIDE DEF Eq
  <2> QED
    BY <1>2
<1>4. g[1]
  BY Zenon DEF SetIsBenign
<1> HIDE DEF g
<1>5. SetFrom(g, words)
  BY <1>3 DEF SetFrom
<1> QED
  BY <1>4, <1>5

EnablesFrom(f, words) ==
  \A i \in Nat :
    f[i] = IF i > Len(words) \/ words[i].t \notin DOMAIN Clusters THEN {}
           ELSE LET letters == ToSet(Clusters[words[i].t])
                    named == "o" \in letters /\ i < Len(words)
                             /\ words[i+1].t \notin Signed
                IN letters \cup (IF named THEN {words[i+1].t} ELSE {})
                   \cup f[IF named THEN i + 2 ELSE i + 1]

LEMMA EnablesScans ==
  ASSUME NEW words
  PROVE  \E f : EnablesFrom(f, words) /\ SetEnables(words) = f[1]
<1> DEFINE letters(i) == ToSet(Clusters[words[i].t])
           named(i) == "o" \in letters(i) /\ i < Len(words) /\ words[i+1].t \notin Signed
           Eq(F) == F = [i \in Nat |->
             IF i > Len(words) \/ words[i].t \notin DOMAIN Clusters THEN {}
             ELSE letters(i) \cup (IF named(i) THEN {words[i+1].t} ELSE {})
                   \cup F[IF named(i) THEN i + 2 ELSE i + 1]]
           ends(i) == i > Len(words) \/ words[i].t \notin DOMAIN Clusters
           base == [i \in Nat |-> IF ends(i) THEN {}
                     ELSE letters(i) \cup (IF named(i) THEN {words[i+1].t} ELSE {})]
           kids == [i \in Nat |-> IF ends(i) THEN {}
                                  ELSE {IF named(i) THEN i + 2 ELSE i + 1}]
<1>1. PICK f : Solves(f, Nat, base, kids)
  <2>1. \A i \in Nat : kids[i] \subseteq Nat
    <3> HIDE DEF ends, named
    <3> QED
      OBVIOUS
  <2> HIDE DEF base, kids
  <2> QED
    BY <2>1, LeastSolution
<1>2. Eq(f)
  <2>1. f = [i \in Nat |-> base[i] \cup UNION {f[y] : y \in kids[i]}]
    BY <1>1 DEF Solves
  <2>2. ASSUME NEW i \in Nat
        PROVE  base[i] \cup UNION {f[y] : y \in kids[i]} =
             IF i > Len(words) \/ words[i].t \notin DOMAIN Clusters THEN {}
             ELSE letters(i) \cup (IF named(i) THEN {words[i+1].t} ELSE {})
                   \cup f[IF named(i) THEN i + 2 ELSE i + 1]
    <3>1. CASE ends(i)
      BY <3>1
    <3>2. CASE ~ends(i)
      <4> DEFINE j == IF named(i) THEN i + 2 ELSE i + 1
                 b == letters(i) \cup (IF named(i) THEN {words[i+1].t} ELSE {})
      <4>1. base[i] = b /\ kids[i] = {j}
        <5> HIDE DEF named, letters, ends
        <5> QED
          BY <3>2
      <4>2. ~(i > Len(words) \/ words[i].t \notin DOMAIN Clusters)
        BY <3>2
      <4> HIDE DEF base, kids, j, b, ends
      <4>3. base[i] \cup UNION {f[y] : y \in kids[i]} = b \cup f[j]
        BY <4>1
      <4> QED
        BY <4>2, <4>3, Zenon DEF j, b
    <3> QED
      BY <3>1, <3>2
  <2> QED
    BY <2>1, <2>2, Zenon
<1> DEFINE g == CHOOSE F : Eq(F)
<1>3. Eq(g)
  <2> HIDE DEF Eq
  <2> QED
    BY <1>2
<1>4. SetEnables(words) = g[1]
  BY Zenon DEF SetEnables
<1> HIDE DEF g
<1>5. EnablesFrom(g, words)
  BY <1>3, Zenon DEF EnablesFrom
<1> QED
  BY <1>4, <1>5

LEMMA ClusterLetters ==
  \A t \in DOMAIN Clusters : ToSet(Clusters[t]) \subseteq {"a", "e", "k", "o"}
<1>1. ASSUME NEW t \in DOMAIN Clusters
      PROVE  Clusters[t] \in {<<"e">>, <<"a">>, <<"o">>, <<"e", "o">>, <<"o", "e">>, <<"e", "k">>}
  BY DEF Clusters
<1>2. \A s \in {<<"e">>, <<"a">>, <<"o">>, <<"e", "o">>, <<"o", "e">>, <<"e", "k">>} :
        ToSet(s) \subseteq {"a", "e", "k", "o"}
  BY DEF ToSet
<1> QED
  BY <1>1, <1>2

\* What set takes for benign enables no export.
LEMMA BenignSets ==
  ASSUME NEW words \in Seq(SetWords), SetIsBenign(words)
  PROVE  SetEnables(words) \cap Exports = {}
<1>1. PICK f : SetFrom(f, words) /\ f[1]
  BY SetScans
<1>2. PICK g : EnablesFrom(g, words) /\ SetEnables(words) = g[1]
  BY EnablesScans
<1> DEFINE Good(k) == f[k] => g[k] \cap Exports = {}
           G == {k \in Nat : Good(k)}
<1>0. Len(words) \in Nat
  OBVIOUS
<1>3. ASSUME NEW k \in Nat, k > Len(words) PROVE k \in G
  <2>1. g[k] = {}
    BY <1>2, <1>3 DEF EnablesFrom
  <2> QED
    BY <2>1
<1>4. ASSUME NEW k \in 1..Len(words), \A j \in Nat : j > k => j \in G
      PROVE  k \in G
  <2> SUFFICES ASSUME f[k] PROVE g[k] \cap Exports = {}
    OBVIOUS
  <2> DEFINE t == words[k].t
             letters == Clusters[t]
  <2>0. k \in Nat /\ ~(k > Len(words)) /\ k + 1 \in Nat /\ k + 2 \in Nat
    OBVIOUS
  <2>1. t \in DOMAIN Clusters /\ ToSet(letters) \cap {"a", "k"} = {}
    BY <1>1, <2>0, Zenon DEF SetFrom
  <2>2. ToSet(letters) \cap Exports = {}
    BY <2>1, ClusterLetters DEF Exports
  <2>3. /\ f[k + 1] => g[k + 1] \cap Exports = {}
        /\ f[k + 2] => g[k + 2] \cap Exports = {}
    <3>1. k + 1 \in G /\ k + 2 \in G
      BY <1>4, <2>0
    <3> QED
      BY <3>1
  <2>4. g[k] = LET named == /\ "o" \in ToSet(letters) /\ k < Len(words)
                            /\ words[k + 1].t \notin Signed
               IN ToSet(letters) \cup (IF named THEN {words[k + 1].t} ELSE {})
                  \cup g[IF named THEN k + 2 ELSE k + 1]
    BY <1>2, <2>0, <2>1, Zenon DEF EnablesFrom
  <2> HIDE DEF G
  <2>5. CASE "o" \notin ToSet(letters)
    <3>1. f[k + 1]
      BY <1>1, <2>0, <2>1, <2>5, Zenon DEF SetFrom
    <3>2. g[k] = ToSet(letters) \cup g[k + 1]
      BY <2>4, <2>5
    <3> QED
      BY <2>2, <2>3, <3>1, <3>2
  <2>6. CASE "o" \in ToSet(letters)
    <3>1. f[k + 2] /\ k < Len(words) /\ NameIsBenign(words[k + 1].t)
      BY <1>1, <2>0, <2>1, <2>6, Zenon DEF SetFrom
    <3>2. words[k + 1].t \notin Signed
      BY <3>1 DEF NameIsBenign
    <3>3. g[k] = ToSet(letters) \cup {words[k + 1].t} \cup g[k + 2]
      BY <2>4, <2>6, <3>1, <3>2
    <3>4. words[k + 1] \in SetWords
      BY <2>0, <3>1
    <3>5. words[k + 1].t \in {"pipefail", "allexport", "ALL_EXPORT"}
      <4>1. \A w \in SetWords : w.t \in DOMAIN Clusters \cup {"--", "-", "pipefail", "allexport", "ALL_EXPORT"}
        BY DEF SetWords, Word
      <4> QED
        BY <3>2, <3>4, <4>1 DEF Signed
    <3>6. words[k + 1].t = "pipefail"
      BY <3>1, <3>5 DEF NameIsBenign, Normalized
    <3>7. words[k + 1].t \notin Exports
      BY <3>6 DEF Exports
    <3> QED
      BY <2>2, <2>3, <3>1, <3>3, <3>7
  <2> QED
    BY <2>5, <2>6
<1>5. 1 \in G
  <2> HIDE DEF G
  <2>1. \A k \in Nat \ {0} : k \in G
    BY <1>0, <1>3, <1>4, CountingDown
  <2> QED
    BY <2>1
<1> QED
  BY <1>1, <1>2, <1>5

LEMMA BenignSetopts ==
  ASSUME NEW words \in Seq(SetWords), SetoptIsBenign(words)
  PROVE  ToSet(Texts(words)) \cap Exports = {}
<1>1. \A w \in SetWords : w.t \in Signed \cup {"pipefail", "allexport", "ALL_EXPORT"}
  BY DEF SetWords, Word, Signed
<1>2. ASSUME NEW i \in DOMAIN words PROVE words[i].t \notin Exports
  <2>1. words[i] \in SetWords
    OBVIOUS
  <2>2. words[i].t \notin Signed /\ Normalized(words[i].t) # "allexport"
    BY DEF SetoptIsBenign
  <2>3. words[i].t = "pipefail"
    BY <1>1, <2>1, <2>2 DEF Normalized
  <2> QED
    BY <2>3 DEF Exports
<1>3. ToSet(Texts(words)) = {words[i].t : i \in DOMAIN words}
  BY DEF ToSet, Texts
<1> QED
  BY <1>2, <1>3

\* Assignments no one is asked about assign nothing sensitive.
LEMMA HarmlessAssignments ==
  ASSUME NEW words \in Seq(AssignmentWords), ~AsksOfEnv("assignments", words)
  PROVE  ~SetsSensitive(words)
<1>1. ASSUME NEW i \in DOMAIN words
      PROVE  words[i].t = "v=x" \/ (words[i].t = "EDITOR=true" /\ words[i].m # "unsafe")
  <2>1. ~SensitiveAssignment(words[i])
    BY DEF AsksOfEnv
  <2> QED
    BY <2>1 DEF SensitiveAssignment, ShellNoop
<1>2. ASSUME NEW at, at = SelectLastInSeq(words, LAMBDA w: w.t \in {"EDITOR=x", "EDITOR=true"}),
             at # 0
      PROVE  at \in DOMAIN words /\ words[at].t \in {"EDITOR=x", "EDITOR=true"}
  <2> DEFINE I == {i \in 1..Len(words) : words[i].t \in {"EDITOR=x", "EDITOR=true"}}
  <2>1. at = IF I # {} THEN Max(I) ELSE 0
    BY <1>2 DEF SelectLastInSeq
  <2>2. I # {} /\ at = Max(I)
    BY <1>2, <2>1
  <2>3. Max(I) \in I
    <3>1. I \subseteq 1..Len(words) /\ Len(words) \in Nat
      OBVIOUS
    <3> HIDE DEF I
    <3> QED
      BY <2>2, <3>1, Extremes
  <2> QED
    BY <2>2, <2>3
<1> QED
  BY <1>1, <1>2 DEF SetsSensitive

\* What longline takes for the target of printf, and what printf sets.
TargetFrom(f, words) ==
  \A i \in Nat :
    f[i] = IF i > Len(words) THEN ""
           ELSE IF words[i].t = "-v" THEN IF i < Len(words) THEN words[i+1].t ELSE ""
           ELSE IF words[i].t = "-vPATH" THEN "PATH"
           ELSE IF words[i].t = "-vv" THEN "v"
           ELSE IF words[i].t = "-y" THEN f[i + 1]
           ELSE ""

LEMMA TargetScans ==
  ASSUME NEW words
  PROVE  \E f : TargetFrom(f, words) /\ PrintfTarget(words) = f[1]
<1> DEFINE Eq(F) == F = [i \in Nat |->
             IF i > Len(words) THEN ""
             ELSE IF words[i].t = "-v" THEN IF i < Len(words) THEN words[i+1].t ELSE ""
             ELSE IF words[i].t = "-vPATH" THEN "PATH"
             ELSE IF words[i].t = "-vv" THEN "v"
             ELSE IF words[i].t = "-y" THEN F[i + 1]
             ELSE ""]
           stops == {i \in Nat : i > Len(words) \/ words[i].t # "-y"}
           out == [i \in Nat |->
             IF i > Len(words) THEN ""
             ELSE IF words[i].t = "-v" THEN IF i < Len(words) THEN words[i+1].t ELSE ""
             ELSE IF words[i].t = "-vPATH" THEN "PATH"
             ELSE IF words[i].t = "-vv" THEN "v"
             ELSE ""]
           next == [i \in Nat |-> i + 1]
<1>1. PICK f : Follows(f, Nat, stops, out, next)
  <2>1. stops \in SUBSET Nat /\ \A i \in Nat \ stops : next[i] \in Nat
    OBVIOUS
  <2> HIDE DEF stops, out, next
  <2> QED
    BY <2>1, TailRecursion
<1>2. Eq(f)
  <2>1. f = [i \in Nat |-> IF i \in stops THEN out[i] ELSE f[next[i]]]
    BY <1>1 DEF Follows
  <2> QED
    BY <2>1
<1> DEFINE g == CHOOSE F : Eq(F)
<1>3. Eq(g)
  <2> HIDE DEF Eq
  <2> QED
    BY <1>2
<1>4. PrintfTarget(words) = g[1]
  BY Zenon DEF PrintfTarget
<1> HIDE DEF g
<1>5. TargetFrom(g, words)
  BY <1>3 DEF TargetFrom
<1> QED
  BY <1>4, <1>5

SetsFrom(f, words) ==
  \A i \in Nat :
    f[i] = IF i > Len(words) THEN << >>
           ELSE IF words[i].t = "-v" /\ i < Len(words) THEN <<words[i+1].t>> \o f[i + 2]
           ELSE IF words[i].t = "-vPATH" THEN <<"PATH">> \o f[i + 1]
           ELSE IF words[i].t = "-vv" THEN <<"v">> \o f[i + 1]
           ELSE << >>

LEMMA SetsScans ==
  ASSUME NEW words, Len(words) \in Nat
  PROVE  \E f : /\ SetsFrom(f, words)
                /\ PrintfSets(words) = IF f[1] = << >> THEN "" ELSE Last(f[1])
<1> DEFINE A == {words[i].t : i \in 1..Len(words)} \cup {"PATH", "v"}
           takes(i) == words[i].t = "-v" /\ i < Len(words)
           Eq(F) == F = [i \in Nat |->
             IF i > Len(words) THEN << >>
             ELSE IF words[i].t = "-v" /\ i < Len(words) THEN <<words[i+1].t>> \o F[i + 2]
             ELSE IF words[i].t = "-vPATH" THEN <<"PATH">> \o F[i + 1]
             ELSE IF words[i].t = "-vv" THEN <<"v">> \o F[i + 1]
             ELSE << >>]
           stops == {i \in Nat : i > Len(words) \/ (~takes(i) /\ words[i].t \notin {"-vPATH", "-vv"})}
           out == [i \in Nat |-> << >>]
           next == [i \in Nat |-> IF takes(i) THEN i + 2 ELSE i + 1]
           add == [i \in Nat |-> IF takes(i) THEN <<words[i+1].t>>
                                 ELSE IF words[i].t = "-vPATH" THEN <<"PATH">> ELSE <<"v">>]
<1>1. PICK f \in [Nat -> Seq(A)] : Collects(f, Nat, stops, out, next, add)
  <2>1. stops \in SUBSET Nat /\ \A i \in Nat : i > Len(words) => i \in stops
    OBVIOUS
  <2>2. \A i \in stops : out[i] \in Seq(A)
    OBVIOUS
  <2>3. \A i \in Nat \ stops : next[i] \in Nat /\ next[i] > i
    OBVIOUS
  <2>4. ASSUME NEW i \in Nat \ stops PROVE add[i] \in Seq(A)
    <3>1. CASE takes(i)
      <4>1. i + 1 \in 1..Len(words)
        BY <3>1
      <4>2. words[i+1].t \in A
        BY <4>1
      <4> HIDE DEF A, stops
      <4> QED
        BY <3>1, <4>2
    <3>2. CASE ~takes(i)
      <4>1. "PATH" \in A /\ "v" \in A
        OBVIOUS
      <4> HIDE DEF A, stops, takes
      <4> QED
        BY <3>2, <4>1
    <3> QED
      BY <3>1, <3>2
  <2> HIDE DEF A, stops, out, next, add
  <2> QED
    BY <2>1, <2>2, <2>3, <2>4, Collecting
<1>2. ASSUME NEW i \in Nat
      PROVE  f[i] = IF i > Len(words) THEN << >>
             ELSE IF words[i].t = "-v" /\ i < Len(words) THEN <<words[i+1].t>> \o f[i + 2]
             ELSE IF words[i].t = "-vPATH" THEN <<"PATH">> \o f[i + 1]
             ELSE IF words[i].t = "-vv" THEN <<"v">> \o f[i + 1]
             ELSE << >>
  <2>1. f[i] = IF i \in stops THEN out[i] ELSE add[i] \o f[next[i]]
    BY <1>1 DEF Collects
  <2> QED
    BY <2>1
<1>3. Eq(f)
  <2>1. f = [i \in Nat |-> f[i]]
    BY <1>1
  <2> QED
    BY <1>2, <2>1
<1> DEFINE g == CHOOSE F : Eq(F)
<1>4. Eq(g)
  <2> HIDE DEF Eq
  <2> QED
    BY <1>3
<1>5. PrintfSets(words) = IF g[1] = << >> THEN "" ELSE Last(g[1])
  BY Zenon DEF PrintfSets
<1> HIDE DEF g
<1>6. SetsFrom(g, words)
  BY <1>4 DEF SetsFrom
<1> QED
  BY <1>5, <1>6

LEMMA SetsOn ==
  ASSUME NEW f, NEW words, SetsFrom(f, words), NEW i \in Nat
  PROVE  /\ i > Len(words) => f[i] = << >>
         /\ words[i].t \notin {"-v", "-vPATH", "-vv"} => f[i] = << >>
<1>1. f[i] = IF i > Len(words) THEN << >>
             ELSE IF words[i].t = "-v" /\ i < Len(words) THEN <<words[i+1].t>> \o f[i + 2]
             ELSE IF words[i].t = "-vPATH" THEN <<"PATH">> \o f[i + 1]
             ELSE IF words[i].t = "-vv" THEN <<"v">> \o f[i + 1]
             ELSE << >>
  BY Zenon DEF SetsFrom
<1>2. CASE i > Len(words)
  BY <1>1, <1>2
<1>3. CASE words[i].t \notin {"-v", "-vPATH", "-vv"}
  <2>1. words[i].t # "-v" /\ words[i].t # "-vPATH" /\ words[i].t # "-vv"
    BY <1>3
  <2> QED
    BY <1>1, <2>1, Zenon
<1> QED
  BY <1>2, <1>3

\* A set of two.
LEMMA TwoOrMore ==
  ASSUME NEW S, IsFiniteSet(S), NEW i \in S, NEW j \in S, i # j
  PROVE  ~(Cardinality(S) < 2)
<1>1. Cardinality({i}) = 1 /\ IsFiniteSet({i})
  BY FS_Singleton
<1>2. Cardinality({i} \cup {j}) = 2
  BY <1>1, FS_AddElement
<1>3. Cardinality({i} \cup {j}) <= Cardinality(S) /\ Cardinality(S) \in Nat
  BY FS_Subset, FS_CardinalityType
<1> QED
  BY <1>2, <1>3

TargetsOf(words) == {i \in DOMAIN words : words[i].t \in {"-v", "-vPATH", "-vv"}}

\* A single target is the one that printf sets.
LEMMA HarmlessPrintf ==
  ASSUME NEW words \in Seq(PrintfWords), ~SensitiveVariable(PrintfTarget(words)),
         Cardinality(TargetsOf(words)) < 2
  PROVE  ~SensitiveVariable(PrintfSets(words))
<1>0. Len(words) \in Nat /\ DOMAIN words = 1..Len(words)
  OBVIOUS
<1>1. PICK f : TargetFrom(f, words) /\ PrintfTarget(words) = f[1]
  BY TargetScans
<1>2. PICK g : /\ SetsFrom(g, words)
               /\ PrintfSets(words) = IF g[1] = << >> THEN "" ELSE Last(g[1])
  BY <1>0, SetsScans
<1>3. \A i, j \in TargetsOf(words) : i = j
  <2>1. TargetsOf(words) \subseteq 1..Len(words)
    BY <1>0 DEF TargetsOf
  <2>2. IsFiniteSet(TargetsOf(words))
    <3>1. IsFiniteSet(1..Len(words))
      BY <1>0, FS_Interval
    <3> QED
      BY <2>1, <3>1, FS_Subset
  <2> QED
    BY <2>2, TwoOrMore
<1>4. ASSUME NEW k \in Nat, k > 1, 1 \in TargetsOf(words) PROVE g[k] = << >>
  <2>1. k <= Len(words) => words[k].t \notin {"-v", "-vPATH", "-vv"}
    BY <1>0, <1>3, <1>4 DEF TargetsOf
  <2> QED
    <3>1. CASE k > Len(words)
      BY <1>2, <3>1, SetsOn
    <3>2. CASE words[k].t \notin {"-v", "-vPATH", "-vv"}
      BY <1>2, <3>2, SetsOn
    <3> QED
      BY <1>0, <2>1, <3>1, <3>2
<1>5. ASSUME NEW t PROVE <<t>> \o << >> # << >> /\ Last(<<t>> \o << >>) = t
  BY DEF Last
<1>6. ~SensitiveVariable("") /\ 1 \in Nat /\ 2 \in Nat /\ 3 \in Nat
  BY DEF SensitiveVariable
<1>7. CASE g[1] = << >>
  BY <1>2, <1>6, <1>7
<1>8. CASE g[1] # << >>
  <2>1. 1 <= Len(words) /\ words[1].t \in {"-v", "-vPATH", "-vv"}
    BY <1>0, <1>2, <1>8, SetsOn
  <2>2. g[2] = << >> /\ g[3] = << >>
    <3>1. 1 \in TargetsOf(words)
      BY <1>0, <2>1 DEF TargetsOf
    <3> QED
      BY <1>4, <3>1
  <2>3. g[1] = <<f[1]>> \o << >>
    <3>1. ~(1 > Len(words)) /\ 1 + 1 = 2 /\ 1 + 2 = 3
      BY <1>0, <2>1
    <3>2. CASE words[1].t = "-v"
      <4>1. 1 < Len(words)
        BY <1>2, <1>6, <1>8, <3>1, <3>2 DEF SetsFrom
      <4>2. f[1] = words[2].t
        BY <1>1, <1>6, <3>1, <3>2, <4>1 DEF TargetFrom
      <4>3. g[1] = <<words[2].t>> \o g[3]
        BY <1>2, <1>6, <3>1, <3>2, <4>1 DEF SetsFrom
      <4> QED
        BY <2>2, <4>2, <4>3
    <3>3. CASE words[1].t = "-vPATH"
      <4>1. f[1] = "PATH"
        BY <1>1, <1>6, <3>1, <3>3 DEF TargetFrom
      <4>2. g[1] = <<"PATH">> \o g[2]
        BY <1>2, <1>6, <3>1, <3>3 DEF SetsFrom
      <4> QED
        BY <2>2, <4>1, <4>2
    <3>4. CASE words[1].t = "-vv"
      <4>1. f[1] = "v"
        BY <1>1, <1>6, <3>1, <3>4 DEF TargetFrom
      <4>2. g[1] = <<"v">> \o g[2]
        BY <1>2, <1>6, <3>1, <3>4 DEF SetsFrom
      <4> QED
        BY <2>2, <4>1, <4>2
    <3> QED
      BY <2>1, <3>2, <3>3, <3>4
  <2>4. PrintfSets(words) = f[1]
    BY <1>2, <1>5, <1>8, <2>3
  <2> QED
    BY <1>1, <2>4
<1> QED
  BY <1>7, <1>8

\* The methods that longline collects, and what gh is given.
MethodsFrom(f, words) ==
  \A i \in Nat :
    f[i] = IF i > Len(words) THEN {}
           ELSE IF words[i].t \in {"-X", "--method"}
                THEN {IF i < Len(words) THEN words[i+1].t ELSE ""} \cup f[i + 2]
           ELSE IF words[i].t = "--method=POST" THEN {"POST"} \cup f[i + 1]
           ELSE IF words[i].t = "--method=GET" THEN {"GET"} \cup f[i + 1]
           ELSE f[i + 1]

LEMMA MethodScans ==
  ASSUME NEW words
  PROVE  \E f : MethodsFrom(f, words) /\ ApiMethods(words) = f[1]
<1> DEFINE value(i) == IF i < Len(words) THEN words[i+1].t ELSE ""
           Eq(F) == F = [i \in Nat |->
             IF i > Len(words) THEN {}
             ELSE IF words[i].t \in {"-X", "--method"}
                  THEN {IF i < Len(words) THEN words[i+1].t ELSE ""} \cup F[i + 2]
             ELSE IF words[i].t = "--method=POST" THEN {"POST"} \cup F[i + 1]
             ELSE IF words[i].t = "--method=GET" THEN {"GET"} \cup F[i + 1]
             ELSE F[i + 1]]
           base == [i \in Nat |-> IF i > Len(words) THEN {}
                     ELSE IF words[i].t \in {"-X", "--method"} THEN {value(i)}
                     ELSE IF words[i].t = "--method=POST" THEN {"POST"}
                     ELSE IF words[i].t = "--method=GET" THEN {"GET"} ELSE {}]
           kids == [i \in Nat |-> IF i > Len(words) THEN {}
                     ELSE IF words[i].t \in {"-X", "--method"} THEN {i + 2} ELSE {i + 1}]
<1>1. PICK f : Solves(f, Nat, base, kids)
  <2>1. \A i \in Nat : kids[i] \subseteq Nat
    OBVIOUS
  <2> HIDE DEF base, kids
  <2> QED
    BY <2>1, LeastSolution
<1>2. Eq(f)
  <2>1. f = [i \in Nat |-> base[i] \cup UNION {f[y] : y \in kids[i]}]
    BY <1>1 DEF Solves
  <2>2. ASSUME NEW i \in Nat
        PROVE  base[i] \cup UNION {f[y] : y \in kids[i]} =
             IF i > Len(words) THEN {}
             ELSE IF words[i].t \in {"-X", "--method"}
                  THEN {IF i < Len(words) THEN words[i+1].t ELSE ""} \cup f[i + 2]
             ELSE IF words[i].t = "--method=POST" THEN {"POST"} \cup f[i + 1]
             ELSE IF words[i].t = "--method=GET" THEN {"GET"} \cup f[i + 1]
             ELSE f[i + 1]
    <3> HIDE DEF value
    <3>1. CASE i > Len(words)
      BY <3>1
    <3>2. CASE ~(i > Len(words)) /\ words[i].t \in {"-X", "--method"}
      <4>1. base[i] = {value(i)} /\ kids[i] = {i + 2}
        BY <3>2
      <4> HIDE DEF base, kids
      <4>2. base[i] \cup UNION {f[y] : y \in kids[i]} = {value(i)} \cup f[i + 2]
        BY <4>1
      <4> QED
        BY <3>2, <4>2, Zenon DEF value
    <3>3. CASE ~(i > Len(words)) /\ words[i].t \notin {"-X", "--method"}
      <4>1. kids[i] = {i + 1}
        BY <3>3
      <4>2. base[i] = IF words[i].t = "--method=POST" THEN {"POST"}
                      ELSE IF words[i].t = "--method=GET" THEN {"GET"} ELSE {}
        BY <3>3
      <4> HIDE DEF base, kids
      <4>3. UNION {f[y] : y \in kids[i]} = f[i + 1]
        BY <4>1
      <4> QED
        BY <3>3, <4>2, <4>3
    <3> QED
      BY <3>1, <3>2, <3>3
  <2> QED
    BY <2>1, <2>2, Zenon
<1> DEFINE g == CHOOSE F : Eq(F)
<1>3. Eq(g)
  <2> HIDE DEF Eq
  <2> QED
    BY <1>2
<1>4. ApiMethods(words) = g[1]
  BY Zenon DEF ApiMethods
<1> HIDE DEF g
<1>5. MethodsFrom(g, words)
  BY <1>3, Zenon DEF MethodsFrom
<1> QED
  BY <1>4, <1>5

GivenFrom(f, words, r) ==
  \A i \in Nat :
    f[i] = IF i > Len(words) THEN << >>
           ELSE IF words[i].t \in {"-X", "--method"}
                THEN IF i < Len(words) THEN <<words[i+1].t>> \o f[i + 2] ELSE << >>
           ELSE IF words[i].t \in {"--method=POST", "-XPOST", "-iXPOST"}
                THEN <<"POST">> \o f[i + 1]
           ELSE IF words[i].t = "--method=GET" THEN <<"GET">> \o f[i + 1]
           ELSE IF words[i].t = "-f" THEN <<"">> \o f[i + 2]
           ELSE IF words[i].t \in {"--jq", "--cache"} \/ i \in r THEN f[i + 2]
           ELSE f[i + 1]

LEMMA GivenScans ==
  ASSUME NEW words, Len(words) \in Nat, NEW r
  PROVE  \E f : GivenFrom(f, words, r) /\ ApiGiven(words, r) = f[1]
<1> DEFINE A == {words[i].t : i \in 1..Len(words)} \cup {"POST", "GET", ""}
           Named(i) == words[i].t \in {"-X", "--method"}
           Posts(i) == words[i].t \in {"--method=POST", "-XPOST", "-iXPOST"}
           Skips(i) == words[i].t \in {"--jq", "--cache"} \/ i \in r
           Eq(F) == F = [i \in Nat |->
             IF i > Len(words) THEN << >>
             ELSE IF words[i].t \in {"-X", "--method"}
                  THEN IF i < Len(words) THEN <<words[i+1].t>> \o F[i + 2] ELSE << >>
             ELSE IF words[i].t \in {"--method=POST", "-XPOST", "-iXPOST"}
                  THEN <<"POST">> \o F[i + 1]
             ELSE IF words[i].t = "--method=GET" THEN <<"GET">> \o F[i + 1]
             ELSE IF words[i].t = "-f" THEN <<"">> \o F[i + 2]
             ELSE IF words[i].t \in {"--jq", "--cache"} \/ i \in r THEN F[i + 2]
             ELSE F[i + 1]]
           stops == {i \in Nat : i > Len(words) \/ (Named(i) /\ ~(i < Len(words)))}
           out == [i \in Nat |-> << >>]
           next == [i \in Nat |-> IF Named(i) THEN i + 2 ELSE IF Posts(i) THEN i + 1
                                  ELSE IF words[i].t = "--method=GET" THEN i + 1
                                  ELSE IF words[i].t = "-f" THEN i + 2
                                  ELSE IF Skips(i) THEN i + 2 ELSE i + 1]
           add == [i \in Nat |-> IF Named(i) THEN <<words[i+1].t>>
                                 ELSE IF Posts(i) THEN <<"POST">>
                                 ELSE IF words[i].t = "--method=GET" THEN <<"GET">>
                                 ELSE IF words[i].t = "-f" THEN <<"">> ELSE << >>]
<1>1. PICK f \in [Nat -> Seq(A)] : Collects(f, Nat, stops, out, next, add)
  <2>1. stops \in SUBSET Nat /\ \A i \in Nat : i > Len(words) => i \in stops
    OBVIOUS
  <2>2. \A i \in stops : out[i] \in Seq(A)
    OBVIOUS
  <2>3. \A i \in Nat \ stops : next[i] \in Nat /\ next[i] > i
    <3> HIDE DEF Named, Posts, Skips, stops
    <3> QED
      OBVIOUS
  <2>4. ASSUME NEW i \in Nat \ stops PROVE add[i] \in Seq(A)
    <3>1. Named(i) => words[i+1].t \in A
      <4>1. Named(i) => i + 1 \in 1..Len(words)
        OBVIOUS
      <4> QED
        BY <4>1
    <3>2. "POST" \in A /\ "GET" \in A /\ "" \in A
      OBVIOUS
    <3> HIDE DEF A, stops, Named, Posts
    <3>3. /\ Named(i) => <<words[i+1].t>> \in Seq(A)
          /\ <<"POST">> \in Seq(A) /\ <<"GET">> \in Seq(A) /\ <<"">> \in Seq(A)
          /\ << >> \in Seq(A)
      <4>1. \A x \in A : <<x>> \in Seq(A)
        OBVIOUS
      <4>2. << >> \in Seq(A)
        OBVIOUS
      <4> QED
        BY <3>1, <3>2, <4>1, <4>2
    <3>4. add[i] = IF Named(i) THEN <<words[i+1].t>>
                   ELSE IF Posts(i) THEN <<"POST">>
                   ELSE IF words[i].t = "--method=GET" THEN <<"GET">>
                   ELSE IF words[i].t = "-f" THEN <<"">> ELSE << >>
      OBVIOUS
    <3> HIDE DEF add
    <3> QED
      BY <3>3, <3>4, Zenon
  <2> HIDE DEF A, stops, out, next, add
  <2> QED
    BY <2>1, <2>2, <2>3, <2>4, Collecting
<1>2. ASSUME NEW i \in Nat
      PROVE  f[i] = IF i > Len(words) THEN << >>
             ELSE IF words[i].t \in {"-X", "--method"}
                  THEN IF i < Len(words) THEN <<words[i+1].t>> \o f[i + 2] ELSE << >>
             ELSE IF words[i].t \in {"--method=POST", "-XPOST", "-iXPOST"}
                  THEN <<"POST">> \o f[i + 1]
             ELSE IF words[i].t = "--method=GET" THEN <<"GET">> \o f[i + 1]
             ELSE IF words[i].t = "-f" THEN <<"">> \o f[i + 2]
             ELSE IF words[i].t \in {"--jq", "--cache"} \/ i \in r THEN f[i + 2]
             ELSE f[i + 1]
  <2>1. f[i] = IF i \in stops THEN out[i] ELSE add[i] \o f[next[i]]
    BY <1>1 DEF Collects
  <2>2. \A s \in Seq(A) : << >> \o s = s
    BY ConcatEmptySeq
  <2>3. f[i + 1] \in Seq(A) /\ f[i + 2] \in Seq(A)
    <3> HIDE DEF A, stops, out, next, add
    <3> QED
      BY <1>1
  <2>4. CASE i > Len(words)
    BY <2>1, <2>4
  <2>5. CASE ~(i > Len(words)) /\ Named(i)
    BY <2>1, <2>5
  <2>6. CASE ~(i > Len(words)) /\ ~Named(i)
    <3>1. f[i] = add[i] \o f[next[i]]
      BY <2>1, <2>6
    <3>2. CASE Posts(i)
      BY <2>6, <3>1, <3>2
    <3>3. CASE ~Posts(i) /\ words[i].t = "--method=GET"
      BY <2>6, <3>1, <3>3
    <3>4. CASE ~Posts(i) /\ words[i].t = "-f"
      BY <2>6, <3>1, <3>4
    <3>5. CASE ~Posts(i) /\ words[i].t \notin {"--method=GET", "-f"}
      <4>1. add[i] = << >> /\ next[i] = IF Skips(i) THEN i + 2 ELSE i + 1
        <5> HIDE DEF Named, Posts, Skips
        <5> QED
          BY <2>6, <3>5
      <4> HIDE DEF add, next, A
      <4>2. f[i] = IF Skips(i) THEN f[i + 2] ELSE f[i + 1]
        BY <2>2, <2>3, <3>1, <4>1
      <4> QED
        BY <2>6, <3>5, <4>2
    <3> QED
      BY <3>2, <3>3, <3>4, <3>5
  <2> QED
    BY <2>4, <2>5, <2>6
<1>3. Eq(f)
  <2>1. f = [i \in Nat |-> f[i]]
    BY <1>1
  <2> QED
    BY <1>2, <2>1
<1> DEFINE g == CHOOSE F : Eq(F)
<1>4. Eq(g)
  <2> HIDE DEF Eq
  <2> QED
    BY <1>3
<1>5. ApiGiven(words, r) = g[1]
  BY Zenon DEF ApiGiven
<1> HIDE DEF g
<1>6. GivenFrom(g, words, r)
  BY <1>4, Zenon DEF GivenFrom
<1> QED
  BY <1>5, <1>6

\* Where longline collects no method but GET, gh is given no other.
LEMMA OnlyGets ==
  ASSUME NEW words \in Seq(ApiWords), NEW how, ApiReads(how, words),
         "-iXPOST" \notin ToSet(Texts(words)), NEW r
  PROVE  ApiGiven(words, r) \in Seq({"GET"})
<1> DEFINE n == Len(words)
<1>0. n \in Nat /\ DOMAIN words = 1..n
  OBVIOUS
<1>1. PICK f : MethodsFrom(f, words) /\ ApiMethods(words) = f[1]
  BY MethodScans
<1>2. PICK g : GivenFrom(g, words, r) /\ ApiGiven(words, r) = g[1]
  BY <1>0, GivenScans
<1>3. ASSUME NEW i \in 1..n PROVE words[i].t \notin {"-XPOST", "-iXPOST", "--cache", "-f"}
  <2>1. words[i].t \in ToSet(Texts(words))
    BY <1>0 DEF ToSet, Texts
  <2> QED
    BY <2>1 DEF ApiReads, HasLong, HasBody
<1> HIDE DEF n
<1> DEFINE Gets(k) == f[k] \subseteq {"GET"}
<1>4. ASSUME NEW k \in Nat \ {0}, Gets(k) PROVE Gets(k + 1)
  <2>0. k \in Nat /\ k + 1 \in Nat
    OBVIOUS
  <2>1. CASE k > n
    <3>1. k + 1 > n
      BY <1>0, <2>1
    <3> QED
      BY <1>1, <2>0, <3>1 DEF MethodsFrom, n
  <2>2. CASE ~(k > n) /\ words[k].t \in {"-X", "--method"}
    <3>1. f[k] = {IF k < n THEN words[k+1].t ELSE ""} \cup f[k + 2]
      BY <1>1, <2>0, <2>2, Zenon DEF MethodsFrom, n
    <3>4. ASSUME NEW v, f[k] = {v} \cup f[k + 2] PROVE v = "GET" /\ Gets(k + 2)
      BY <1>4, <3>4
    <3>5. (IF k < n THEN words[k+1].t ELSE "") = "GET" /\ Gets(k + 2)
      BY <3>1, <3>4
    <3>2. k < n /\ words[k + 1].t = "GET" /\ Gets(k + 2)
      BY <3>5
    <3>3. (k + 1) + 1 = k + 2 /\ ~(k + 1 > n)
      BY <1>0, <3>2
    <3>6. f[k + 1] = f[k + 2]
      <4>1. words[k + 1].t \notin {"-X", "--method"} /\ words[k + 1].t # "--method=POST"
            /\ words[k + 1].t # "--method=GET"
        BY <3>2
      <4> QED
        BY <1>1, <2>0, <3>3, <4>1 DEF MethodsFrom, n
    <3> QED
      BY <3>2, <3>6
  <2>3. CASE ~(k > n) /\ words[k].t \notin {"-X", "--method"}
    <3>1. f[k + 1] \subseteq f[k]
      BY <1>1, <2>0, <2>3 DEF MethodsFrom, n
    <3> QED
      BY <1>4, <3>1
  <2> QED
    BY <2>1, <2>2, <2>3
<1>5. ASSUME NEW k \in 1..n PROVE Gets(k)
  <2> DEFINE G == {j \in Nat : Gets(j + 1)}
  <2>1. 0 \in G
    BY <1>1 DEF ApiReads
  <2>2. \A j \in 0..(n - 1) : j \in G => j + 1 \in G
    <3>1. ASSUME NEW j \in 0..(n - 1), j \in G PROVE j + 1 \in G
      <4>1. j + 1 \in Nat \ {0}
        BY <1>0
      <4>2. Gets(j + 1)
        BY <3>1
      <4> HIDE DEF Gets
      <4> QED
        BY <1>4, <4>1, <4>2
    <3> QED
      BY <3>1
  <2>3. 0..n \subseteq G
    <3> HIDE DEF G
    <3> QED
      BY <1>0, <2>1, <2>2, CountingUp
  <2>4. k - 1 \in 0..n /\ (k - 1) + 1 = k
    BY <1>0
  <2> HIDE DEF Gets
  <2> QED
    BY <2>3, <2>4
<1> DEFINE S == Seq({"GET"})
           H == {k \in Nat : g[k] \in S}
<1>6. << >> \in S /\ \A s \in S : <<"GET">> \o s \in S
  OBVIOUS
<1>7. ASSUME NEW k \in Nat, k > n PROVE k \in H
  <2>1. g[k] = << >>
    BY <1>2, <1>7, Zenon DEF GivenFrom, n
  <2> QED
    BY <1>6, <2>1
<1> HIDE DEF S
<1>8. ASSUME NEW k \in 1..n, \A j \in Nat : j > k => j \in H
      PROVE  k \in H
  <2>0. k \in Nat /\ ~(k > n)
    BY <1>0
  <2>1. g[k + 1] \in S /\ g[k + 2] \in S
    <3>1. k + 1 \in Nat /\ k + 2 \in Nat /\ k + 1 > k /\ k + 2 > k
      BY <2>0
    <3>2. k + 1 \in H /\ k + 2 \in H
      BY <1>8, <3>1
    <3> QED
      BY <3>2
  <2>2. words[k].t \notin {"-XPOST", "-iXPOST", "--cache", "-f"}
    BY <1>3
  <2>3. Gets(k)
    BY <1>5
  <2>4. CASE words[k].t \in {"-X", "--method"}
    <3>1. f[k] = {IF k < n THEN words[k+1].t ELSE ""} \cup f[k + 2]
      BY <1>1, <2>0, <2>4, Zenon DEF MethodsFrom, n
    <3>5. ASSUME NEW v, f[k] = {v} \cup f[k + 2] PROVE v = "GET"
      BY <2>3, <3>5
    <3>6. (IF k < n THEN words[k+1].t ELSE "") = "GET"
      BY <3>1, <3>5
    <3>2. k < n /\ words[k + 1].t = "GET"
      BY <3>6
    <3>3. g[k] = <<words[k + 1].t>> \o g[k + 2]
      BY <1>2, <2>0, <2>4, <3>2, Zenon DEF GivenFrom, n
    <3>4. g[k] \in S
      BY <1>6, <2>1, <3>2, <3>3
    <3> QED
      BY <2>0, <3>4
  <2>5. CASE words[k].t \notin {"-X", "--method"}
    <3>1. words[k].t # "--method=POST"
      <4>1. ASSUME words[k].t = "--method=POST" PROVE FALSE
        <5>1. f[k] = {"POST"} \cup f[k + 1]
          BY <1>1, <2>0, <2>5, <4>1, Zenon DEF MethodsFrom, n
        <5> QED
          BY <2>3, <5>1
      <4> QED
        BY <4>1
    <3>2. words[k].t \notin {"--method=POST", "-XPOST", "-iXPOST"} /\ words[k].t # "-f"
      BY <2>2, <3>1
    <3>3. g[k] = IF words[k].t = "--method=GET" THEN <<"GET">> \o g[k + 1]
                 ELSE IF words[k].t \in {"--jq", "--cache"} \/ k \in r THEN g[k + 2]
                 ELSE g[k + 1]
      BY <1>2, <2>0, <2>5, <3>2, Zenon DEF GivenFrom, n
    <3>4. g[k] \in S
      BY <1>6, <2>1, <3>3
    <3> QED
      BY <2>0, <3>4
  <2> QED
    BY <2>4, <2>5
<1>9. 1 \in H
  <2> HIDE DEF H
  <2>1. \A k \in Nat \ {0} : k \in H
    BY <1>0, <1>7, <1>8, CountingDown
  <2> QED
    BY <2>1
<1> QED
  BY <1>2, <1>9 DEF S

\* What gh api is vouched for sends a GET.
LEMMA SendsGets ==
  ASSUME NEW words \in Seq(ApiWords), NEW how, ApiReads(how, words),
         "-iXPOST" \notin ToSet(Texts(words)), NEW r
  PROVE  ApiSends(words, r) = "GET"
<1> DEFINE given == ApiGiven(words, r)
           last == SelectLastInSeq(given, LAMBDA m: m # "")
           I == {i \in 1..Len(given) : given[i] # ""}
<1>1. given \in Seq({"GET"})
  BY OnlyGets
<1>2. last = IF I # {} THEN Max(I) ELSE 0
  BY DEF SelectLastInSeq
<1>3. ApiSends(words, r) = IF last # 0 THEN given[last]
                           ELSE IF given # << >> THEN "POST" ELSE "GET"
  BY DEF ApiSends
<1> HIDE DEF given, last
<1>4. Len(given) \in Nat /\ \A i \in 1..Len(given) : given[i] = "GET"
  BY <1>1
<1>5. CASE I # {}
  <2>1. last \in I
    <3>1. I \subseteq 1..Len(given)
      OBVIOUS
    <3> HIDE DEF I
    <3> QED
      BY <1>2, <1>4, <1>5, <3>1, Extremes
  <2>3. last \in 1..Len(given)
    BY <2>1
  <2>2. last # 0 /\ given[last] = "GET"
    <3> HIDE DEF I
    <3> QED
      BY <1>4, <2>3
  <2> QED
    BY <1>3, <2>2
<1>6. CASE I = {}
  <2>1. Len(given) = 0
    <3>1. ASSUME Len(given) # 0 PROVE FALSE
      <4>1. 1 \in 1..Len(given)
        BY <1>4, <3>1
      <4>2. given[1] = "GET"
        BY <1>4, <4>1
      <4> QED
        BY <1>6, <4>1, <4>2
    <3> QED
      BY <3>1
  <2>2. given = << >>
    BY <1>1, <2>1
  <2>3. last = 0
    BY <1>2, <1>6
  <2> QED
    BY <1>3, <2>2, <2>3
<1> QED
  BY <1>5, <1>6

\* A scan that passes over some words, with the next one or without, and takes the
\* texts of the others.
Passing(f, words, two, one) ==
  f = [i \in Nat |-> IF i > Len(words) THEN << >>
                     ELSE IF i \in two THEN f[i + 2]
                     ELSE IF i \in one THEN f[i + 1]
                     ELSE <<words[i].t>> \o f[i + 1]]

LEMMA PassingScans ==
  ASSUME NEW words, Len(words) \in Nat, NEW two, NEW one
  PROVE  \E f : Passing(f, words, two, one)
<1> DEFINE A == {words[i].t : i \in Nat}
           stops == {i \in Nat : i > Len(words)}
           out == [i \in Nat |-> << >>]
           next == [i \in Nat |-> IF i \in two THEN i + 2 ELSE i + 1]
           add == [i \in Nat |-> IF i \in two \cup one THEN << >> ELSE <<words[i].t>>]
<1>1. /\ stops \in SUBSET Nat
      /\ \A k \in Nat : k > Len(words) => k \in stops
      /\ \A k \in stops : out[k] \in Seq(A)
  OBVIOUS
<1>2. \A k \in Nat \ stops : next[k] \in Nat /\ next[k] > k /\ add[k] \in Seq(A)
  <2>1. \A k \in Nat : words[k].t \in A
    OBVIOUS
  <2> HIDE DEF A
  <2> QED
    BY <2>1
<1>3. PICK f \in [Nat -> Seq(A)] : Collects(f, Nat, stops, out, next, add)
  <2> HIDE DEF stops, out, next, add, A
  <2> QED
    BY <1>1, <1>2, Collecting
<1> DEFINE h == [i \in Nat |-> IF i > Len(words) THEN << >>
                               ELSE IF i \in two THEN f[i + 2]
                               ELSE IF i \in one THEN f[i + 1]
                               ELSE <<words[i].t>> \o f[i + 1]]
<1>4. ASSUME NEW i \in Nat PROVE f[i] = h[i]
  <2>1. f[i] = IF i \in stops THEN out[i] ELSE add[i] \o f[next[i]]
    BY <1>3 DEF Collects
  <2>2. CASE i > Len(words)
    BY <2>1, <2>2
  <2>3. CASE ~(i > Len(words))
    <3>0. i \notin stops /\ next[i] \in Nat
      BY <2>3
    <3>1. f[i] = add[i] \o f[next[i]] /\ f[next[i]] \in Seq(A)
      <4> HIDE DEF A, add, stops, next
      <4> QED
        BY <1>3, <2>1, <3>0
    <3>2. << >> \o f[next[i]] = f[next[i]]
      BY <3>1, ConcatEmptySeq
    <3>3. CASE i \in two
      BY <2>3, <3>1, <3>2, <3>3
    <3>4. CASE i \in one /\ i \notin two
      BY <2>3, <3>1, <3>2, <3>4
    <3>5. CASE i \notin one /\ i \notin two
      BY <2>3, <3>1, <3>5
    <3> QED
      BY <3>3, <3>4, <3>5
  <2> QED
    BY <2>2, <2>3
<1>5. f = h
  <2>1. h = [i \in Nat |-> h[i]] /\ f = [i \in Nat |-> f[i]]
    <3> HIDE DEF A
    <3> QED
      BY <1>3
  <2> HIDE DEF h
  <2> QED
    BY <1>4, <2>1
<1> QED
  BY <1>5, Zenon DEF Passing

\* The tokens that longline looks at, and the operands that gh sees.
TokensFrom(f, words) ==
  \A i \in Nat :
    f[i] = IF i > Len(words) THEN << >>
           ELSE IF words[i].t \in {"-R", "--hostname"} THEN f[i + 2]
           ELSE IF words[i].t = "--repo=" THEN f[i + 1]
           ELSE <<words[i].t>> \o f[i + 1]
GhRunsFrom(f, words, r) ==
  \A i \in Nat :
    f[i] = IF i > Len(words) THEN << >>
           ELSE IF words[i].t \in {"-R", "--hostname"} \/ i \in r THEN f[i + 2]
           ELSE IF words[i].t \in GhFlags THEN f[i + 1]
           ELSE <<words[i].t>> \o f[i + 1]

LEMMA TokenScans ==
  ASSUME NEW words, Len(words) \in Nat
  PROVE  \E f : TokensFrom(f, words) /\ WithoutValueFlags(words) = f[1]
<1> DEFINE Eq(F) == F = [i \in Nat |->
             IF i > Len(words) THEN << >>
             ELSE IF words[i].t \in {"-R", "--hostname"} THEN F[i + 2]
             ELSE IF words[i].t = "--repo=" THEN F[i + 1]
             ELSE <<words[i].t>> \o F[i + 1]]
           two == {i \in Nat : words[i].t \in {"-R", "--hostname"}}
           one == {i \in Nat : words[i].t = "--repo="}
<1>1. PICK f : Passing(f, words, two, one)
  <2> HIDE DEF two, one
  <2> QED
    BY PassingScans
<1>2. Eq(f)
  BY <1>1 DEF Passing
<1> DEFINE g == CHOOSE F : Eq(F)
<1>3. Eq(g)
  <2> HIDE DEF Eq
  <2> QED
    BY <1>2
<1>4. WithoutValueFlags(words) = g[1]
  BY Zenon DEF WithoutValueFlags
<1> HIDE DEF g
<1>5. TokensFrom(g, words)
  BY <1>3, Zenon DEF TokensFrom
<1> QED
  BY <1>4, <1>5

LEMMA GhRunScans ==
  ASSUME NEW words, Len(words) \in Nat, NEW r
  PROVE  \E f : GhRunsFrom(f, words, r) /\ GhRuns(words, r) = f[1]
<1> DEFINE Eq(F) == F = [i \in Nat |->
             IF i > Len(words) THEN << >>
             ELSE IF words[i].t \in {"-R", "--hostname"} \/ i \in r THEN F[i + 2]
             ELSE IF words[i].t \in GhFlags THEN F[i + 1]
             ELSE <<words[i].t>> \o F[i + 1]]
           two == {i \in Nat : words[i].t \in {"-R", "--hostname"} \/ i \in r}
           one == {i \in Nat : words[i].t \in GhFlags}
<1>1. PICK f : Passing(f, words, two, one)
  <2> HIDE DEF two, one
  <2> QED
    BY PassingScans
<1>2. Eq(f)
  BY <1>1 DEF Passing
<1> DEFINE g == CHOOSE F : Eq(F)
<1>3. Eq(g)
  <2> HIDE DEF Eq
  <2> QED
    BY <1>2
<1>4. GhRuns(words, r) = g[1]
  BY Zenon DEF GhRuns
<1> HIDE DEF g
<1>5. GhRunsFrom(g, words, r)
  BY <1>3, Zenon DEF GhRunsFrom
<1> QED
  BY <1>4, <1>5

\* Tokens that longline vouches for: after flags, status (where no flag takes
\* that word) or a family with a shape.
Reading(seq, free) ==
  \E a \in 1..Len(seq) :
    /\ \A b \in 1..(a - 1) : seq[b] \in GhFlags
    /\ \/ free /\ seq[a] = "status"
       \/ /\ a < Len(seq) /\ seq[a] \in {"pr", "auth", "release"}
          /\ seq[a + 1] \in {"view", "status"}

\* What one token before others makes of a reading.
LEMMA ReadingOfMore ==
  ASSUME NEW X, NEW w \in X, NEW s \in Seq(X), NEW free \in BOOLEAN,
         Reading(<<w>> \o s, free)
  PROVE  /\ w \in GhFlags => Reading(s, free)
         /\ w \notin GhFlags =>
              \/ free /\ w = "status"
              \/ w \in {"pr", "auth", "release"} /\ s # << >> /\ s[1] \in {"view", "status"}
<1> DEFINE t == <<w>> \o s
<1>1. /\ Len(t) = Len(s) + 1 /\ t[1] = w /\ Len(s) \in Nat
      /\ \A i \in 1..Len(s) : t[i + 1] = s[i]
  BY Joined
<1>2. PICK a \in 1..Len(t) :
        /\ \A b \in 1..(a - 1) : t[b] \in GhFlags
        /\ \/ free /\ t[a] = "status"
           \/ /\ a < Len(t) /\ t[a] \in {"pr", "auth", "release"}
              /\ t[a + 1] \in {"view", "status"}
  BY DEF Reading
<1> HIDE DEF t
<1>3. CASE a = 1
  <2>1. w \notin GhFlags
    BY <1>1, <1>2, <1>3 DEF GhFlags
  <2>2. CASE free /\ w = "status"
    BY <2>1, <2>2
  <2>3. CASE ~(free /\ w = "status")
    <3>1. 1 < Len(t) /\ w \in {"pr", "auth", "release"} /\ t[1 + 1] \in {"view", "status"}
      BY <1>1, <1>2, <1>3, <2>3
    <3>2. 1 \in 1..Len(s)
      BY <1>1, <3>1
    <3>3. s[1] \in {"view", "status"} /\ s # << >>
      BY <1>1, <3>1, <3>2
    <3> QED
      BY <2>1, <3>1, <3>3
  <2> QED
    BY <2>2, <2>3
<1>4. CASE a # 1
  <2> DEFINE c == a - 1
  <2>1. c \in 1..Len(s) /\ c + 1 = a /\ 1 \in 1..(a - 1)
    BY <1>1, <1>2, <1>4
  <2>2. w \in GhFlags
    BY <1>1, <1>2, <2>1
  <2>3. t[a] = s[c]
    BY <1>1, <2>1
  <2>4. ASSUME NEW b \in 1..(c - 1) PROVE s[b] \in GhFlags
    <3>1. b + 1 \in 1..(a - 1) /\ b \in 1..Len(s)
      BY <1>1, <2>1
    <3>2. t[b + 1] \in GhFlags
      BY <1>2, <3>1
    <3> QED
      BY <1>1, <3>1, <3>2
  <2>5. a < Len(t) => c < Len(s) /\ t[a + 1] = s[c + 1]
    <3>1. ASSUME a < Len(t) PROVE c + 1 \in 1..Len(s) /\ (c + 1) + 1 = a + 1
      BY <1>1, <1>2, <2>1, <3>1
    <3>2. ASSUME a < Len(t) PROVE c < Len(s) /\ t[a + 1] = s[c + 1]
      BY <1>1, <2>1, <3>1, <3>2
    <3> QED
      BY <3>2
  <2> HIDE DEF c
  <2>6. Reading(s, free)
    BY <1>2, <2>1, <2>3, <2>4, <2>5 DEF Reading
  <2> QED
    BY <2>2, <2>6
<1> QED
  BY <1>3, <1>4

\* What longline vouches for only reads, whatever unknown flags take, but for
\* the word status in the subcommand's place.
LEMMA GhOnlyReads ==
  ASSUME NEW words \in Seq(GhWords), NEW how, GhReads(how, words),
         NEW r \in GhReadings(words), ~StatusTaken(words, r)
  PROVE  OnlyReads(GhRuns(words, r))
<1> DEFINE n == Len(words)
           free == \A i \in r : words[i + 1].t # "status"
           X == GhFlags \cup {"pr", "release", "auth", "status", "view", "edit"}
<1>0. n \in Nat /\ DOMAIN words = 1..n
  OBVIOUS
<1>1. PICK f : TokensFrom(f, words) /\ WithoutValueFlags(words) = f[1]
  BY <1>0, TokenScans
<1>2. PICK g : GhRunsFrom(g, words, r) /\ GhRuns(words, r) = g[1]
  BY <1>0, GhRunScans
<1>3. ASSUME NEW i \in 1..n PROVE words[i].t \in X
  <2>1. words[i] \in GhWords
    BY <1>0
  <2>2. \A w \in GhWords : w.t \in X
    BY DEF GhWords, Word
  <2> QED
    BY <2>1, <2>2
<1>4. Reading(f[1], free)
  <2> DEFINE tokens == WithoutValueFlags(words)
             at == SubcommandAt(tokens)
             I == {i \in 1..Len(tokens) : tokens[i] \notin GhFlags}
  <2>1. at = IF I # {} THEN Min(I) ELSE 0
    BY DEF SubcommandAt, SelectInSeq
  <2>2. /\ at # 0
        /\ \/ tokens[at] = "status"
           \/ /\ at < Len(tokens) /\ tokens[at] \in {"pr", "auth", "release"}
              /\ tokens[at + 1] \in {"view", "status"}
    BY DEF GhReads, HasShape
  <2>6. tokens[at] = "status" => free
    BY <2>2, Zenon DEF StatusTaken
  <2>3. Len(tokens) \in Nat
    BY <1>1
  <2> HIDE DEF tokens, at
  <2>4. at \in I /\ \A j \in I : at <= j
    <3>1. I \subseteq 1..Len(tokens)
      OBVIOUS
    <3> HIDE DEF I
    <3> QED
      BY <2>1, <2>2, <2>3, <3>1, Extremes
  <2>5. \A b \in 1..(at - 1) : tokens[b] \in GhFlags
    BY <2>3, <2>4
  <2> QED
    BY <1>1, <2>2, <2>4, <2>5, <2>6 DEF Reading, tokens
<1> DEFINE Good(k) ==
             /\ f[k] \in Seq(X) /\ g[k] \in Seq(X)
             /\ f[k] # << >> /\ f[k][1] \notin GhFlags => g[k] # << >> /\ g[k][1] = f[k][1]
             /\ Reading(f[k], free) => OnlyReads(g[k])
           G == {k \in Nat : Good(k)}
<1>8. free \in BOOLEAN
  OBVIOUS
<1>5. ASSUME NEW k \in Nat, k > n PROVE k \in G
  <2>1. f[k] = << >> /\ g[k] = << >>
    BY <1>1, <1>2, <1>5, Zenon DEF TokensFrom, GhRunsFrom, n
  <2>2. << >> \in Seq(X) /\ OnlyReads(<< >>)
    BY DEF OnlyReads
  <2> HIDE DEF X
  <2> QED
    BY <1>5, <2>1, <2>2
<1> HIDE DEF n, X, free
<1>6. ASSUME NEW k \in 1..n, \A j \in Nat : j > k => j \in G
      PROVE  k \in G
  <2> DEFINE t == words[k].t
  <2>0. k \in Nat /\ ~(k > n) /\ k + 1 \in Nat /\ k + 2 \in Nat
    BY <1>0
  <2>1. Good(k + 1) /\ Good(k + 2)
    <3>0. k + 1 > k /\ k + 2 > k
      BY <2>0
    <3> HIDE DEF Good
    <3>1. k + 1 \in G /\ k + 2 \in G
      BY <1>6, <2>0, <3>0, Zenon
    <3> QED
      BY <3>1
  <2>2. t \in X
    BY <1>3
  <2>3. CASE t \in {"-R", "--hostname"}
    <3>1. f[k] = f[k + 2] /\ g[k] = g[k + 2]
      BY <1>1, <1>2, <2>0, <2>3, Zenon DEF TokensFrom, GhRunsFrom, n
    <3> HIDE DEF Good
    <3>2. Good(k)
      BY <2>1, <3>1, Zenon DEF Good
    <3> QED
      BY <2>0, <3>2
  <2>4. k \in r => /\ t = "-x" /\ k + 1 \in 1..n
                   /\ words[k + 1].t \notin GhFlags
                   /\ free => words[k + 1].t # "status"
    BY <1>0, <2>0 DEF GhReadings, n, free
  <2>5. CASE t = "--repo="
    <3>1. f[k] = f[k + 1]
      <4>1. t \notin {"-R", "--hostname"}
        BY <2>5
      <4> QED
        BY <1>1, <2>0, <2>5, <4>1, Zenon DEF TokensFrom, n
    <3>2. g[k] = g[k + 1]
      <4>1. t \in GhFlags /\ ~(t \in {"-R", "--hostname"} \/ k \in r)
        BY <2>4, <2>5 DEF GhFlags
      <4> QED
        BY <1>2, <2>0, <4>1, Zenon DEF GhRunsFrom, n
    <3> HIDE DEF Good
    <3>3. Good(k)
      BY <2>1, <3>1, <3>2, Zenon DEF Good
    <3> QED
      BY <2>0, <3>3
  <2>6. CASE t \in GhFlags /\ t \notin {"-R", "--hostname"} /\ t # "--repo="
    <3>1. f[k] = <<t>> \o f[k + 1]
      BY <1>1, <2>0, <2>6, Zenon DEF TokensFrom, n
    <3>2. f[k] \in Seq(X) /\ f[k][1] = t
      BY <2>1, <2>2, <3>1, Joined
    <3>3. Reading(f[k], free) => Reading(f[k + 1], free)
      BY <2>1, <2>2, <2>6, <3>1, <1>8, ReadingOfMore
    <3>4. CASE k \notin r
      <4>1. g[k] = g[k + 1]
        BY <1>2, <2>0, <2>6, <3>4, Zenon DEF GhRunsFrom, n
      <4>2. Good(k)
        BY <2>1, <2>6, <3>2, <3>3, <4>1, Zenon DEF Good
      <4> QED
        BY <2>0, <4>2
    <3>5. CASE k \in r
      <4> DEFINE u == words[k + 1].t
      <4>1. g[k] = g[k + 2]
        BY <1>2, <2>0, <3>5, Zenon DEF GhRunsFrom, n
      <4>2. u \in X /\ u \notin GhFlags /\ (free => u # "status")
        BY <1>3, <2>4, <3>5
      <4>3. f[k + 1] = <<u>> \o f[k + 2]
        <5>1. ~(k + 1 > n) /\ (k + 1) + 1 = k + 2
          BY <1>0, <2>0, <2>4, <3>5
        <5>2. u \notin {"-R", "--hostname"} /\ u # "--repo="
          BY <4>2 DEF GhFlags
        <5> QED
          BY <1>1, <2>0, <5>1, <5>2, Zenon DEF TokensFrom, n
      <4> HIDE DEF u
      <4>4. ASSUME Reading(f[k + 1], free) PROVE f[k + 2] # << >> /\ f[k + 2][1] \in {"view", "status"}
        BY <2>1, <4>2, <4>3, <4>4, <1>8, ReadingOfMore
      <4>5. ASSUME Reading(f[k], free) PROVE OnlyReads(g[k])
        <5>1. f[k + 2] # << >> /\ f[k + 2][1] \in {"view", "status"}
          BY <3>3, <4>4, <4>5
        <5>2. f[k + 2][1] \notin GhFlags
          BY <5>1 DEF GhFlags
        <5>3. g[k + 2] # << >> /\ g[k + 2][1] \in {"view", "status"}
          BY <2>1, <5>1, <5>2
        <5>4. g[k][1] \notin GhFamilies \/ g[k][1] = "status"
          BY <4>1, <5>3 DEF GhFamilies
        <5> QED
          BY <5>4 DEF OnlyReads
      <4>6. Good(k)
        BY <2>1, <2>6, <3>2, <4>1, <4>5, Zenon DEF Good
      <4> QED
        BY <2>0, <4>6
    <3> QED
      BY <3>4, <3>5
  <2>7. CASE t \notin GhFlags
    <3>1. t \notin {"-R", "--hostname"} /\ t # "--repo=" /\ k \notin r
      BY <2>4, <2>7 DEF GhFlags
    <3>2. f[k] = <<t>> \o f[k + 1] /\ g[k] = <<t>> \o g[k + 1]
      BY <1>1, <1>2, <2>0, <2>7, <3>1, Zenon DEF TokensFrom, GhRunsFrom, n
    <3> HIDE DEF t
    <3>3. f[k] \in Seq(X) /\ f[k][1] = t
      BY <2>1, <2>2, <3>2, Joined
    <3>4. /\ g[k] \in Seq(X) /\ g[k][1] = t /\ Len(g[k]) = Len(g[k + 1]) + 1
          /\ \A i \in 1..Len(g[k + 1]) : g[k][i + 1] = g[k + 1][i]
      BY <2>1, <2>2, <3>2, Joined
    <3>5. g[k] # << >>
      BY <2>1, <3>4
    <3>6. ASSUME Reading(f[k], free) PROVE OnlyReads(g[k])
      <4>1. \/ t = "status"
            \/ f[k + 1] # << >> /\ f[k + 1][1] \in {"view", "status"}
        <5>1. t \in X /\ f[k + 1] \in Seq(X) /\ Reading(<<t>> \o f[k + 1], free)
          BY <2>1, <2>2, <3>2, <3>6
        <5>2. t \notin GhFlags
          BY <2>7 DEF t
        <5> HIDE DEF Good
        <5> QED
          BY <5>1, <5>2, <1>8, ReadingOfMore
      <4>2. CASE t = "status"
        BY <3>4, <4>2 DEF OnlyReads
      <4>3. CASE f[k + 1] # << >> /\ f[k + 1][1] \in {"view", "status"}
        <5>1. g[k + 1] # << >> /\ g[k + 1][1] \in {"view", "status"}
          <6>1. f[k + 1][1] \notin GhFlags
            BY <4>3 DEF GhFlags
          <6> QED
            BY <2>1, <4>3, <6>1
        <5>2. Len(g[k + 1]) \in Nat /\ Len(g[k + 1]) # 0
          BY <2>1, <5>1
        <5>3. 1 \in 1..Len(g[k + 1])
          BY <5>2
        <5>4. Len(g[k]) > 1 /\ g[k][2] \in {"view", "status"}
          BY <3>4, <5>1, <5>2, <5>3
        <5> QED
          BY <5>4 DEF OnlyReads
      <4> QED
        BY <4>1, <4>2, <4>3
    <3>7. Good(k)
      BY <3>3, <3>4, <3>5, <3>6
    <3> QED
      BY <2>0, <3>7
  <2> QED
    BY <2>3, <2>5, <2>6, <2>7
<1>7. 1 \in G
  <2> HIDE DEF G
  <2>1. \A k \in Nat \ {0} : k \in G
    BY <1>0, <1>5, <1>6, CountingDown
  <2> QED
    BY <2>1
<1> QED
  BY <1>2, <1>4, <1>7

\* Redirects that longline takes for harmless.
Discarding == {w \in RedirectWords : w.op \in {"write", "dup"} /\ w.target \in {"null", "1", "2"}}
Apply(w, before) == [before EXCEPT ![FdOf(w)] =
                       IF w.target \in {"1", "2"} THEN before[w.target] ELSE w.target]
Harmless == [{"1", "2"} -> {"terminal", "null"}]

LEMMA RedirectsKnown ==
  ASSUME NEW w \in RedirectWords
  PROVE  /\ w.fd \in {"", "1", "2"}
         /\ w.op \in {"write", "dup", "read"}
         /\ w.op = "dup" => w.target \in {"1", "2", "null"}
BY DEF RedirectWords

LEMMA AppliedHarmlessly ==
  ASSUME NEW w \in Discarding, NEW before \in Harmless
  PROVE  Apply(w, before) \in Harmless
<1>1. w.fd \in {"", "1", "2"} /\ w.op \in {"write", "dup"} /\ w.target \in {"null", "1", "2"}
  BY RedirectsKnown DEF Discarding
<1>2. FdOf(w) \in {"1", "2"}
  BY <1>1 DEF FdOf
<1> QED
  BY <1>1, <1>2 DEF Apply, Harmless

SinksFrom(f, words) ==
  /\ f[0] = [fd \in {"1", "2"} |-> "terminal"]
  /\ \A k \in 1..Len(words) :
       f[k] = IF words[k].op = "read" THEN f[k - 1] ELSE Apply(words[k], f[k - 1])

LEMMA SinkScans ==
  ASSUME NEW words \in Seq(Discarding)
  PROVE  \E f : SinksFrom(f, words) /\ Sinks(words) = f[Len(words)]
<1> DEFINE n == Len(words)
           first == [fd \in {"1", "2"} |-> "terminal"]
           step == [k \in 1..n |-> [before \in Harmless |-> Apply(words[k], before)]]
           Eq(F) == F = [i \in 0..n |->
             IF i = 0 THEN [fd \in {"1", "2"} |-> "terminal"]
             ELSE IF words[i].op = "read" THEN F[i - 1]
                  ELSE [F[i - 1] EXCEPT ![FdOf(words[i])] =
                          IF words[i].target \in {"1", "2"} THEN F[i - 1][words[i].target]
                          ELSE words[i].target]]
<1>0. n \in Nat /\ \A k \in 1..n : words[k] \in Discarding
  OBVIOUS
<1>1. step \in [1..n -> [Harmless -> Harmless]] /\ first \in Harmless
  <2>1. \A k \in 1..n : \A before \in Harmless : Apply(words[k], before) \in Harmless
    BY <1>0, AppliedHarmlessly
  <2>2. first \in Harmless
    BY DEF Harmless
  <2> QED
    BY <2>1, <2>2
<1>2. PICK f \in [0..n -> Harmless] : Iterates(f, n, first, step)
  <2> HIDE DEF n, first, step
  <2> QED
    BY <1>0, <1>1, Iteration
<1>3. f[0] = first /\ \A k \in 1..n : f[k] = Apply(words[k], f[k - 1])
  <2>1. f[0] = first /\ \A k \in 1..n : f[k] = step[k][f[k - 1]]
    <3> HIDE DEF first, step, n
    <3> QED
      BY <1>0, <1>2 DEF Iterates
  <2>2. ASSUME NEW k \in 1..n PROVE step[k][f[k - 1]] = Apply(words[k], f[k - 1])
    <3>1. k - 1 \in 0..n
      BY <1>0
    <3>2. f[k - 1] \in Harmless
      BY <1>2, <3>1
    <3> QED
      BY <3>2
  <2> QED
    BY <2>1, <2>2
<1>4. \A k \in 1..n : words[k].op # "read"
  BY <1>0 DEF Discarding
<1>5. Eq(f)
  <2> DEFINE h == [i \in 0..n |-> IF i = 0 THEN first
             ELSE IF words[i].op = "read" THEN f[i - 1] ELSE Apply(words[i], f[i - 1])]
  <2>1. ASSUME NEW i \in 0..n PROVE f[i] = h[i]
    <3>1. CASE i = 0
      BY <1>3, <3>1
    <3>2. CASE i # 0
      <4>1. i \in 1..n
        BY <1>0, <3>2
      <4> QED
        BY <1>3, <1>4, <3>2, <4>1
    <3> QED
      BY <3>1, <3>2
  <2>2. f = [i \in 0..n |-> f[i]] /\ h = [i \in 0..n |-> h[i]]
    BY <1>2
  <2>3. f = h
    <3> HIDE DEF h, n
    <3> QED
      BY <2>1, <2>2
  <2> QED
    BY <2>3, Zenon DEF Apply
<1> DEFINE g == CHOOSE F : Eq(F)
<1>6. Eq(g)
  <2> HIDE DEF Eq
  <2> QED
    BY <1>5
<1>7. Sinks(words) = g[n]
  BY Zenon DEF Sinks
<1> HIDE DEF g
<1>8. SinksFrom(g, words)
  <2>1. ASSUME NEW k \in 1..n
        PROVE  g[k] = IF words[k].op = "read" THEN g[k - 1] ELSE Apply(words[k], g[k - 1])
    <3>1. k \in 0..n /\ k # 0
      BY <1>0
    <3> HIDE DEF n
    <3> QED
      BY <1>6, <3>1, Zenon DEF Apply
  <2>2. 0 \in 0..n
    BY <1>0
  <2>3. g[0] = first
    <3> HIDE DEF n
    <3> QED
      BY <1>6, <2>2, Zenon
  <2> QED
    BY <2>1, <2>3 DEF SinksFrom
<1> QED
  BY <1>7, <1>8

\* No descriptor leads to a file.
LEMMA NoSinkIsAFile ==
  ASSUME NEW words \in Seq(Discarding), NEW fd \in {"1", "2"}
  PROVE  Sinks(words)[fd] # "file"
<1> DEFINE n == Len(words)
<1>0. n \in Nat /\ \A k \in 1..n : words[k] \in Discarding
  OBVIOUS
<1>1. PICK f : SinksFrom(f, words) /\ Sinks(words) = f[n]
  BY SinkScans
<1> DEFINE G == {k \in 0..n : f[k] \in Harmless}
<1> HIDE DEF n
<1>2. 0 \in G
  BY <1>0, <1>1 DEF SinksFrom, Harmless
<1>3. ASSUME NEW k \in 0..(n - 1), k \in G PROVE k + 1 \in G
  <2>1. k + 1 \in 1..n /\ k + 1 \in 0..n /\ (k + 1) - 1 = k
    BY <1>0
  <2>2. words[k + 1] \in Discarding
    BY <1>0, <2>1
  <2>3. words[k + 1].op # "read"
    BY <2>2 DEF Discarding
  <2>4. f[k + 1] = Apply(words[k + 1], f[k])
    BY <1>1, <2>1, <2>3 DEF SinksFrom, n
  <2>5. f[k + 1] \in Harmless
    BY <1>3, <2>2, <2>4, AppliedHarmlessly
  <2> QED
    BY <2>1, <2>5
<1>4. n \in G
  <2> HIDE DEF G
  <2>1. 0..n \subseteq G
    BY <1>0, <1>2, <1>3, CountingUp
  <2> QED
    BY <1>0, <2>1
<1>5. Sinks(words) \in Harmless
  BY <1>1, <1>4
<1> QED
  BY <1>5 DEF Harmless

LEMMA RedirectsAreHarmless ==
  ASSUME NEW words \in Seq(RedirectWords), DiscardsOutput(words),
         NEW i \in DOMAIN words, NEW fd \in {"1", "2"}
  PROVE  Sinks(SubSeq(words, 1, i))[fd] # "file"
<1>0. Len(words) \in Nat /\ DOMAIN words = 1..Len(words) /\ words # << >>
  OBVIOUS
<1>1. ASSUME NEW j \in DOMAIN words PROVE words[j] \in Discarding
  <2>1. \/ words[j].op \in {"write", "dup"} /\ words[j].target = "null"
        \/ words[j].op = "dup" /\ words[j].target \in ToNull(words, j)
    BY <1>0 DEF DiscardsOutput
  <2>2. words[j] \in RedirectWords
    BY <1>0
  <2>3. \A w \in RedirectWords : w.op = "dup" => w.target \in {"1", "2", "null"}
    BY RedirectsKnown
  <2> QED
    BY <2>1, <2>2, <2>3 DEF Discarding
<1>2. SubSeq(words, 1, i) \in Seq(Discarding)
  <2>1. words \in Seq(Discarding)
    BY <1>0, <1>1
  <2> QED
    BY <1>0, <2>1
<1> QED
  BY <1>2, NoSinkIsAFile

\* What classifiers let pass, on every line of words.
LEMMA LinesVouchTruly == WordsInv => ClassifiersVouchTruly
<1> SUFFICES ASSUME WordsInv PROVE ClassifiersVouchTruly
  OBVIOUS
<1>0. tool \in Tools /\ argv \in Seq(Words)
  BY DEF WordsInv
<1>1. Name \in {"set", "setopt", "assignments", "printf", "redirects"} =>
        /\ Name \notin DOMAIN Wrappers /\ Name \notin DOMAIN Shells /\ Name \notin DOMAIN Launchers
        /\ Name \notin Manners /\ Name \notin Families /\ Name \notin TextKinds
        /\ Name \notin DOMAIN Contexts /\ Name \notin DOMAIN Requests
  BY DEF Wrappers, Shells, Launchers, Manners, Families, TextKinds, Contexts, Requests
<1>2. Scan \in {"gh", "gh api"} => Name \in Manners
  BY <1>0, ToolKinds
<1>3. Name \notin {"env", "find", "xargs", "read", "overrides", "stages"} \/ Name \notin Manners
  BY DEF Manners
<1>4. Scan \in {"gh", "gh api"} => Name \in {"bare", "dressed", "extra"}
  BY <1>2 DEF Manners
<1>5. /\ Name \in {"set", "setopt"} => Scan = "set"
      /\ Name \in {"assignments", "printf"} => Scan = "sets"
      /\ Name = "redirects" => Scan = "lists"
  BY <1>0, <1>1, ToolKinds
<1>6. /\ Scan = "gh" => Words = GhWords
      /\ Scan = "gh api" => Words = ApiWords
  BY <1>4 DEF Words
<1>7. /\ Name \in {"set", "setopt"} => Words = SetWords
      /\ Name = "assignments" => Words = AssignmentWords
      /\ Name = "printf" => Words = PrintfWords
      /\ Name = "redirects" => Words = RedirectWords
  BY <1>5 DEF Words
<1>8. ASSUME Scan = "gh", GhReads(Name, argv), NEW r \in GhReadings(argv)
      PROVE  StatusTaken(argv, r) \/ OnlyReads(GhRuns(argv, r))
  BY <1>0, <1>6, <1>8, GhOnlyReads
<1>9. ASSUME Scan = "gh api", ApiReads(Name, argv), ~Clustered, NEW r \in ApiReadings(argv)
      PROVE  ApiSends(argv, r) = "GET"
  BY <1>0, <1>6, <1>9, SendsGets DEF Clustered
<1>10. Name = "set" /\ SetIsBenign(argv) => SetEnables(argv) \cap Exports = {}
  BY <1>0, <1>7, BenignSets
<1>11. Name = "setopt" /\ SetoptIsBenign(argv) => ToSet(Texts(argv)) \cap Exports = {}
  BY <1>0, <1>7, BenignSetopts
<1>12. Name = "assignments" /\ ~AsksOfEnv(Name, argv) => ~SetsSensitive(argv)
  BY <1>0, <1>7, HarmlessAssignments
<1>13. Name = "printf" /\ ~AsksOfEnv(Name, argv) /\ Cardinality(Targets) < 2 =>
         ~SensitiveVariable(PrintfSets(argv))
  <2> SUFFICES ASSUME Name = "printf", ~AsksOfEnv(Name, argv), Cardinality(Targets) < 2
               PROVE  ~SensitiveVariable(PrintfSets(argv))
    OBVIOUS
  <2>1. ~SensitiveVariable(PrintfTarget(argv))
    BY DEF AsksOfEnv
  <2>2. TargetsOf(argv) = Targets
    BY DEF TargetsOf, Targets
  <2> QED
    BY <1>0, <1>7, <2>1, <2>2, HarmlessPrintf
<1>14. ASSUME Name = "redirects", DiscardsOutput(argv), NEW i \in DOMAIN argv, NEW fd \in {"1", "2"}
       PROVE  Sinks(SubSeq(argv, 1, i))[fd] # "file"
  BY <1>0, <1>7, <1>14, RedirectsAreHarmless
<1> QED
  BY <1>8, <1>9, <1>10, <1>11, <1>12, <1>13, <1>14, Zenon DEF ClassifiersVouchTruly

\* Whatever the words are, what a classifier lets pass is harmless as its tool
\* reads it.
THEOREM VouchedIsHarmless == Spec => []ClassifiersVouchTruly
BY WordsType, LinesVouchTruly, PTL

-----------------------------------------------------------------------------
(* The text of a word. *)

Characters(s) == {s[i] : i \in Nat}

UnescapedFrom(f, s) ==
  \A i \in Nat : f[i] = IF i > Len(s) THEN << >>
                        ELSE IF s[i] = 92 /\ i < Len(s) THEN <<s[i+1]>> \o f[i + 2]
                        ELSE <<s[i]>> \o f[i + 1]

LEMMA UnescapeScans ==
  ASSUME NEW s, Len(s) \in Nat
  PROVE  \E f : UnescapedFrom(f, s) /\ UnescapeBareword(s) = f[1]
<1> DEFINE A == Characters(s)
           escape(i) == s[i] = 92 /\ i < Len(s)
           value(F, i) == IF i > Len(s) THEN << >>
                          ELSE IF s[i] = 92 /\ i < Len(s) THEN <<s[i+1]>> \o F[i + 2]
                          ELSE <<s[i]>> \o F[i + 1]
           Eq(F) == F = [i \in Nat |->
                          IF i > Len(s) THEN << >>
                          ELSE IF s[i] = 92 /\ i < Len(s) THEN <<s[i+1]>> \o F[i + 2]
                          ELSE <<s[i]>> \o F[i + 1]]
           next == [i \in Nat |-> IF escape(i) THEN i + 2 ELSE i + 1]
           add == [i \in Nat |-> IF escape(i) THEN <<s[i+1]>> ELSE <<s[i]>>]
<1>1. \A i \in Nat : next[i] \in Nat /\ next[i] > i /\ add[i] \in Seq(A)
  <2>1. \A i \in Nat : s[i] \in A
    BY DEF Characters
  <2> HIDE DEF A
  <2>2. \A i \in Nat : <<s[i]>> \in Seq(A) /\ <<s[i+1]>> \in Seq(A)
    BY <2>1
  <2> QED
    BY <2>2
<1>2. PICK f \in [Nat -> Seq(A)] : Concatenates(f, Len(s), next, add)
  <2> HIDE DEF A, next, add
  <2> QED
    BY <1>1, Concatenating
<1>3. Eq(f)
  <2> DEFINE h == [i \in Nat |-> value(f, i)]
  <2>1. ASSUME NEW i \in Nat PROVE f[i] = h[i]
    <3>1. f[i] = IF i > Len(s) THEN << >> ELSE add[i] \o f[next[i]]
      BY <1>2 DEF Concatenates
    <3>2. /\ escape(i) => add[i] = <<s[i+1]>> /\ next[i] = i + 2
          /\ ~escape(i) => add[i] = <<s[i]>> /\ next[i] = i + 1
      OBVIOUS
    <3> HIDE DEF add, next
    <3> QED
      BY <3>1, <3>2
  <2>2. f = [i \in Nat |-> f[i]] /\ h = [i \in Nat |-> h[i]]
    BY <1>2
  <2>3. f = h
    <3> HIDE DEF h
    <3> QED
      BY <2>1, <2>2, SameValues
  <2> QED
    BY <2>3, Zenon
<1> DEFINE g == CHOOSE F : Eq(F)
<1>4. Eq(g)
  <2> HIDE DEF Eq
  <2> QED
    BY <1>3
<1>5. UnescapeBareword(s) = g[1]
  BY Zenon DEF UnescapeBareword
<1> HIDE DEF g
<1>6. UnescapedFrom(g, s)
  BY <1>4 DEF UnescapedFrom
<1> QED
  BY <1>5, <1>6

BashFrom(f, s, gone) ==
  \A i \in Nat : f[i] = IF i > Len(s) THEN << >>
                        ELSE IF i \in gone THEN f[i + 1]
                        ELSE <<s[i]>> \o f[i + 1]

LEMMA BashScans ==
  ASSUME NEW s, Len(s) \in Nat, NEW kind
  PROVE  \E f : BashFrom(f, s, Gone(kind, s)) /\ BashText(kind, s) = f[1]
<1> DEFINE A == Characters(s)
           gone == Gone(kind, s)
           value(F, i) == IF i > Len(s) THEN << >>
                          ELSE IF i \in gone THEN F[i + 1]
                          ELSE <<s[i]>> \o F[i + 1]
           Eq(F) == F = [i \in Nat |->
                          IF i > Len(s) THEN << >>
                          ELSE IF i \in gone THEN F[i + 1]
                          ELSE <<s[i]>> \o F[i + 1]]
           next == [i \in Nat |-> i + 1]
           add == [i \in Nat |-> IF i \in gone THEN << >> ELSE <<s[i]>>]
<1>0. \A i \in Nat : s[i] \in A
  BY DEF Characters
<1>1. \A i \in Nat : next[i] \in Nat /\ next[i] > i /\ add[i] \in Seq(A)
  <2> HIDE DEF A
  <2>2. \A i \in Nat : <<s[i]>> \in Seq(A)
    BY <1>0
  <2> QED
    BY <2>2
<1>2. PICK f \in [Nat -> Seq(A)] : Concatenates(f, Len(s), next, add)
  <2> HIDE DEF A, next, add
  <2> QED
    BY <1>1, Concatenating
<1>3. Eq(f)
  <2> DEFINE h == [i \in Nat |-> value(f, i)]
  <2>1. ASSUME NEW i \in Nat PROVE f[i] = h[i]
    <3>1. f[i] = IF i > Len(s) THEN << >> ELSE add[i] \o f[i + 1]
      BY <1>2 DEF Concatenates
    <3>2. /\ i \in gone => add[i] = << >>
          /\ i \notin gone => add[i] = <<s[i]>>
      OBVIOUS
    <3>3. << >> \o f[i + 1] = f[i + 1]
      <4>1. f[i + 1] \in Seq(A)
        BY <1>2
      <4> HIDE DEF A
      <4> QED
        BY <4>1
    <3> HIDE DEF add, gone
    <3> QED
      BY <3>1, <3>2, <3>3
  <2>2. f = [i \in Nat |-> f[i]] /\ h = [i \in Nat |-> h[i]]
    BY <1>2
  <2>3. f = h
    <3> HIDE DEF h
    <3> QED
      BY <2>1, <2>2, SameValues
  <2> QED
    BY <2>3, Zenon
<1> DEFINE g == CHOOSE F : Eq(F)
<1>4. Eq(g)
  <2> HIDE DEF Eq
  <2> QED
    BY <1>3
<1>5. BashText(kind, s) = g[1]
  BY Zenon DEF BashText
<1> HIDE DEF g
<1>6. BashFrom(g, s, gone)
  BY <1>4 DEF BashFrom
<1> QED
  BY <1>5, <1>6

EscapedFrom(f, s) ==
  \A i \in Nat : f[i] = IF i >= Len(s) THEN {}
                        ELSE IF s[i] = 92 THEN {i + 1} \cup f[i + 2] ELSE f[i + 1]

LEMMA EscapedScans ==
  ASSUME NEW s, Len(s) \in Nat
  PROVE  \E f : EscapedFrom(f, s) /\ Escaped(s) = f[1]
<1> DEFINE Eq(F) == F = [i \in Nat |->
                          IF i >= Len(s) THEN {}
                          ELSE IF s[i] = 92 THEN {i + 1} \cup F[i + 2] ELSE F[i + 1]]
           base == [i \in Nat |-> IF i < Len(s) /\ s[i] = 92 THEN {i + 1} ELSE {}]
           kids == [i \in Nat |-> IF i >= Len(s) THEN {}
                                  ELSE IF s[i] = 92 THEN {i + 2} ELSE {i + 1}]
<1>1. PICK f : Solves(f, Nat, base, kids)
  <2>1. \A i \in Nat : kids[i] \subseteq Nat
    OBVIOUS
  <2> HIDE DEF base, kids
  <2> QED
    BY <2>1, LeastSolution
<1>2. Eq(f)
  <2>1. f = [i \in Nat |-> base[i] \cup UNION {f[y] : y \in kids[i]}]
    BY <1>1 DEF Solves
  <2>2. ASSUME NEW i \in Nat
        PROVE  base[i] \cup UNION {f[y] : y \in kids[i]} =
                 IF i >= Len(s) THEN {}
                 ELSE IF s[i] = 92 THEN {i + 1} \cup f[i + 2] ELSE f[i + 1]
    <3>1. \A a, b, y : kids[i] = {y} /\ base[i] = b =>
            base[i] \cup UNION {f[z] : z \in kids[i]} = b \cup f[y]
      OBVIOUS
    <3>2. CASE i >= Len(s)
      BY <3>2
    <3>3. CASE ~(i >= Len(s)) /\ s[i] = 92
      <4>1. kids[i] = {i + 2} /\ base[i] = {i + 1}
        BY <3>3
      <4> HIDE DEF kids, base
      <4> QED
        BY <3>1, <3>3, <4>1
    <3>4. CASE ~(i >= Len(s)) /\ s[i] # 92
      <4>1. kids[i] = {i + 1} /\ base[i] = {}
        BY <3>4
      <4> HIDE DEF kids, base
      <4> QED
        BY <3>1, <3>4, <4>1
    <3> QED
      BY <3>2, <3>3, <3>4
  <2> QED
    BY <2>1, <2>2, Zenon
<1> DEFINE g == CHOOSE F : Eq(F)
<1>3. Eq(g)
  <2> HIDE DEF Eq
  <2> QED
    BY <1>2
<1>4. Escaped(s) = g[1]
  BY Zenon DEF Escaped
<1> HIDE DEF g
<1>5. EscapedFrom(g, s)
  BY <1>3 DEF EscapedFrom
<1> QED
  BY <1>4, <1>5

\* A function that leaves out nothing gives the text back.
LEMMA Copies ==
  ASSUME NEW A, NEW s \in Seq(A), NEW f,
         \A i \in Nat \ {0} : f[i] = IF i > Len(s) THEN << >> ELSE <<s[i]>> \o f[i + 1]
  PROVE  f[1] = s
<1> DEFINE n == Len(s)
           rest(i) == SubSeq(s, i, n)
           G == {i \in Nat : i > 0 => f[i] = rest(i)}
<1>0. n \in Nat
  OBVIOUS
<1>1. ASSUME NEW i \in Nat, i > n PROVE i \in G
  <2>0. i \in Nat \ {0}
    BY <1>0, <1>1
  <2>1. f[i] = << >>
    BY <1>1, <2>0, Zenon
  <2>2. rest(i) = << >>
    BY <1>0, <1>1
  <2> QED
    BY <2>1, <2>2
<1>2. ASSUME NEW i \in 1..n, \A j \in Nat : j > i => j \in G
      PROVE  i \in G
  <2>1. i + 1 \in Nat /\ i + 1 > 0 /\ i + 1 > i
    OBVIOUS
  <2>2. f[i + 1] = rest(i + 1)
    <3>1. i + 1 \in G
      BY <1>2, <2>1
    <3> QED
      BY <2>1, <3>1
  <2>3. f[i] = <<s[i]>> \o rest(i + 1)
    <3>1. i \in Nat \ {0} /\ ~(i > n)
      BY <1>0
    <3>2. f[i] = <<s[i]>> \o f[i + 1]
      BY <3>1, Zenon
    <3> QED
      BY <2>2, <3>2
  <2>4. <<s[i]>> \o rest(i + 1) = rest(i)
    OBVIOUS
  <2>5. f[i] = rest(i) /\ i \in Nat
    <3> HIDE DEF rest
    <3> QED
      BY <1>0, <2>3, <2>4
  <2> QED
    BY <2>5
<1>3. 1 \in G
  <2> HIDE DEF G, n
  <2>1. \A i \in Nat \ {0} : i \in G
    BY <1>0, <1>1, <1>2, CountingDown
  <2> QED
    BY <2>1
<1>4. rest(1) = s
  OBVIOUS
<1> QED
  BY <1>3, <1>4

\* A word that has no backslash is not changed, by anyone.
LEMMA WithoutEscapes ==
  ASSUME NEW A, NEW s \in Seq(A), \A i \in 1..Len(s) : s[i] # 92
  PROVE  UnescapeBareword(s) = s /\ Escaped(s) = {}
<1>0. Len(s) \in Nat
  OBVIOUS
<1>1. UnescapeBareword(s) = s
  <2>1. PICK f : UnescapedFrom(f, s) /\ UnescapeBareword(s) = f[1]
    BY <1>0, UnescapeScans
  <2>2. ASSUME NEW i \in Nat \ {0}
        PROVE  f[i] = IF i > Len(s) THEN << >> ELSE <<s[i]>> \o f[i + 1]
    <3>1. ~(i > Len(s)) => i \in 1..Len(s) /\ s[i] # 92
      BY <1>0
    <3> QED
      BY <2>1, <3>1, Zenon DEF UnescapedFrom
  <2>3. f[1] = s
    BY <2>2, Copies
  <2> QED
    BY <2>1, <2>3
<1>2. Escaped(s) = {}
  <2>1. PICK e : EscapedFrom(e, s) /\ Escaped(s) = e[1]
    BY <1>0, EscapedScans
  <2> DEFINE G == {i \in Nat : i > 0 => e[i] = {}}
  <2>2. ASSUME NEW i \in Nat, i > Len(s) PROVE i \in G
    <3>1. i >= Len(s)
      BY <1>0, <2>2
    <3>2. e[i] = {}
      BY <2>1, <3>1, Zenon DEF EscapedFrom
    <3> QED
      BY <3>2
  <2>3. ASSUME NEW i \in 1..Len(s), \A j \in Nat : j > i => j \in G
        PROVE  i \in G
    <3>1. i + 1 \in G /\ s[i] # 92 /\ i \in Nat
      BY <2>3
    <3>2. e[i] = IF i >= Len(s) THEN {}
                 ELSE IF s[i] = 92 THEN {i + 1} \cup e[i + 2] ELSE e[i + 1]
      BY <2>1, <3>1, Zenon DEF EscapedFrom
    <3> QED
      BY <3>1, <3>2
  <2>4. 1 \in G
    <3> HIDE DEF G
    <3>1. \A i \in Nat \ {0} : i \in G
      BY <1>0, <2>2, <2>3, CountingDown
    <3> QED
      BY <3>1
  <2> QED
    BY <2>1, <2>4
<1> QED
  BY <1>1, <1>2

LEMMA NothingGone ==
  ASSUME NEW A, NEW s \in Seq(A), NEW kind, Gone(kind, s) = {}
  PROVE  BashText(kind, s) = s
<1>1. PICK f : BashFrom(f, s, Gone(kind, s)) /\ BashText(kind, s) = f[1]
  <2>1. Len(s) \in Nat
    OBVIOUS
  <2> QED
    BY <2>1, BashScans
<1>2. ASSUME NEW i \in Nat \ {0}
      PROVE  f[i] = IF i > Len(s) THEN << >> ELSE <<s[i]>> \o f[i + 1]
  BY <1>1 DEF BashFrom
<1>3. f[1] = s
  BY <1>2, Copies
<1> QED
  BY <1>1, <1>3

\* Where a backslash escapes, longline goes on behind what it escapes, and bash
\* leaves out the backslash.
LEMMA BothUnescape ==
  ASSUME NEW A, NEW s \in Seq(A), \A i \in 1..Len(s) : s[i] # 10
  PROVE  UnescapeBareword(s) = BashText("word", s)
<1> DEFINE n == Len(s)
           E == Escaped(s)
           gone == Gone("word", s)
<1>0. n \in Nat
  OBVIOUS
<1>1. PICK f : UnescapedFrom(f, s) /\ UnescapeBareword(s) = f[1]
  BY <1>0, UnescapeScans
<1>2. PICK b : BashFrom(b, s, gone) /\ BashText("word", s) = b[1]
  BY <1>0, BashScans
<1>3. PICK e : EscapedFrom(e, s) /\ E = e[1]
  BY <1>0, EscapedScans
<1>5. \A i \in Nat \ {0} : e[i] \subseteq {j \in 1..n : j > i}
  <2> DEFINE G == {i \in Nat : i > 0 => e[i] \subseteq {j \in 1..n : j > i}}
  <2>1. ASSUME NEW i \in Nat, i > n PROVE i \in G
    <3>1. i >= n
      BY <1>0, <2>1
    <3>2. e[i] = {}
      BY <1>3, <3>1, Zenon DEF EscapedFrom
    <3> QED
      BY <3>2
  <2>2. ASSUME NEW i \in 1..n, \A j \in Nat : j > i => j \in G
        PROVE  i \in G
    <3>1. i + 1 \in G /\ i + 2 \in G /\ i \in Nat
      BY <1>0, <2>2
    <3>2. e[i] = IF i >= n THEN {}
                 ELSE IF s[i] = 92 THEN {i + 1} \cup e[i + 2] ELSE e[i + 1]
      BY <1>3, <3>1, Zenon DEF EscapedFrom
    <3>3. e[i + 1] \subseteq {j \in 1..n : j > i + 1} /\ e[i + 2] \subseteq {j \in 1..n : j > i + 2}
      BY <3>1
    <3>4. e[i] \subseteq {j \in 1..n : j > i}
      BY <1>0, <3>2, <3>3
    <3> QED
      BY <3>1, <3>4
  <2> HIDE DEF G, n
  <2>3. \A i \in Nat \ {0} : i \in G
    BY <1>0, <2>1, <2>2, CountingDown
  <2> QED
    BY <2>3 DEF G
<1>4. \A i \in 1..n : i \in gone <=> i + 1 \in E
  <2>1. E \subseteq 1..n
    BY <1>3, <1>5
  <2>2. \A i \in 1..n : i + 1 \in E => s[i + 1] \in ToSet(s)
    BY <2>1 DEF ToSet
  <2>3. Escapable("word", s) = ToSet(s)
    BY DEF Escapable
  <2>4. DOMAIN s = 1..n
    OBVIOUS
  <2> QED
    BY <2>2, <2>3, <2>4 DEF Gone
<1> DEFINE Ahead(i) == \A j \in Nat : j >= i => (j \in E <=> j \in e[i])
           G == {i \in Nat : i > 0 /\ Ahead(i) => f[i] = b[i]}
<1>6. ASSUME NEW i \in Nat, i > n PROVE i \in G
  BY <1>1, <1>2, <1>6 DEF UnescapedFrom, BashFrom
<1>7. ASSUME NEW i \in 1..n, \A j \in Nat : j > i => j \in G
      PROVE  i \in G
  <2> SUFFICES ASSUME Ahead(i) PROVE f[i] = b[i]
    OBVIOUS
  <2>0. i \in Nat \ {0} /\ i + 1 \in Nat \ {0} /\ i + 2 \in Nat \ {0} /\ ~(i > n)
    BY <1>0
  <2>1. f[i] = IF s[i] = 92 /\ i < n THEN <<s[i+1]>> \o f[i + 2] ELSE <<s[i]>> \o f[i + 1]
    BY <1>1, <2>0, Zenon DEF UnescapedFrom
  <2>2. b[i] = IF i \in gone THEN b[i + 1] ELSE <<s[i]>> \o b[i + 1]
    BY <1>2, <2>0, Zenon DEF BashFrom
  <2>3. e[i] = IF i >= n THEN {}
               ELSE IF s[i] = 92 THEN {i + 1} \cup e[i + 2] ELSE e[i + 1]
    BY <1>3, <2>0, Zenon DEF EscapedFrom
  <2>4. /\ Ahead(i + 1) => f[i + 1] = b[i + 1]
        /\ Ahead(i + 2) => f[i + 2] = b[i + 2]
    <3>1. i + 1 \in G /\ i + 2 \in G /\ i + 1 > 0 /\ i + 2 > 0
      BY <1>7, <2>0
    <3> HIDE DEF Ahead
    <3> QED
      BY <3>1
  <2>5. /\ e[i + 1] \subseteq {j \in 1..n : j > i + 1}
        /\ e[i + 2] \subseteq {j \in 1..n : j > i + 2}
    BY <1>5, <2>0
  <2>6. i \in gone <=> i + 1 \in e[i]
    BY <1>4, <2>0
  <2> HIDE DEF n, G, E, gone
  <2>7. CASE s[i] = 92 /\ i < n
    <3>1. e[i] = {i + 1} \cup e[i + 2]
      BY <1>0, <2>0, <2>3, <2>7
    <3>2. Ahead(i + 2)
      BY <2>0, <3>1
    <3>3. i \in gone
      BY <2>6, <3>1
    <3>4. i + 1 \notin gone
      <4>1. i + 2 \notin e[i]
        BY <2>0, <2>5, <3>1
      <4>2. i + 2 \notin E
        BY <2>0, <4>1
      <4> QED
        BY <1>0, <1>4, <2>0, <2>7, <4>2
    <3>5. b[i + 1] = <<s[i + 1]>> \o b[i + 2]
      <4>1. ~(i + 1 > n)
        BY <1>0, <2>0, <2>7
      <4>2. b[i + 1] = <<s[i + 1]>> \o b[(i + 1) + 1]
        BY <1>2, <2>0, <3>4, <4>1, Zenon DEF BashFrom, n
      <4>3. (i + 1) + 1 = i + 2
        BY <2>0
      <4> QED
        BY <4>2, <4>3
    <3> QED
      BY <2>1, <2>2, <2>4, <2>7, <3>2, <3>3, <3>5
  <2>8. CASE ~(s[i] = 92 /\ i < n)
    <3>1. CASE i >= n
      <4>1. e[i] = {} /\ i + 1 > n
        BY <1>0, <2>0, <2>3, <3>1
      <4>2. i \notin gone
        BY <2>6, <4>1
      <4>3. f[i + 1] = << >> /\ b[i + 1] = << >>
        BY <1>1, <1>2, <2>0, <4>1, Zenon DEF UnescapedFrom, BashFrom, n
      <4> QED
        BY <2>1, <2>2, <2>8, <4>2, <4>3
    <3>2. CASE ~(i >= n)
      <4>1. e[i] = e[i + 1] /\ i + 1 \notin e[i]
        BY <1>0, <2>0, <2>3, <2>5, <2>8, <3>2
      <4>2. i \notin gone /\ Ahead(i + 1)
        BY <2>0, <2>6, <4>1
      <4> QED
        BY <2>1, <2>2, <2>4, <2>8, <4>2
    <3> QED
      BY <3>1, <3>2
  <2> QED
    BY <2>7, <2>8
<1>8. 1 \in G
  <2> HIDE DEF G, n
  <2>1. \A i \in Nat \ {0} : i \in G
    BY <1>0, <1>6, <1>7, CountingDown
  <2> QED
    BY <2>1
<1>9. Ahead(1)
  BY <1>3
<1> QED
  BY <1>1, <1>2, <1>8, <1>9

\* Plain text is what it is; what a backslash escapes is read alike.
LEMMA BashReadsTheSame ==
  ASSUME NEW kind \in TextKinds, NEW A, NEW s \in Seq(A)
  PROVE  /\ IsSource(kind, s) /\ Classify(kind, s) # "unsafe" =>
              \/ IsConstant(kind, s) /\ ResolveText(kind, s) = BashText(kind, s)
              \/ kind = "word" /\ s[1] = 126
         /\ kind = "word" =>
              ResolveText(kind, s) = BashText(kind, s) \/ 10 \in ToSet(s)
<1>0. \A c : c \notin ToSet(s) <=> \A i \in 1..Len(s) : s[i] # c
  BY DEF ToSet
<1>1. Gone("raw", s) = {}
  BY DEF Gone, Escapable
<1>2. \A k : Escaped(s) = {} => Gone(k, s) = {}
  BY DEF Gone
<1>3. Bare(s) \subseteq ToSet(s)
  BY DEF Bare, ToSet
<1>4. CASE kind = "raw"
  <2>1. ResolveText(kind, s) = s /\ IsConstant(kind, s)
    BY <1>4 DEF ResolveText, IsConstant
  <2>2. BashText(kind, s) = s
    BY <1>1, <1>4, NothingGone
  <2> QED
    BY <1>4, <2>1, <2>2
<1>5. CASE kind = "word"
  <2>1. ResolveText(kind, s) = UnescapeBareword(s)
    BY <1>5 DEF ResolveText
  <2>2. ASSUME Classify(kind, s) # "unsafe", s[1] # 126
        PROVE  IsConstant(kind, s) /\ ResolveText(kind, s) = BashText(kind, s)
    <3>1. 92 \notin ToSet(s) /\ 42 \notin ToSet(s)
      BY <1>5, <2>2 DEF Classify
    <3>2. UnescapeBareword(s) = s /\ Escaped(s) = {}
      BY <1>0, <3>1, WithoutEscapes
    <3>3. BashText(kind, s) = s
      BY <1>2, <3>2, NothingGone
    <3>4. IsConstant(kind, s)
      BY <1>3, <1>5, <2>2, <3>1 DEF IsConstant
    <3> QED
      BY <2>1, <3>2, <3>3, <3>4
  <2>3. ASSUME 10 \notin ToSet(s) PROVE ResolveText(kind, s) = BashText(kind, s)
    BY <1>0, <1>5, <2>1, <2>3, BothUnescape
  <2> QED
    BY <1>5, <2>2, <2>3
<1>6. CASE kind = "string"
  <2>1. ASSUME Classify(kind, s) # "unsafe"
        PROVE  IsConstant(kind, s) /\ ResolveText(kind, s) = BashText(kind, s)
    <3>1. 92 \notin ToSet(s) /\ 36 \notin ToSet(s)
      BY <1>6, <2>1 DEF Classify
    <3>2. Escaped(s) = {}
      BY <1>0, <3>1, WithoutEscapes
    <3>3. BashText(kind, s) = s
      BY <1>2, <3>2, NothingGone
    <3>4. IsConstant(kind, s) /\ ResolveText(kind, s) = s
      BY <1>3, <1>6, <3>1 DEF IsConstant, ResolveText
    <3> QED
      BY <3>3, <3>4
  <2> QED
    BY <1>6, <2>1
<1>7. CASE kind = "ansi"
  <2>1. ~IsSource(kind, s)
    BY <1>7 DEF IsSource
  <2> QED
    BY <1>7, <2>1
<1> QED
  BY <1>4, <1>5, <1>6, <1>7 DEF TextKinds

AreDigits(s, i, n, digits) ==
  i + n - 1 <= Len(s) /\ \A k \in i..(i + n - 1) : s[k] \in DOMAIN digits

\* The digits are counted up to the most there may be.
LEMMA AllAreDigits ==
  ASSUME NEW s, NEW i, NEW max \in Nat, NEW digits, AreDigits(s, i, max, digits)
  PROVE  Digits(s, i, max, digits) = max
<1> DEFINE ends == {n \in 0..max : /\ i + n - 1 <= Len(s)
                                   /\ \A k \in i..(i + n - 1) : s[k] \in DOMAIN digits}
           best == CHOOSE n \in ends : \A m \in ends : m <= n
<1>1. max \in ends /\ \A m \in ends : m \in 0..max /\ m <= max
  BY DEF AreDigits
<1>2. best \in ends /\ \A m \in ends : m <= best
  <2> HIDE DEF ends
  <2> QED
    BY <1>1
<1>3. best = max
  <2> HIDE DEF ends, best
  <2> QED
    BY <1>1, <1>2
<1> QED
  BY <1>3 DEF Digits

\* There never are more digits than there may be.
LEMMA DigitsAreFew ==
  ASSUME NEW s, Len(s) \in Nat, NEW i \in Nat, i <= Len(s) + 1, NEW max \in Nat, NEW digits
  PROVE  Digits(s, i, max, digits) \in 0..max
<1> DEFINE ends == {n \in 0..max : /\ i + n - 1 <= Len(s)
                                   /\ \A k \in i..(i + n - 1) : s[k] \in DOMAIN digits}
           back == {n \in 1..(max + 1) : n - 1 \in ends}
<1>1. 0 \in ends
  BY i + 0 - 1 <= Len(s), i..(i + 0 - 1) = {}
<1>2. back \subseteq 1..(max + 1) /\ 1 \in back
  BY <1>1
<1>3. PICK b \in back : \A n \in back : n <= b
  <2> DEFINE most == max + 1
  <2>1. most \in Nat /\ back \subseteq 1..most /\ back # {}
    <3>1. most \in Nat
      OBVIOUS
    <3> HIDE DEF back
    <3> QED
      BY <1>2, <3>1
  <2> HIDE DEF back, most
  <2> QED
    BY <2>1, GreatestNumber
<1>4. b - 1 \in ends
  OBVIOUS
<1>5. \A m \in ends : m <= b - 1
  <2>1. ASSUME NEW m \in ends PROVE m + 1 \in back
    OBVIOUS
  <2>2. \A m \in ends : m \in Nat
    OBVIOUS
  <2>3. b \in Nat
    BY <1>3
  <2> HIDE DEF ends, back
  <2> QED
    BY <1>3, <2>1, <2>2, <2>3
<1> HIDE DEF ends
<1>6. (CHOOSE n \in ends : \A m \in ends : m <= n) \in ends
  BY <1>4, <1>5
<1> QED
  BY <1>6 DEF Digits, ends

LEMMA TwoHexDigits ==
  ASSUME NEW s, NEW i \in Nat, NEW a \in Nat, NEW b \in Nat,
         HexDigits[s[i]] = a, HexDigits[s[i+1]] = b
  PROVE  Number(s, i, 2, HexDigits, 16) = 16 * a + b
<1> DEFINE Eq(F) == F = [k \in 0..2 |->
                      IF k = 0 THEN 0
                      ELSE LET high == F[k - 1]
                           IN 16 * high + HexDigits[s[i + k - 1]]]
           f == [k \in 0..2 |-> IF k = 0 THEN 0 ELSE IF k = 1 THEN a ELSE 16 * a + b]
           g == CHOOSE F : Eq(F)
<1>1. Eq(f)
  <2>1. i + 1 - 1 = i /\ i + 2 - 1 = i + 1
    OBVIOUS
  <2>2. ASSUME NEW k \in 0..2
        PROVE  f[k] = IF k = 0 THEN 0 ELSE 16 * f[k - 1] + HexDigits[s[i + k - 1]]
    <3>1. k = 0 \/ k = 1 \/ k = 2
      OBVIOUS
    <3>2. f[0] = 0 /\ f[1] = a /\ f[2] = 16 * a + b
      OBVIOUS
    <3> HIDE DEF f
    <3>3. CASE k = 0
      BY <3>2, <3>3
    <3>4. CASE k = 1
      BY <2>1, <3>2, <3>4
    <3>5. CASE k = 2
      BY <2>1, <3>2, <3>5
    <3> QED
      BY <3>1, <3>3, <3>4, <3>5
  <2> DEFINE h == [k \in 0..2 |-> IF k = 0 THEN 0 ELSE 16 * f[k - 1] + HexDigits[s[i + k - 1]]]
  <2>3. f = [k \in 0..2 |-> f[k]] /\ h = [k \in 0..2 |-> h[k]] /\ \A k \in 0..2 : f[k] = h[k]
    <3> HIDE DEF f
    <3>1. \A k \in 0..2 : f[k] = h[k]
      BY <2>2
    <3> QED
      BY <3>1 DEF f
  <2>4. f = h
    <3> HIDE DEF f, h
    <3> QED
      BY <2>3, SameValues
  <2> QED
    BY <2>4, Zenon
<1>2. Eq(g)
  <2> HIDE DEF Eq, f
  <2> QED
    BY <1>1
<1>3. Number(s, i, 2, HexDigits, 16) = g[2]
  BY Zenon DEF Number
<1> HIDE DEF g
<1>4. g[0] = 0
  BY <1>2
<1>5. g[1] = HexDigits[s[i]]
  <2>1. g[1] = 16 * g[1 - 1] + HexDigits[s[i + 1 - 1]]
    BY <1>2
  <2>2. 1 - 1 = 0 /\ i + 1 - 1 = i
    OBVIOUS
  <2> QED
    BY <1>4, <2>1, <2>2
<1>6. g[2] = 16 * g[1] + HexDigits[s[i + 1]]
  <2>1. g[2] = 16 * g[2 - 1] + HexDigits[s[i + 2 - 1]]
    BY <1>2
  <2>2. 2 - 1 = 1 /\ i + 2 - 1 = i + 1
    OBVIOUS
  <2> QED
    BY <2>1, <2>2
<1> QED
  BY <1>3, <1>5, <1>6

LEMMA ThreeOctalDigits ==
  ASSUME NEW s, NEW i \in Nat, NEW a \in Nat, NEW b \in Nat, NEW c \in Nat,
         OctalDigits[s[i]] = a, OctalDigits[s[i+1]] = b, OctalDigits[s[i+2]] = c
  PROVE  Number(s, i, 3, OctalDigits, 8) = 8 * (8 * a + b) + c
<1> DEFINE Eq(F) == F = [k \in 0..3 |->
                      IF k = 0 THEN 0
                      ELSE LET high == F[k - 1]
                           IN 8 * high + OctalDigits[s[i + k - 1]]]
           f == [k \in 0..3 |-> IF k = 0 THEN 0 ELSE IF k = 1 THEN a
                                ELSE IF k = 2 THEN 8 * a + b ELSE 8 * (8 * a + b) + c]
           g == CHOOSE F : Eq(F)
<1>1. Eq(f)
  <2>1. i + 1 - 1 = i /\ i + 2 - 1 = i + 1 /\ i + 3 - 1 = i + 2
    OBVIOUS
  <2>2. ASSUME NEW k \in 0..3
        PROVE  f[k] = IF k = 0 THEN 0 ELSE 8 * f[k - 1] + OctalDigits[s[i + k - 1]]
    <3>1. k = 0 \/ k = 1 \/ k = 2 \/ k = 3
      OBVIOUS
    <3>2. f[0] = 0 /\ f[1] = a /\ f[2] = 8 * a + b /\ f[3] = 8 * (8 * a + b) + c
      OBVIOUS
    <3> HIDE DEF f
    <3>3. CASE k = 0
      BY <3>2, <3>3
    <3>4. CASE k = 1
      BY <2>1, <3>2, <3>4
    <3>5. CASE k = 2
      BY <2>1, <3>2, <3>5
    <3>6. CASE k = 3
      BY <2>1, <3>2, <3>6
    <3> QED
      BY <3>1, <3>3, <3>4, <3>5, <3>6
  <2> DEFINE h == [k \in 0..3 |-> IF k = 0 THEN 0 ELSE 8 * f[k - 1] + OctalDigits[s[i + k - 1]]]
  <2>3. f = [k \in 0..3 |-> f[k]] /\ h = [k \in 0..3 |-> h[k]] /\ \A k \in 0..3 : f[k] = h[k]
    <3> HIDE DEF f
    <3>1. \A k \in 0..3 : f[k] = h[k]
      BY <2>2
    <3> QED
      BY <3>1 DEF f
  <2>4. f = h
    <3> HIDE DEF f, h
    <3> QED
      BY <2>3, SameValues
  <2> QED
    BY <2>4, Zenon
<1>2. Eq(g)
  <2> HIDE DEF Eq, f
  <2> QED
    BY <1>1
<1>3. Number(s, i, 3, OctalDigits, 8) = g[3]
  BY Zenon DEF Number
<1> HIDE DEF g
<1>4. g[0] = 0
  BY <1>2
<1>5. g[1] = OctalDigits[s[i]]
  <2>1. g[1] = 8 * g[1 - 1] + OctalDigits[s[i + 1 - 1]]
    BY <1>2
  <2>2. 1 - 1 = 0 /\ i + 1 - 1 = i
    OBVIOUS
  <2> QED
    BY <1>4, <2>1, <2>2
<1>6. g[2] = 8 * g[1] + OctalDigits[s[i + 1]]
  <2>1. g[2] = 8 * g[2 - 1] + OctalDigits[s[i + 2 - 1]]
    BY <1>2
  <2>2. 2 - 1 = 1 /\ i + 2 - 1 = i + 1
    OBVIOUS
  <2> QED
    BY <2>1, <2>2
<1>7. g[3] = 8 * g[2] + OctalDigits[s[i + 2]]
  <2>1. g[3] = 8 * g[3 - 1] + OctalDigits[s[i + 3 - 1]]
    BY <1>2
  <2>2. 3 - 1 = 2 /\ i + 3 - 1 = i + 2
    OBVIOUS
  <2> QED
    BY <2>1, <2>2
<1> QED
  BY <1>3, <1>5, <1>6, <1>7

\* An escape has one character or two, and takes one place at least.
IsEscape(e) ==
  /\ e.width \in Nat /\ e.width >= 1
  /\ \/ \E a : e.text = <<a>>
     \/ \E a, b : e.text = <<a, b>>

LEMMA EscapesAre ==
  ASSUME NEW s, Len(s) \in Nat, NEW i \in 0..Len(s)
  PROVE  IsEscape(EscapeAt(s, i))
<1> DEFINE c == s[i+1]
           hex == Digits(s, i + 2, 2, HexDigits)
           octal == Digits(s, i + 1, 3, OctalDigits)
           is(text, width) == [text |-> <<text>>, width |-> width]
<1>1. \A a, w : w \in Nat /\ w >= 1 => IsEscape(is(a, w))
  BY DEF IsEscape
<1>2. IsEscape([text |-> <<92, c>>, width |-> 2])
  BY DEF IsEscape
<1>3. EscapeAt(s, i) =
        IF s[i] # 92 \/ i = Len(s) THEN is(s[i], 1)
        ELSE IF c \in DOMAIN Controls THEN is(Controls[c], 2)
        ELSE IF c \in Quotables THEN is(c, 2)
        ELSE IF c = 120 /\ hex > 0 THEN is(Number(s, i + 2, hex, HexDigits, 16), 2 + hex)
        ELSE IF c \in 48..55 THEN is(Number(s, i + 1, octal, OctalDigits, 8), 1 + octal)
        ELSE [text |-> <<92, c>>, width |-> 2]
  BY Zenon DEF EscapeAt
<1>4. ASSUME i # Len(s) PROVE hex \in Nat /\ octal \in Nat
  <2>1. /\ i + 2 \in Nat /\ i + 2 <= Len(s) + 1 /\ 2 \in Nat
        /\ i + 1 \in Nat /\ i + 1 <= Len(s) + 1 /\ 3 \in Nat
    BY <1>4
  <2>2. hex \in 0..2
    BY <2>1, DigitsAreFew
  <2>3. octal \in 0..3
    BY <2>1, DigitsAreFew
  <2> HIDE DEF hex, octal
  <2> QED
    BY <2>2, <2>3
<1> HIDE DEF c, hex, octal, is
<1>5. 1 \in Nat /\ 2 \in Nat /\ 1 >= 1 /\ 2 >= 1
  OBVIOUS
<1>6. CASE s[i] # 92 \/ i = Len(s)
  BY <1>1, <1>3, <1>5, <1>6
<1>7. CASE ~(s[i] # 92 \/ i = Len(s))
  <2>1. 2 + hex \in Nat /\ 2 + hex >= 1 /\ 1 + octal \in Nat /\ 1 + octal >= 1
    BY <1>4, <1>7
  <2> QED
    BY <1>1, <1>2, <1>3, <1>5, <1>7, <2>1
<1> QED
  BY <1>6, <1>7

DecodedFrom(f, s) ==
  \A i \in Nat : f[i] = IF i > Len(s) THEN << >>
                        ELSE EscapeAt(s, i).text \o f[i + EscapeAt(s, i).width]

LEMMA DecodeScans ==
  ASSUME NEW s, Len(s) \in Nat
  PROVE  \E f : DecodedFrom(f, s) /\ DecodeAnsiC(s) = f[1]
<1> DEFINE n == Len(s)
           at(i) == EscapeAt(s, i)
           A == {at(i).text[k] : i \in Nat, k \in Nat}
           Eq(F) == F = [i \in Nat |->
                          IF i > Len(s) THEN << >>
                          ELSE EscapeAt(s, i).text \o F[i + EscapeAt(s, i).width]]
           next == [i \in Nat |-> IF i > n THEN i + 1 ELSE i + at(i).width]
           add == [i \in Nat |-> IF i > n THEN << >> ELSE at(i).text]
<1>0. n \in Nat
  OBVIOUS
<1>1. ASSUME NEW i \in Nat, ~(i > n)
      PROVE  /\ at(i).width \in Nat /\ at(i).width >= 1
             /\ at(i).text \in Seq(A)
  <2>1. i \in 0..Len(s)
    BY <1>1
  <2>2. IsEscape(at(i))
    BY <2>1, EscapesAre
  <2>3. at(i).text[1] \in A /\ at(i).text[2] \in A
    OBVIOUS
  <2> HIDE DEF A, at
  <2>4. \/ \E a : at(i).text = <<a>>
        \/ \E a, b : at(i).text = <<a, b>>
    BY <2>2 DEF IsEscape
  <2>5. at(i).text \in Seq(A)
    <3> DEFINE t == at(i).text
    <3>1. (\E a : t = <<a>>) \/ (\E a, b : t = <<a, b>>)
      BY <2>4
    <3>2. t[1] \in A /\ t[2] \in A
      BY <2>3
    <3> HIDE DEF t
    <3>3. ASSUME \E a : t = <<a>> PROVE t \in Seq(A)
      <4>1. PICK a : t = <<a>>
        BY <3>3
      <4>2. a \in A
        BY <3>2, <4>1
      <4> QED
        BY <4>1, <4>2
    <3>4. ASSUME \E a, b : t = <<a, b>> PROVE t \in Seq(A)
      <4>1. PICK a, b : t = <<a, b>>
        BY <3>4
      <4>2. a \in A /\ b \in A
        BY <3>2, <4>1
      <4> QED
        BY <4>1, <4>2
    <3> QED
      BY <3>1, <3>3, <3>4 DEF t
  <2> QED
    BY <2>2, <2>5 DEF IsEscape
<1>2. ASSUME NEW i \in Nat
      PROVE  next[i] \in Nat /\ next[i] > i /\ add[i] \in Seq(A)
  <2> HIDE DEF n, at, A
  <2>1. CASE i > n
    <3>1. next[i] = i + 1 /\ add[i] = << >>
      BY <2>1
    <3> HIDE DEF next, add
    <3> QED
      BY <3>1
  <2>2. CASE ~(i > n)
    <3>1. next[i] = i + at(i).width /\ add[i] = at(i).text
      BY <2>2
    <3>2. at(i).width \in Nat /\ at(i).width >= 1 /\ at(i).text \in Seq(A)
      BY <1>1, <2>2
    <3> HIDE DEF next, add
    <3> QED
      BY <3>1, <3>2
  <2> QED
    BY <2>1, <2>2
<1>3. PICK f \in [Nat -> Seq(A)] : Concatenates(f, n, next, add)
  <2> HIDE DEF n, A, next, add
  <2> QED
    BY <1>0, <1>2, Concatenating
<1>4. Eq(f)
  <2> HIDE DEF A
  <2> DEFINE h == [i \in Nat |-> IF i > Len(s) THEN << >>
                                ELSE EscapeAt(s, i).text \o f[i + EscapeAt(s, i).width]]
  <2>1. ASSUME NEW i \in Nat PROVE f[i] = h[i]
    <3>1. f[i] = IF i > n THEN << >> ELSE add[i] \o f[next[i]]
      <4> HIDE DEF A, n, next, add
      <4> QED
        BY <1>3 DEF Concatenates
    <3>2. ~(i > n) => add[i] = at(i).text /\ next[i] = i + at(i).width
      <4> HIDE DEF n, at
      <4> QED
        OBVIOUS
    <3>3. h[i] = IF i > n THEN << >> ELSE at(i).text \o f[i + at(i).width]
      OBVIOUS
    <3> HIDE DEF n, next, add, at, h
    <3> QED
      BY <3>1, <3>2, <3>3
  <2>2. f = [i \in Nat |-> f[i]] /\ h = [i \in Nat |-> h[i]]
    <3>1. h = [i \in Nat |-> h[i]]
      OBVIOUS
    <3> HIDE DEF h, A
    <3> QED
      BY <1>3, <3>1
  <2>3. f = h
    <3> HIDE DEF h
    <3> QED
      BY <2>1, <2>2, SameValues
  <2> QED
    BY <2>3, Zenon
<1> HIDE DEF A, at, next, add
<1> DEFINE g == CHOOSE F : Eq(F)
<1>5. Eq(g)
  <2> HIDE DEF Eq
  <2> QED
    BY <1>4
<1>6. DecodeAnsiC(s) = g[1]
  BY DEF DecodeAnsiC
<1> HIDE DEF g
<1>7. DecodedFrom(g, s)
  BY <1>5 DEF DecodedFrom
<1> QED
  BY <1>6, <1>7

\* One character that takes some places.
Reads(c, width) == [text |-> <<c>>, width |-> width]

\* What an escape is, by the characters after the backslash.
LEMMA EscapeCases ==
  ASSUME NEW s, NEW i
  PROVE  LET c == s[i+1]
             hex == Digits(s, i + 2, 2, HexDigits)
             octal == Digits(s, i + 1, 3, OctalDigits)
         IN EscapeAt(s, i) =
              IF s[i] # 92 \/ i = Len(s) THEN Reads(s[i], 1)
              ELSE IF c \in DOMAIN Controls THEN Reads(Controls[c], 2)
              ELSE IF c \in Quotables THEN Reads(c, 2)
              ELSE IF c = 120 /\ hex > 0 THEN Reads(Number(s, i + 2, hex, HexDigits, 16), 2 + hex)
              ELSE IF c \in 48..55 THEN Reads(Number(s, i + 1, octal, OctalDigits, 8), 1 + octal)
              ELSE [text |-> <<92, c>>, width |-> 2]
BY Zenon DEF EscapeAt, Reads

LEMMA DigitsAre ==
  /\ DOMAIN Controls = {97, 98, 101, 102, 110, 114, 116, 118}
  /\ DOMAIN HexDigits = 48..57 \cup 97..102
  /\ \A d \in 48..57 : HexDigits[d] = d - 48
  /\ \A d \in 97..102 : HexDigits[d] = d - 87
  /\ \A d \in DOMAIN HexDigits : HexDigits[d] \in Nat
  /\ DOMAIN OctalDigits = 48..55
  /\ \A d \in 48..55 : /\ OctalDigits[d] = d - 48 /\ d - 48 \in Nat
                       /\ d \notin DOMAIN Controls /\ d \notin Quotables /\ d # 120
<1>1. DOMAIN Controls = {97, 98, 101, 102, 110, 114, 116, 118}
  BY DEF Controls
<1>2. DOMAIN HexDigits = 48..57 \cup 97..102
  BY DEF HexDigits
<1>3. \A d \in 48..57 : HexDigits[d] = d - 48
  BY DEF HexDigits
<1>4. \A d \in 97..102 : HexDigits[d] = d - 87
  BY DEF HexDigits
<1>5. \A d \in DOMAIN HexDigits : HexDigits[d] \in Nat
  BY <1>2, <1>3, <1>4
<1>6. DOMAIN OctalDigits = 48..55
  BY DEF OctalDigits
<1>7. \A d \in 48..55 : OctalDigits[d] = d - 48 /\ d - 48 \in Nat
  BY DEF OctalDigits
<1>8. ASSUME NEW d \in 48..55
      PROVE  d \notin DOMAIN Controls /\ d \notin Quotables /\ d # 120
  <2>1. d \notin Quotables
    BY DEF Quotables
  <2> QED
    BY <1>1, <2>1
<1> QED
  BY <1>1, <1>2, <1>3, <1>4, <1>5, <1>6, <1>7, <1>8

LEMMA HexDigitsAre ==
  ASSUME NEW v \in 0..15
  PROVE  /\ HexDigit(v) \in DOMAIN HexDigits /\ HexDigits[HexDigit(v)] = v
         /\ HexDigit(v) \in Nat
<1>1. \E d \in DOMAIN HexDigits : HexDigits[d] = v
  <2>1. CASE v <= 9
    <3>1. v + 48 \in 48..57
      BY <2>1
    <3>2. \A d \in 48..57 : d = v + 48 => HexDigits[d] = v
      <4>1. \A d \in 48..57 : HexDigits[d] = d - 48
        BY DigitsAre
      <4>2. \A d \in 48..57 : d = v + 48 => d - 48 = v
        OBVIOUS
      <4> QED
        BY <4>1, <4>2
    <3> QED
      BY <3>1, <3>2, DigitsAre
  <2>2. CASE v > 9
    <3>1. v + 87 \in 97..102
      BY <2>2
    <3>2. \A d \in 97..102 : d = v + 87 => HexDigits[d] = v
      <4>1. \A d \in 97..102 : HexDigits[d] = d - 87
        BY DigitsAre
      <4>2. \A d \in 97..102 : d = v + 87 => d - 87 = v
        OBVIOUS
      <4> QED
        BY <4>1, <4>2
    <3> QED
      BY <3>1, <3>2, DigitsAre
  <2> QED
    BY <2>1, <2>2
<1>2. HexDigit(v) \in DOMAIN HexDigits /\ HexDigits[HexDigit(v)] = v
  BY <1>1 DEF HexDigit
<1>3. \A d \in DOMAIN HexDigits : d \in Nat
  <2>1. \A d \in 48..57 \cup 97..102 : d \in Nat
    OBVIOUS
  <2> QED
    BY <2>1, DigitsAre
<1> QED
  BY <1>2, <1>3

LEMMA PlainIsRead ==
  ASSUME NEW s, NEW i, s[i] # 92
  PROVE  EscapeAt(s, i) = Reads(s[i], 1)
BY EscapeCases

LEMMA NamesAreRead ==
  ASSUME NEW s, NEW i, s[i] = 92, i # Len(s)
  PROVE  /\ s[i+1] \in DOMAIN Controls => EscapeAt(s, i) = Reads(Controls[s[i+1]], 2)
         /\ s[i+1] \in Quotables => EscapeAt(s, i) = Reads(s[i+1], 2)
<1>1. \A c \in Quotables : c \notin DOMAIN Controls
  BY DEF Quotables, Controls
<1> QED
  BY <1>1, EscapeCases

LEMMA HexIsRead ==
  ASSUME NEW s, Len(s) \in Nat, NEW i \in Nat, i + 3 <= Len(s), s[i] = 92, s[i+1] = 120,
         s[i+2] \in DOMAIN HexDigits, s[i+3] \in DOMAIN HexDigits
  PROVE  EscapeAt(s, i) = Reads(16 * HexDigits[s[i+2]] + HexDigits[s[i+3]], 4)
<1> DEFINE hex == Digits(s, i + 2, 2, HexDigits)
<1>1. s[i+1] \notin DOMAIN Controls /\ s[i+1] \notin Quotables
  BY DEF Controls, Quotables
<1>2. hex = 2
  <2>1. i + 2 + 2 - 1 <= Len(s) /\ \A k \in (i + 2)..(i + 2 + 2 - 1) : k = i + 2 \/ k = i + 3
    OBVIOUS
  <2>2. \A k \in (i + 2)..(i + 2 + 2 - 1) : s[k] \in DOMAIN HexDigits
    BY <2>1
  <2> DEFINE j == i + 2
  <2>3. j \in Nat /\ 2 \in Nat /\ j + 2 - 1 <= Len(s)
    OBVIOUS
  <2>4. AreDigits(s, j, 2, HexDigits)
    BY <2>2, <2>3 DEF AreDigits
  <2> HIDE DEF j
  <2>5. Digits(s, j, 2, HexDigits) = 2
    BY <2>3, <2>4, AllAreDigits
  <2> QED
    BY <2>5 DEF j
<1>3. \A d \in DOMAIN HexDigits : HexDigits[d] \in Nat
  BY DigitsAre
<1>4. Number(s, i + 2, 2, HexDigits, 16) = 16 * HexDigits[s[i+2]] + HexDigits[s[i+3]]
  <2>1. i + 2 \in Nat /\ i + 2 + 1 = i + 3
    OBVIOUS
  <2>2. HexDigits[s[i+2]] \in Nat /\ HexDigits[s[i+3]] \in Nat
    BY <1>3
  <2> QED
    BY <2>1, <2>2, TwoHexDigits
<1>5. i # Len(s) /\ 2 > 0 /\ 2 + 2 = 4
  OBVIOUS
<1> HIDE DEF hex
<1>6. EscapeAt(s, i) = Reads(Number(s, i + 2, hex, HexDigits, 16), 2 + hex)
  BY <1>1, <1>2, <1>5, EscapeCases DEF hex
<1> QED
  BY <1>2, <1>4, <1>5, <1>6

LEMMA OctalIsRead ==
  ASSUME NEW s, Len(s) \in Nat, NEW i \in Nat, i + 3 <= Len(s), s[i] = 92,
         s[i+1] \in 48..55, s[i+2] \in 48..55, s[i+3] \in 48..55
  PROVE  EscapeAt(s, i) = Reads(8 * (8 * (s[i+1] - 48) + (s[i+2] - 48)) + (s[i+3] - 48), 4)
<1> DEFINE octal == Digits(s, i + 1, 3, OctalDigits)
<1>1. s[i+1] \notin DOMAIN Controls /\ s[i+1] \notin Quotables /\ s[i+1] # 120
  BY DigitsAre, ZenonT(30)
<1>2. octal = 3
  <2>1. i + 1 + 3 - 1 <= Len(s)
        /\ \A k \in (i + 1)..(i + 1 + 3 - 1) : k = i + 1 \/ k = i + 2 \/ k = i + 3
    OBVIOUS
  <2>2. \A k \in (i + 1)..(i + 1 + 3 - 1) : s[k] \in DOMAIN OctalDigits
    <3>1. DOMAIN OctalDigits = 48..55
      BY DigitsAre
    <3> QED
      BY <2>1, <3>1
  <2> DEFINE j == i + 1
  <2>3. j \in Nat /\ 3 \in Nat /\ j + 3 - 1 <= Len(s)
    OBVIOUS
  <2>4. AreDigits(s, j, 3, OctalDigits)
    BY <2>2, <2>3 DEF AreDigits
  <2> HIDE DEF j
  <2>5. Digits(s, j, 3, OctalDigits) = 3
    BY <2>3, <2>4, AllAreDigits
  <2> QED
    BY <2>5 DEF j
<1>3. \A d \in 48..55 : OctalDigits[d] = d - 48 /\ d - 48 \in Nat
  BY DigitsAre, ZenonT(30)
<1>4. Number(s, i + 1, 3, OctalDigits, 8)
        = 8 * (8 * (s[i+1] - 48) + (s[i+2] - 48)) + (s[i+3] - 48)
  <2>1. i + 1 \in Nat /\ i + 1 + 1 = i + 2 /\ i + 1 + 2 = i + 3
    OBVIOUS
  <2> DEFINE a == s[i+1] - 48
             b == s[i+2] - 48
             c == s[i+3] - 48
  <2>2. /\ a \in Nat /\ OctalDigits[s[i+1]] = a
        /\ b \in Nat /\ OctalDigits[s[i+1+1]] = b
        /\ c \in Nat /\ OctalDigits[s[i+1+2]] = c
    BY <1>3, <2>1
  <2> HIDE DEF a, b, c
  <2>3. Number(s, i + 1, 3, OctalDigits, 8) = 8 * (8 * a + b) + c
    BY <2>1, <2>2, ThreeOctalDigits
  <2> QED
    BY <2>3 DEF a, b, c
<1>5. i # Len(s) /\ 1 + 3 = 4
  OBVIOUS
<1> HIDE DEF octal
<1>6. EscapeAt(s, i) = Reads(Number(s, i + 1, octal, OctalDigits, 8), 1 + octal)
  BY <1>1, <1>2, <1>5, EscapeCases DEF octal
<1> QED
  BY <1>2, <1>4, <1>5, <1>6

\* A character that was written is read, and nothing else is.
LEMMA QuotedIsRead ==
  ASSUME NEW style \in Styles, NEW c \in TextChars("ansi"),
         NEW s, Len(s) \in Nat, NEW i \in Nat,
         i + Len(Quoted(style, c)) - 1 <= Len(s),
         \A k \in 1..Len(Quoted(style, c)) : s[i + k - 1] = Quoted(style, c)[k]
  PROVE  EscapeAt(s, i) = Reads(c, Len(Quoted(style, c)))
<1> DEFINE w == Quoted(style, c)
<1>0. c \in {7, 10, 34, 39, 48, 56, 92, 97, 110, 120}
  BY DEF TextChars
<1>1. i + 1 - 1 = i /\ i + 2 - 1 = i + 1 /\ i + 3 - 1 = i + 2 /\ i + 4 - 1 = i + 3
  OBVIOUS
<1>p. i + Len(w) - 1 <= Len(s) /\ \A k \in 1..Len(w) : s[i + k - 1] = w[k]
  OBVIOUS
<1>2. CASE style = "octal"
  <2> DEFINE x == 48 + c \div 64
             y == 48 + ((c \div 8) % 8)
             z == 48 + (c % 8)
  <2>1. w = <<92, x, y, z>>
    BY <1>2 DEF Quoted
  <2>2. /\ x \in 48..55 /\ y \in 48..55 /\ z \in 48..55
        /\ 8 * (8 * (x - 48) + (y - 48)) + (z - 48) = c
    <3>1. x \in 48..55
      BY <1>0
    <3>2. y \in 48..55
      BY <1>0
    <3>3. z \in 48..55
      BY <1>0
    <3>4. x - 48 = c \div 64 /\ y - 48 = (c \div 8) % 8 /\ z - 48 = c % 8
      BY <1>0
    <3>5. 8 * (8 * (c \div 64) + ((c \div 8) % 8)) + (c % 8) = c
      BY <1>0
    <3> HIDE DEF x, y, z
    <3> QED
      BY <3>1, <3>2, <3>3, <3>4, <3>5
  <2> HIDE DEF w, x, y, z
  <2>3. Len(w) = 4 /\ s[i] = 92 /\ s[i+1] = x /\ s[i+2] = y /\ s[i+3] = z
    <3>1. Len(w) = 4 /\ w[1] = 92 /\ w[2] = x /\ w[3] = y /\ w[4] = z
      BY <2>1
    <3>2. 1 \in 1..4 /\ 2 \in 1..4 /\ 3 \in 1..4 /\ 4 \in 1..4
      OBVIOUS
    <3> QED
      BY <1>1, <1>p, <3>1, <3>2
  <2>4. i + 3 <= Len(s)
    BY <1>p, <2>3
  <2>5. EscapeAt(s, i) = Reads(8 * (8 * (x - 48) + (y - 48)) + (z - 48), 4)
    BY <2>2, <2>3, <2>4, OctalIsRead
  <2> QED
    BY <2>2, <2>3, <2>5 DEF w
<1>3. CASE style = "hex"
  <2> DEFINE x == HexDigit(c \div 16)
             y == HexDigit(c % 16)
  <2>1. w = <<92, 120, x, y>>
    BY <1>3 DEF Quoted
  <2>2. \A v \in 0..15 : HexDigit(v) \in DOMAIN HexDigits /\ HexDigits[HexDigit(v)] = v
    BY HexDigitsAre
  <2>3. c \div 16 \in 0..15 /\ c % 16 \in 0..15 /\ 16 * (c \div 16) + (c % 16) = c
    BY <1>0
  <2>4. /\ x \in DOMAIN HexDigits /\ HexDigits[x] = c \div 16
        /\ y \in DOMAIN HexDigits /\ HexDigits[y] = c % 16
    BY <2>2, <2>3
  <2> HIDE DEF w, x, y
  <2>5. Len(w) = 4 /\ s[i] = 92 /\ s[i+1] = 120 /\ s[i+2] = x /\ s[i+3] = y
    <3>1. Len(w) = 4 /\ w[1] = 92 /\ w[2] = 120 /\ w[3] = x /\ w[4] = y
      BY <2>1
    <3>2. 1 \in 1..4 /\ 2 \in 1..4 /\ 3 \in 1..4 /\ 4 \in 1..4
      OBVIOUS
    <3> QED
      BY <1>1, <1>p, <3>1, <3>2
  <2>6. i + 3 <= Len(s)
    BY <1>p, <2>5
  <2>7. EscapeAt(s, i) = Reads(16 * HexDigits[x] + HexDigits[y], 4)
    BY <2>4, <2>5, <2>6, HexIsRead, SMTT(30)
  <2> QED
    <3>1. 16 * HexDigits[x] + HexDigits[y] = c
      BY <2>3, <2>4
    <3> QED
      BY <2>5, <2>7, <3>1 DEF w
<1>4. CASE style = "name"
  <2> DEFINE names == {n \in DOMAIN Controls : Controls[n] = c}
             name == CHOOSE n \in names : TRUE
  <2>1. ASSUME NEW x, w = <<92, x>>
        PROVE  Len(w) = 2 /\ s[i] = 92 /\ s[i+1] = x /\ i # Len(s)
    <3> HIDE DEF w
    <3>1. Len(w) = 2 /\ w[1] = 92 /\ w[2] = x
      BY <2>1
    <3>2. 1 \in 1..2 /\ 2 \in 1..2
      OBVIOUS
    <3> QED
      BY <1>1, <1>p, <3>1, <3>2
  <2>2. CASE c \in Quotables
    <3>1. w = <<92, c>>
      <4>1. style # "octal" /\ style # "hex"
        BY <1>4
      <4>2. names = {}
        BY <2>2, SMTT(30) DEF Controls, Quotables
      <4> HIDE DEF name
      <4> QED
        BY <1>4, <2>2, <4>1, <4>2, Zenon DEF Quoted
    <3> HIDE DEF w
    <3>2. Len(w) = 2 /\ s[i] = 92 /\ s[i+1] = c /\ i # Len(s)
      BY <2>1, <3>1
    <3> QED
      BY <2>2, <3>2, NamesAreRead DEF w
  <2>3. CASE c \notin Quotables /\ names # {}
    <3>1. w = <<92, name>>
      BY <1>4, <2>3 DEF Quoted
    <3>2. name \in DOMAIN Controls /\ Controls[name] = c
      BY <2>3
    <3> HIDE DEF w, name
    <3>3. Len(w) = 2 /\ s[i] = 92 /\ s[i+1] = name /\ i # Len(s)
      BY <2>1, <3>1
    <3> QED
      BY <3>2, <3>3, NamesAreRead DEF w
  <2>4. CASE c \notin Quotables /\ names = {}
    <3>1. w = <<c>>
      BY <1>4, <2>4 DEF Quoted
    <3>2. c # 92
      BY <2>4 DEF Quotables
    <3> HIDE DEF w
    <3>3. Len(w) = 1 /\ s[i] = c
      <4>1. Len(w) = 1 /\ w[1] = c /\ 1 \in 1..1
        BY <3>1
      <4> QED
        BY <1>1, <1>p, <4>1
    <3> QED
      BY <3>2, <3>3, PlainIsRead DEF w
  <2> QED
    BY <2>2, <2>3, <2>4
<1> QED
  BY <1>2, <1>3, <1>4 DEF Styles

LEMMA QuotedIs ==
  ASSUME NEW style \in Styles, NEW c \in TextChars("ansi")
  PROVE  Quoted(style, c) \in Seq(Nat) /\ Len(Quoted(style, c)) >= 1
<1> DEFINE w == Quoted(style, c)
<1>0. c \in {7, 10, 34, 39, 48, 56, 92, 97, 110, 120} /\ c \in Nat
  BY DEF TextChars
<1>1. ASSUME w \in Seq(Nat), Len(w) = 1 \/ Len(w) = 2 \/ Len(w) = 4
      PROVE  w \in Seq(Nat) /\ Len(w) >= 1
  <2>1. 1 >= 1 /\ 2 >= 1 /\ 4 >= 1
    OBVIOUS
  <2> QED
    BY <1>1, <2>1
<1>2. CASE style = "octal"
  <2> DEFINE x == 48 + c \div 64
             y == 48 + ((c \div 8) % 8)
             z == 48 + (c % 8)
  <2>1. w = <<92, x, y, z>>
    BY <1>2 DEF Quoted
  <2>2. x \in Nat /\ y \in Nat /\ z \in Nat
    BY <1>0
  <2> HIDE DEF w, x, y, z
  <2> QED
    BY <1>1, <2>1, <2>2 DEF w
<1>3. CASE style = "hex"
  <2> DEFINE x == HexDigit(c \div 16)
             y == HexDigit(c % 16)
  <2>1. w = <<92, 120, x, y>>
    BY <1>3 DEF Quoted
  <2>2. c \div 16 \in 0..15 /\ c % 16 \in 0..15
    BY <1>0
  <2>3. x \in Nat /\ y \in Nat
    BY <2>2, HexDigitsAre
  <2> HIDE DEF w, x, y
  <2> QED
    BY <1>1, <2>1, <2>3 DEF w
<1>4. CASE style = "name"
  <2> DEFINE names == {n \in DOMAIN Controls : Controls[n] = c}
             name == CHOOSE n \in names : TRUE
  <2>1. CASE c \in Quotables
    <3>1. w = <<92, c>>
      <4>1. style # "octal" /\ style # "hex"
        BY <1>4
      <4>2. names = {}
        BY <2>1 DEF Controls, Quotables
      <4> HIDE DEF name
      <4> QED
        BY <1>4, <2>1, <4>1, <4>2, Zenon DEF Quoted
    <3> HIDE DEF w
    <3> QED
      BY <1>0, <1>1, <3>1 DEF w
  <2>2. CASE c \notin Quotables /\ names # {}
    <3>1. w = <<92, name>>
      BY <1>4, <2>2 DEF Quoted
    <3>2. name \in Nat
      <4>1. name \in DOMAIN Controls
        BY <2>2
      <4> HIDE DEF name
      <4> QED
        BY <4>1, DigitsAre
    <3> HIDE DEF w, name
    <3> QED
      BY <1>1, <3>1, <3>2 DEF w
  <2>3. CASE c \notin Quotables /\ names = {}
    <3>1. w = <<c>>
      BY <1>4, <2>3 DEF Quoted
    <3> HIDE DEF w
    <3> QED
      BY <1>0, <1>1, <3>1 DEF w
  <2> QED
    BY <2>1, <2>2, <2>3
<1> QED
  BY <1>2, <1>3, <1>4 DEF Styles

\* What is written in $'...' is read from there.
LEMMA QuotedTextIsRead ==
  ASSUME NEW style \in Styles, NEW t \in Seq(TextChars("ansi"))
  PROVE  DecodeAnsiC(QuoteAnsi(style, t)) = t
<1> DEFINE C == TextChars("ansi")
           n == Len(t)
           ps == [i \in DOMAIN t |-> Quoted(style, t[i])]
           q == QuoteAnsi(style, t)
<1>1. n \in Nat /\ \A i \in 1..n : t[i] \in C
  OBVIOUS
<1>2. /\ ps \in Seq(Seq(Nat)) /\ Len(ps) = n
      /\ \A i \in 1..n : ps[i] = Quoted(style, t[i])
  <2>1. DOMAIN t = 1..n
    OBVIOUS
  <2>2. \A i \in 1..n : Quoted(style, t[i]) \in Seq(Nat)
    <3> HIDE DEF n
    <3> QED
      BY <1>1, QuotedIs
  <2>3. ps = [i \in 1..n |-> Quoted(style, t[i])]
    BY <2>1
  <2> HIDE DEF n, ps
  <2>4. ps \in [1..n -> Seq(Nat)]
    BY <2>2, <2>3
  <2> QED
    BY <1>1, <2>3, <2>4
<1>3. q = FlattenSeq(ps)
  BY Zenon DEF QuoteAnsi
<1> HIDE DEF n, ps, q, C
<1>4. PICK h \in [Nat -> Seq(Nat)] :
        /\ FlattenSeq(ps) = h[1] /\ h[Len(ps) + 1] = << >> /\ Flattens(h, ps)
        /\ \A i \in 1..Len(ps) : \E pre \in Seq(Nat) : h[1] = pre \o h[i]
  BY <1>2, Flattening
<1>5. /\ q = h[1] /\ q \in Seq(Nat) /\ Len(q) \in Nat /\ h[n + 1] = << >>
      /\ \A i \in Nat : h[i] \in Seq(Nat) /\ Len(h[i]) \in Nat
  <2>1. \A i \in Nat : h[i] \in Seq(Nat) /\ Len(h[i]) \in Nat
    OBVIOUS
  <2> QED
    BY <1>2, <1>3, <1>4, <2>1
<1>6. PICK f : DecodedFrom(f, q) /\ DecodeAnsiC(q) = f[1]
  BY <1>5, DecodeScans
<1> DEFINE pos(i) == Len(q) - Len(h[i]) + 1
           G == {i \in Nat : i \in 1..(n + 1) => f[pos(i)] = SubSeq(t, i, n)}
<1>7. ASSUME NEW i \in Nat, i > n PROVE i \in G
  <2>1. CASE i = n + 1
    <3>1. pos(i) = Len(q) + 1 /\ pos(i) \in Nat /\ pos(i) > Len(q)
      <4>1. Len(h[i]) = 0
        BY <1>5, <2>1
      <4>2. \A m \in Nat : m - 0 + 1 = m + 1 /\ m + 1 \in Nat /\ m + 1 > m
        OBVIOUS
      <4>3. Len(q) - 0 + 1 = Len(q) + 1 /\ Len(q) + 1 \in Nat /\ Len(q) + 1 > Len(q)
        BY <1>5, <4>2
      <4> QED
        BY <4>1, <4>3
    <3>2. f[pos(i)] = << >>
      <4> HIDE DEF pos
      <4> QED
        BY <1>6, <3>1 DEF DecodedFrom
    <3>3. SubSeq(t, i, n) = << >>
      BY <1>1, <1>7, SubSeqEmpty
    <3> HIDE DEF pos
    <3> QED
      BY <3>2, <3>3
  <2>2. CASE i # n + 1
    <3>1. i \notin 1..(n + 1)
      BY <1>1, <1>7, <2>2
    <3> QED
      BY <3>1
  <2> QED
    BY <2>1, <2>2
<1>8. ASSUME NEW i \in 1..n, \A j \in Nat : j > i => j \in G
      PROVE  i \in G
  <2> DEFINE c == t[i]
             w == Quoted(style, c)
             p == pos(i)
  <2>1. i \in Nat /\ i + 1 \in Nat /\ i + 1 > i /\ i + 1 \in 1..(n + 1)
    BY <1>1
  <2>2. f[pos(i + 1)] = SubSeq(t, i + 1, n)
    <3> HIDE DEF pos
    <3> QED
      BY <1>8, <2>1
  <2>3. c \in TextChars("ansi") /\ w \in Seq(Nat) /\ Len(w) >= 1 /\ Len(w) \in Nat
    <3>1. c \in TextChars("ansi")
      BY <1>1 DEF C
    <3> HIDE DEF c
    <3>2. w \in Seq(Nat) /\ Len(w) >= 1
      BY <3>1, QuotedIs
    <3> HIDE DEF w
    <3> QED
      BY <3>1, <3>2
  <2>4. h[i] = w \o h[i + 1]
    <3>1. h[i] = ps[i] \o h[i + 1]
      BY <1>2, <1>4 DEF Flattens
    <3> QED
      BY <1>2, <3>1
  <2>5. PICK pre \in Seq(Nat) : q = pre \o h[i]
    BY <1>2, <1>4, <1>5
  <2> HIDE DEF c, w
  <2>6. /\ p \in Nat /\ p >= 1 /\ p + Len(w) - 1 <= Len(q)
        /\ p + Len(w) = pos(i + 1)
        /\ \A k \in 1..Len(w) : q[p + k - 1] = w[k]
    <3> DEFINE rest == h[i + 1]
    <3>1. rest \in Seq(Nat)
      BY <1>5, <2>1
    <3>2. q = pre \o (w \o rest) /\ h[i] = w \o rest
      BY <2>4, <2>5
    <3> HIDE DEF rest
    <3>3. Stands(q, w, rest)
      BY <2>3, <3>1, <3>2, PartsStand
    <3> QED
      BY <3>2, <3>3, Zenon DEF Stands, rest
  <2> HIDE DEF p
  <2>7. EscapeAt(q, p) = Reads(c, Len(w))
    BY <1>5, <2>3, <2>6, QuotedIsRead DEF w
  <2>8. f[p] = <<c>> \o f[p + Len(w)]
    <3>1. ~(p > Len(q))
      BY <1>5, <2>3, <2>6
    <3>2. EscapeAt(q, p).text = <<c>> /\ EscapeAt(q, p).width = Len(w)
      BY <2>7 DEF Reads
    <3>3. f[p] = EscapeAt(q, p).text \o f[p + EscapeAt(q, p).width]
      BY <1>6, <2>6, <3>1 DEF DecodedFrom
    <3> QED
      BY <3>2, <3>3
  <2>9. SubSeq(t, i, n) = <<c>> \o SubSeq(t, i + 1, n)
    <3>1. i \in 1..Len(t) /\ n \in i..Len(t)
      BY <1>1 DEF n
    <3> QED
      BY <3>1, SubSeqRecursiveFirst DEF c
  <2>10. f[p] = SubSeq(t, i, n)
    <3> HIDE DEF pos
    <3> QED
      BY <2>2, <2>6, <2>8, <2>9
  <2> QED
    BY <2>1, <2>10 DEF p
<1>9. 1 \in G
  <2>1. \A i \in Nat \ {0} : i \in G
    <3> HIDE DEF G
    <3> QED
      BY <1>1, <1>7, <1>8, CountingDown
  <2> HIDE DEF G
  <2> QED
    BY <2>1
<1>10. f[1] = SubSeq(t, 1, n)
  <2>1. pos(1) = 1
    BY <1>5
  <2>2. 1 \in 1..(n + 1)
    BY <1>1
  <2> QED
    BY <1>9, <2>1, <2>2
<1>11. SubSeq(t, 1, n) = t
  BY SubSeqFull DEF n
<1> QED
  BY <1>6, <1>10, <1>11 DEF q

LEMMA TextsTyped ==
  ASSUME WordsInv, Scan = "text"
  PROVE  Name \in TextKinds /\ argv \in Seq(TextChars(Name))
<1>1. Name \in TextKinds
  BY DEF WordsInv, Tools, Scan, Name
<1>2. Words = TextChars(Name)
  BY <1>1 DEF Words, TextKinds
<1> QED
  BY <1>1, <1>2 DEF WordsInv

LEMMA LinesReadAsGiven == WordsInv => TextIsWhatBashGives
<1> SUFFICES ASSUME WordsInv, Scan = "text" PROVE TextIsWhatBashGives
  BY DEF TextIsWhatBashGives
<1>1. Name \in TextKinds /\ argv \in Seq(TextChars(Name))
  BY TextsTyped
<1>2. /\ IsSource(Name, argv) /\ Classify(Name, argv) # "unsafe" =>
           \/ IsConstant(Name, argv) /\ ResolveText(Name, argv) = BashText(Name, argv)
           \/ Name = "word" /\ argv[1] = 126
      /\ Name = "word" => ResolveText(Name, argv) = BashText(Name, argv) \/ 10 \in ToSet(argv)
  BY <1>1, BashReadsTheSame
<1>3. ASSUME Name = "ansi", NEW style \in Styles
      PROVE  DecodeAnsiC(QuoteAnsi(style, argv)) = argv
  BY <1>1, <1>3, QuotedTextIsRead
<1> QED
  BY <1>2, <1>3 DEF TextIsWhatBashGives

\* Whatever a word is made of: one that is not marked unsafe has the text that
\* bash gives it (resolve_node_text), unescape_bareword reads a word as bash does,
\* and decode_ansi_c_string reads back what can be written in $'...'.
THEOREM TextIsReadAsGiven == Spec => []TextIsWhatBashGives
BY WordsType, LinesReadAsGiven, PTL

-----------------------------------------------------------------------------
(* What the judge is asked. *)

LEMMA LinesAskTruly == WordsInv => JudgeIsAskedTruly
<1> SUFFICES ASSUME WordsInv PROVE JudgeIsAskedTruly
  OBVIOUS
<1>1. ASSUME Scan = "prompt" PROVE PromptIsWhole
  <2>1. Name \in DOMAIN Contexts
    BY <1>1 DEF WordsInv, Tools, Scan, Name
  <2>2. argv \in Seq(PromptWords)
    <3>1. Name \in {"none", "blank", "some"}
      BY <2>1 DEF Contexts
    <3>2. Words = PromptWords
      BY <1>1, <3>1 DEF Words
    <3> QED
      BY <3>2 DEF WordsInv
  <2>3. PromptSays(argv, Contexts[Name])
    BY <2>1, <2>2, ContextsWritten, PromptsAreWhole
  <2> QED
    BY <2>3, Zenon DEF PromptSays, PromptIsWhole, Filled, Given
<1>2. ASSUME Scan = "request", IsOrderly(argv) PROVE RequestIsWhole
  <2>1. argv \in Seq(RequestWords)
    <3>1. Name \in DOMAIN Requests
      BY <1>2 DEF WordsInv, Tools, Scan, Name
    <3>2. Name \in {"both", "unsafe", "traced", "alone", "broken"}
      BY <3>1 DEF Requests
    <3>3. Words = RequestWords
      BY <1>2, <3>2 DEF Words
    <3> QED
      BY <3>3 DEF WordsInv
  <2>2. RequestSays(argv, Requests[Name])
    <3>1. Settled(argv)
      BY <1>2, <2>1, OrderlyIsSettled DEF IsOrderly, WantsValue
    <3> QED
      BY <2>1, <3>1, RequestsAreWhole
  <2> QED
    BY <2>2, Zenon DEF RequestSays, RequestIsWhole, Expanded
<1> QED
  BY <1>1, <1>2 DEF JudgeIsAskedTruly

\* Whatever the project's prompt and the command of a provider are made of: the
\* prompt holds the code and each piece that was written in its place
\* (build_prompt_from_template), and each provider that run launches reads it as
\* its last operand, its own operands and the settings that apply unchanged.
THEOREM JudgeIsAsked == Spec => []JudgeIsAskedTruly
BY WordsType, LinesAskTruly, PTL
================================================================================
