----------------------------- MODULE WrapperArgs -----------------------------
(***************************************************************************)
(* The scanners that look for the command within a command: transparent    *)
(* wrappers, env, find -exec, xargs (src/src/parser/wrappers.rs), shells   *)
(* with -c (shell_c.rs) and exec, stdbuf, unbuffer                         *)
(* (src/src/policy/descriptive_asks.rs).                                   *)
(*                                                                         *)
(* A word is a record: t is what the tool's tables make of the word, m is  *)
(* the ArgMeta the parser gave it.  An argv is a sequence of words, and    *)
(* what a scanner finds is an index into it, 0 if it finds nothing.        *)
(*                                                                         *)
(*   value   an option of the tool's table that takes the next word        *)
(*   joined  the same with =VALUE, glued: a short one with its value       *)
(*   bool    an option of the table without a value                        *)
(*   query   -v and -V of the builtin command                              *)
(*   sub     the wrapper's subcommand (uv run)                             *)
(*   unknown any other word with a leading dash; dash: a single one        *)
(*   assign  NAME=VALUE, word: anything else                               *)
(***************************************************************************)
EXTENDS Naturals, Sequences, FiniteSets

Plain(t) == [t |-> t, m |-> "plain"]

-----------------------------------------------------------------------------
(* Transparent wrappers. *)

\* WRAPPERS: the words each wrapper's tables know, and the words it takes
\* before its command (timeout's duration).
Wrappers == [
  timeout |-> [knows |-> {"value", "joined", "glued", "bool"}, skip |-> 1],
  nice    |-> [knows |-> {"value", "joined", "glued"}, skip |-> 0],
  nohup   |-> [knows |-> {}, skip |-> 0],
  strace  |-> [knows |-> {"value", "joined", "glued", "bool"}, skip |-> 0],
  time    |-> [knows |-> {"bool"}, skip |-> 0],
  uv      |-> [knows |-> {"sub", "value", "joined", "glued", "bool"},
               skip |-> 0],
  command |-> [knows |-> {"bool", "query"}, skip |-> 0],
  builtin |-> [knows |-> {}, skip |-> 0]]

WrapperWords(tool) ==
  {Plain(t) : t \in Wrappers[tool].knows
                     \cup {"dashes", "unknown", "dash", "assign", "word"}}

\* Mutant: an option that is not in the table takes the next word, too.
OptionWidthGreedy(t) == IF t = "unknown" THEN 2
                        ELSE IF t = "value" THEN 2
                        ELSE IF t \in {"joined", "glued", "bool", "query"} THEN 1
                        ELSE 0

\* How many words an option takes; 0 ends the options.
OptionWidth(t) == CASE t = "value" -> 2
                    [] t \in {"joined", "glued", "bool", "query", "unknown"} -> 1
                    [] OTHER -> 0

AfterFlags(argv, start) ==
  LET F[i \in Nat] == IF i > Len(argv) THEN i
                      ELSE IF argv[i].t = "dashes" THEN i + 1
                      ELSE IF OptionWidth(argv[i].t) = 0 THEN i
                      ELSE F[i + OptionWidth(argv[i].t)]
  IN F[start]

AfterAssignments(argv, start) ==
  LET F[i \in Nat] == IF i <= Len(argv) /\ argv[i].t = "assign" THEN F[i + 1]
                      ELSE i
  IN F[start]

Existing(argv, i) == IF i <= Len(argv) THEN i ELSE 0

\* unwrap_transparent: the index of the inner command.
InnerCommand(tool, argv) ==
  LET sub == tool = "uv"
      flags == AfterFlags(argv, IF sub THEN 2 ELSE 1)
  IN IF \/ sub /\ (argv = << >> \/ argv[1].t # "sub")
        \/ tool = "command" /\ argv # << >> /\ argv[1].t = "query"
     THEN 0
     ELSE Existing(argv, AfterAssignments(argv, flags + Wrappers[tool].skip))

\* The NAME=VALUE words the inner command gets as assignments of its own.
CollectedAssignments(tool, argv) ==
  LET from == AfterFlags(argv, IF tool = "uv" THEN 2 ELSE 1)
              + Wrappers[tool].skip
  IN {i \in from..(InnerCommand(tool, argv) - 1) : argv[i].t = "assign"}

-----------------------------------------------------------------------------
(* env.  name and badname are operands of -u, whose names must be static;  *)
(* u_name and u_bad the joined forms; hidden words come from expansions.   *)

EnvWords == {Plain(t) : t \in {"-i", "-0", "-u", "u_name", "u_bad", "dashes",
                               "unknown", "assign", "word"}}
            \cup {[t |-> t, m |-> "unsafe"] : t \in {"unknown", "assign", "word"}}

\* classify_env_invocation
EnvOptions(argv) ==
  LET opaque == [at |-> 0, null |-> FALSE, opaque |-> TRUE]
      End(i, null) == [at |-> i, null |-> null, opaque |-> FALSE]
      IsName(i) == /\ i <= Len(argv)
                   /\ argv[i].t = "word"
                   /\ argv[i].m # "unsafe"
      F[x \in Nat \X BOOLEAN] ==  \* a word, and whether -0 was before it
        LET i == x[1]
            null == x[2]
        IN IF i > Len(argv) THEN End(i, null)
           ELSE IF argv[i].t = "dashes" THEN End(i + 1, null)
           ELSE IF argv[i].t \in {"unknown", "u_bad"} THEN opaque
           ELSE IF argv[i].t \in {"-i", "u_name"} THEN F[<<i + 1, null>>]
           ELSE IF argv[i].t = "-0" THEN F[<<i + 1, TRUE>>]
           ELSE IF argv[i].t # "-u" THEN End(i, null)
           ELSE IF IsName(i + 1) THEN F[<<i + 2, null>>] ELSE opaque
  IN F[<<1, FALSE>>]

EnvInvocation(argv) ==
  LET options == EnvOptions(argv)
      at == AfterAssignments(argv, options.at)
  IN IF options.opaque THEN [kind |-> "opaque", at |-> 0]
     ELSE IF at > Len(argv) THEN [kind |-> "dump", at |-> 0]
     ELSE IF options.null \/ argv[at].m = "unsafe" THEN [kind |-> "opaque", at |-> 0]
     ELSE [kind |-> "executable", at |-> at]

-----------------------------------------------------------------------------
(* find and xargs. *)

FindWords == {Plain(t) : t \in {"-exec", ";", "+", "{}", "word"}}

\* extract_find_exec: for each -exec its command and the words given to it.
FindExec(argv) ==
  LET End(i) == IF \E j \in i..Len(argv): argv[j].t \in {";", "+"}
                THEN CHOOSE j \in i..Len(argv):
                       /\ argv[j].t \in {";", "+"}
                       /\ \A k \in i..(j - 1): argv[k].t \notin {";", "+"}
                ELSE Len(argv) + 1
      F[i \in Nat] == IF i > Len(argv) THEN {}
                      ELSE IF argv[i].t # "-exec" THEN F[i + 1]
                      ELSE LET e == End(i + 1) IN
                           (IF e > i + 1 THEN {<<i + 1, e - 1>>} ELSE {})
                           \cup F[e + 1]
  IN F[1]

XargsWords == {Plain(t) : t \in {"value", "bool", "unknown", "word"}}

\* extract_xargs_command
XargsCommand(argv) ==
  LET F[i \in Nat] == IF i > Len(argv) THEN 0
                      ELSE IF argv[i].t = "value" THEN F[i + 2]
                      ELSE IF argv[i].t \in {"bool", "unknown"} THEN F[i + 1]
                      ELSE i
  IN F[1]

-----------------------------------------------------------------------------
(* Shells with -c, and sg, which takes a group first. *)

Shells == [bash |-> [before |-> 0, knows |-> {"value", "joined", "bool"}],
           sh   |-> [before |-> 0, knows |-> {"bool"}],
           sg   |-> [before |-> 1, knows |-> {"bool"}]]

ShellWords(tool) ==
  {Plain(t) : t \in Shells[tool].knows \cup {"-c", "unknown", "word"}}
  \cup {[t |-> "word", m |-> m] : m \in {"raw", "safe", "unsafe"}}
  \cup {[t |-> "bool", m |-> "raw"]}

\* unwrap_shell_c: nothing (a shell without arguments), the index of a string
\* that is parsed as a command line, or opaque.
ShellBody(tool, argv) ==
  LET F[i \in Nat] == IF i > Len(argv) THEN i
                      ELSE IF argv[i].t = "value" THEN F[i + 2]
                      ELSE IF argv[i].t \in {"bool", "joined"} THEN F[i + 1]
                      ELSE i
      i == F[Shells[tool].before + 1]
      opaque == [kind |-> "opaque", at |-> 0]
  IN CASE i > Len(argv) -> [kind |-> "none", at |-> 0]
       [] i <= Len(argv) /\ argv[i].t # "-c" -> opaque
       [] i = Len(argv) -> opaque
       [] OTHER -> IF argv[i+1].m \in {"raw", "safe"}
                   THEN [kind |-> "statement", at |-> i + 1] ELSE opaque

-----------------------------------------------------------------------------
(* exec, stdbuf and unbuffer, which the policy looks through for gh. *)

Launchers == [exec |-> {"bool", "value", "glued"},
              stdbuf |-> {"value", "joined", "glued"},
              unbuffer |-> {"bool"}]

LauncherWords(tool) ==
  {Plain(t) : t \in Launchers[tool] \cup {"dashes", "unknown", "word"}}

\* wrapper_command_index
LauncherCommand(argv) ==
  LET F[i \in Nat] == IF i > Len(argv) THEN 0
                      ELSE IF argv[i].t = "dashes" THEN Existing(argv, i + 1)
                      ELSE IF argv[i].t = "value" THEN F[i + 2]
                      ELSE IF argv[i].t \in {"bool", "glued", "joined"} THEN F[i + 1]
                      ELSE IF argv[i].t = "unknown" THEN 0
                      ELSE i
  IN F[1]

-----------------------------------------------------------------------------
(* What the tools themselves do with an argv.  Options that longline does  *)
(* not know may take a value or not: a reading is the set of those that do. *)

Dashed == {"value", "joined", "glued", "bool", "query", "unknown", "dashes",
           "dash", "-i", "-0", "-u", "u_name", "u_bad", "-c"}

\* An option's value is taken not to start with a dash itself.
Readings(argv) == SUBSET {i \in DOMAIN argv : /\ argv[i].t = "unknown"
                                              /\ i < Len(argv)
                                              /\ argv[i+1].t \notin Dashed}

\* The first word that is neither an option nor an option's value.
FirstOperand(argv, start, taking) ==
  LET F[i \in Nat] ==
        IF i > Len(argv) THEN i
        ELSE IF argv[i].t = "dashes" THEN i + 1
        ELSE IF argv[i].t \in {"value", "-u"} \/ i \in taking THEN F[i + 2]
        ELSE IF argv[i].t \in Dashed \ {"dash", "-c"} THEN F[i + 1]
        ELSE i
  IN F[start]

\* Assignments before a command are the command's, as for env.
RunsAt(tool, argv, taking) ==
  LET start == IF tool = "uv" THEN 2 ELSE 1
      skip == IF tool \in DOMAIN Wrappers THEN Wrappers[tool].skip ELSE 0
      operand == FirstOperand(argv, start, taking) + skip
  IN Existing(argv, IF tool \in DOMAIN Wrappers \cup {"env"}
                    THEN AfterAssignments(argv, operand) ELSE operand)

\* find ends a command at ; or at a + that follows {}.
FindRuns(argv) ==
  LET Ends(j) == \/ argv[j].t = ";"
                 \/ argv[j].t = "+" /\ argv[j-1].t = "{}"
      F[i \in Nat] ==
        IF i > Len(argv) THEN {}
        ELSE IF argv[i].t # "-exec" THEN F[i + 1]
        ELSE LET ends == {j \in (i + 2)..Len(argv) : Ends(j)}
                 e == CHOOSE j \in ends: \A k \in ends: j <= k
             IN IF ends = {} THEN {} ELSE {<<i + 1, e - 1>>} \cup F[e + 1]
  IN F[1]

\* A shell goes on reading options after -c; its command string is the first
\* operand after all of them.
ShellRuns(tool, argv) ==
  LET F[x \in Nat \X BOOLEAN] ==  \* a word, and whether -c was before it
        LET i == x[1]
            c == x[2]
        IN IF i > Len(argv) THEN [at |-> 0, c |-> c]
           ELSE IF argv[i].t = "-c" THEN F[<<i + 1, TRUE>>]
           ELSE IF argv[i].t = "value" THEN F[<<i + 2, c>>]
           ELSE IF argv[i].t \in {"bool", "joined", "unknown"} THEN F[<<i + 1, c>>]
           ELSE [at |-> i, c |-> c]
      run == F[<<Shells[tool].before + 1, FALSE>>]
  IN IF run.c THEN run.at ELSE 0

=============================================================================
