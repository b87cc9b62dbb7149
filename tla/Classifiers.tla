----------------------------- MODULE Classifiers -----------------------------
(***************************************************************************)
(* The classifiers that read the words of one command:                     *)
(* src/src/policy/gh_classifier.rs, set_forms.rs, sensitive_env.rs,        *)
(* redirects.rs and value_safety.rs.                                       *)
(*                                                                         *)
(* A word is a record of its text t and its ArgMeta m.  Texts stand for    *)
(* classes: "-x" is any flag the tables do not name, "view" any reading    *)
(* subcommand, "edit" any other one, "pr" any family the allowlists had    *)
(* before the classifier, "release" any that it added.                     *)
(***************************************************************************)
EXTENDS Naturals, SequencesExt, TLC

Word(t) == [t |-> t, m |-> "plain"]
Texts(argv) == [i \in DOMAIN argv |-> argv[i].t]
HasUnsafe(argv) == \E i \in DOMAIN argv: argv[i].m = "unsafe"

-----------------------------------------------------------------------------
(* gh.  How a command is invoked: by the bare name, without assignments    *)
(* and redirects ("bare"), otherwise ("dressed"), or within a wrapper      *)
(* ("extra").                                                              *)

Manners == {"bare", "dressed", "extra"}

GhFlags == {"-R", "--repo=", "--hostname", "-x", "-t"}
GhWords == {Word(t) : t \in GhFlags \cup {"pr", "release", "auth", "status",
                                          "view", "edit"}}
GhFamilies == {"pr", "release", "auth", "status"}

\* argv_without_top_level_value_flags
WithoutValueFlags(argv) ==
  LET F[i \in Nat] ==
        IF i > Len(argv) THEN << >>
        ELSE IF argv[i].t \in {"-R", "--hostname"} THEN F[i + 2]
        ELSE IF argv[i].t = "--repo=" THEN F[i + 1]
        ELSE <<argv[i].t>> \o F[i + 1]
  IN F[1]

\* first_subcommand_token, as an index
SubcommandAt(tokens) == SelectInSeq(tokens, LAMBDA t: t \notin GhFlags)

\* Mutant: the shape is looked for past flags.
HasShapeAnywhere(argv, family, shape) ==
  LET tokens == SelectSeq(WithoutValueFlags(argv), LAMBDA t: t \notin GhFlags)
  IN Len(tokens) > 1 /\ tokens[1] = family /\ tokens[2] = shape

\* classify_simple_shape: the word right after the subcommand is the shape.
HasShape(argv, family, shape) ==
  LET tokens == WithoutValueFlags(argv)
      at == SubcommandAt(tokens)
  IN at # 0 /\ at < Len(tokens) /\ tokens[at] = family /\ tokens[at+1] = shape

\* classify_gh, but for gh api
GhReads(how, argv) ==
  LET tokens == WithoutValueFlags(argv)
      at == SubcommandAt(tokens)
  IN /\ "--hostname" \notin ToSet(Texts(argv))
     /\ at # 0
     /\ \/ HasShape(argv, "pr", "view") \/ HasShape(argv, "pr", "status")
        \/ "-t" \notin ToSet(Texts(argv)) /\ HasShape(argv, "auth", "status")
        \/ how = "bare" /\ HasShape(argv, "release", "view")
        \/ how = "bare" /\ tokens[at] = "status"

\* What gh runs: its first operands.  A flag that longline does not know may
\* take the next word, if that is no flag.
GhReadings(argv) == SUBSET {i \in DOMAIN argv : /\ argv[i].t = "-x"
                                                /\ i < Len(argv)
                                                /\ argv[i+1].t \notin GhFlags}
GhRuns(argv, taking) ==
  LET F[i \in Nat] ==
        IF i > Len(argv) THEN << >>
        ELSE IF argv[i].t \in {"-R", "--hostname"} \/ i \in taking THEN F[i + 2]
        ELSE IF argv[i].t \in GhFlags THEN F[i + 1]
        ELSE <<argv[i].t>> \o F[i + 1]
  IN F[1]
\* The word status, which longline takes for the subcommand, may be the value
\* of the flag in front of it.
StatusTaken(argv, taking) ==
  LET tokens == WithoutValueFlags(argv)
      at == SubcommandAt(tokens)
  IN at # 0 /\ tokens[at] = "status" /\ \E i \in taking: argv[i+1].t = "status"
\* A family alone prints its help.
OnlyReads(run) == \/ Len(run) < 2 \/ run[1] \notin GhFamilies
                  \/ run[1] = "status"
                  \/ run[2] \in {"view", "status"}

-----------------------------------------------------------------------------
(* gh api.  The words come after the word api. *)

ApiFlags == {"-X", "--method", "--method=POST", "--method=GET", "-XPOST",
             "-iXPOST", "-f", "--jq", "--cache", "-x"}
ApiWords == {Word(t) : t \in ApiFlags \cup {"GET", "POST", "endpoint"}}
            \cup {[t |-> "endpoint", m |-> "unsafe"]}

\* collect_api_methods
ApiMethods(argv) ==
  LET F[i \in Nat] ==
        IF i > Len(argv) THEN {}
        ELSE IF argv[i].t \in {"-X", "--method"}
             THEN {IF i < Len(argv) THEN argv[i+1].t ELSE ""} \cup F[i + 2]
        ELSE IF argv[i].t = "--method=POST" THEN {"POST"} \cup F[i + 1]
        ELSE IF argv[i].t = "--method=GET" THEN {"GET"} \cup F[i + 1]
        ELSE F[i + 1]
  IN F[1]

\* has_api_endpoint
HasEndpoint(argv) ==
  LET F[i \in Nat] ==
        IF i > Len(argv) THEN FALSE
        ELSE IF argv[i].t \in {"-X", "--method", "--jq", "--cache"} THEN F[i + 2]
        ELSE IF argv[i].t \in ApiFlags THEN F[i + 1]
        ELSE TRUE
  IN F[1]

\* argv_has_short_body_field_flag and argv_has_any_long_flag
HasBody(argv) == "-f" \in ToSet(Texts(argv))
HasLong(argv, flag) == flag \in ToSet(Texts(argv))

\* classify_gh_api
ApiReads(how, argv) ==
  /\ how = "bare"
  /\ ~HasUnsafe(argv)
  /\ HasEndpoint(argv)
  /\ ApiMethods(argv) \subseteq {"GET"}
  /\ "-XPOST" \notin ToSet(Texts(argv))
  /\ ~HasLong(argv, "--cache") /\ ~HasBody(argv)

\* What of a request is given, in its order: methods, and "" for fields.
ApiGiven(argv, taking) ==
  LET F[i \in Nat] ==
        IF i > Len(argv) THEN << >>
        ELSE IF argv[i].t \in {"-X", "--method"}
             THEN IF i < Len(argv) THEN <<argv[i+1].t>> \o F[i + 2] ELSE << >>
        ELSE IF argv[i].t \in {"--method=POST", "-XPOST", "-iXPOST"}
             THEN <<"POST">> \o F[i + 1]
        ELSE IF argv[i].t = "--method=GET" THEN <<"GET">> \o F[i + 1]
        ELSE IF argv[i].t = "-f" THEN <<"">> \o F[i + 2]
        ELSE IF argv[i].t \in {"--jq", "--cache"} \/ i \in taking THEN F[i + 2]
        ELSE F[i + 1]
  IN F[1]

\* The method of gh's request: the last one given, POST for a request with
\* fields, GET otherwise.
ApiSends(argv, taking) ==
  LET given == ApiGiven(argv, taking)
      last == SelectLastInSeq(given, LAMBDA m: m # "")
  IN IF last # 0 THEN given[last] ELSE IF given # << >> THEN "POST" ELSE "GET"
ApiReadings(argv) == SUBSET {i \in DOMAIN argv : /\ argv[i].t = "-x"
                                                 /\ i < Len(argv)
                                                 /\ argv[i+1].t \notin ApiFlags}

-----------------------------------------------------------------------------
(* set and setopt. *)

Clusters == [t \in {"-e", "-a", "+a", "-o", "-eo", "-oe", "-ek"} |->
               CASE t = "-e" -> <<"e">>
                 [] t \in {"-a", "+a"} -> <<"a">>
                 [] t = "-o" -> <<"o">>
                 [] t = "-eo" -> <<"e", "o">>
                 [] t = "-oe" -> <<"o", "e">>
                 [] t = "-ek" -> <<"e", "k">>]
SetWords == {Word(t) : t \in DOMAIN Clusters
                        \cup {"--", "-", "pipefail", "allexport", "ALL_EXPORT"}}
            \cup {[t |-> "pipefail", m |-> "unsafe"]}
Normalized(t) == IF t = "ALL_EXPORT" THEN "allexport" ELSE t
Signed == DOMAIN Clusters \cup {"--", "-"}

\* set_o_name_ok
NameIsBenign(t) == t \notin Signed
                   /\ Normalized(t) \notin {"allexport", "keyword", "posix"}

\* classify_set
SetIsBenign(argv) ==
  LET F[i \in Nat] ==
        IF i > Len(argv) THEN TRUE
        ELSE IF argv[i].t \notin DOMAIN Clusters THEN FALSE
        ELSE LET letters == Clusters[argv[i].t]
             IN IF ToSet(letters) \cap {"a", "k"} # {} THEN FALSE
                ELSE IF "o" \notin ToSet(letters) THEN F[i + 1]
                ELSE IF /\ Last(letters) = "o"
                        /\ i < Len(argv) /\ NameIsBenign(argv[i+1].t)
                     THEN F[i + 2] ELSE FALSE
  IN argv # << >> /\ ~HasUnsafe(argv) /\ F[1]

\* classify_setopt
SetoptIsBenign(argv) ==
  /\ ~HasUnsafe(argv)
  /\ \A i \in DOMAIN argv: /\ argv[i].t \notin Signed
                           /\ Normalized(argv[i].t) \notin {"allexport",
                                                            "posixbuiltins"}

\* What the shell enables: letters, and the names that -o takes; an -o that
\* is followed by another option, or by nothing, takes none.
SetEnables(argv) ==
  LET F[i \in Nat] ==
        IF i > Len(argv) \/ argv[i].t \notin DOMAIN Clusters THEN {}
        ELSE LET letters == ToSet(Clusters[argv[i].t])
                 named == "o" \in letters /\ i < Len(argv)
                          /\ argv[i+1].t \notin Signed
             IN letters \cup (IF named THEN {argv[i+1].t} ELSE {})
                \cup F[IF named THEN i + 2 ELSE i + 1]
  IN F[1]
Exports == {"a", "k", "allexport", "ALL_EXPORT"}

-----------------------------------------------------------------------------
(* Assignments of sensitive variables, by a prefix, by read, by printf -v. *)

AssignmentWords == {[t |-> t, m |-> m] :
                      t \in {"PATH=x", "EDITOR=x", "EDITOR=true", "v=x"},
                      m \in {"plain", "unsafe"}}
ReadWords == {Word(t) : t \in {"-a", "-r", "PATH", "PATH[0]", "v"}}
PrintfWords == {Word(t) : t \in {"-v", "-vPATH", "-vv", "--", "-y", "PATH",
                                 "v", "fmt"}}

\* is_sensitive_var, with the subscript stripped
SensitiveVariable(t) == t \in {"PATH", "PATH[0]"}

\* is_safe_program_value
ShellNoop(w) == w.t = "EDITOR=true" /\ w.m # "unsafe"
\* classify_assignment
SensitiveAssignment(w) == w.t # "v=x" /\ ~ShellNoop(w)

\* printf_v_target: the operand of the first -v before the format.
PrintfTarget(argv) ==
  LET F[i \in Nat] ==
        IF i > Len(argv) THEN ""
        ELSE IF argv[i].t = "-v" THEN IF i < Len(argv) THEN argv[i+1].t ELSE ""
        ELSE IF argv[i].t = "-vPATH" THEN "PATH"
        ELSE IF argv[i].t = "-vv" THEN "v"
        ELSE IF argv[i].t = "-y" THEN F[i + 1]
        ELSE ""
  IN F[1]

\* classify_sensitive_env
AsksOfEnv(tool, argv) ==
  CASE tool = "assignments" -> \E i \in DOMAIN argv: SensitiveAssignment(argv[i])
    [] tool = "read" -> \E i \in DOMAIN argv: SensitiveVariable(argv[i].t)
    [] tool = "printf" -> SensitiveVariable(PrintfTarget(argv))

\* Of a variable's assignments the last one holds.
SetsSensitive(argv) ==
  \/ \E i \in DOMAIN argv: argv[i].t = "PATH=x"
  \/ LET at == SelectLastInSeq(argv, LAMBDA w: w.t \in {"EDITOR=x", "EDITOR=true"})
     IN at # 0 /\ (argv[at].t = "EDITOR=x" \/ argv[at].m = "unsafe")

\* The variable that printf sets: -v may be given again, the last one holds.
PrintfSets(argv) ==
  LET F[i \in Nat] ==
        IF i > Len(argv) THEN << >>
        ELSE IF argv[i].t = "-v" /\ i < Len(argv) THEN <<argv[i+1].t>> \o F[i + 2]
        ELSE IF argv[i].t = "-vPATH" THEN <<"PATH">> \o F[i + 1]
        ELSE IF argv[i].t = "-vv" THEN <<"v">> \o F[i + 1]
        ELSE << >>
  IN IF F[1] = << >> THEN "" ELSE Last(F[1])

-----------------------------------------------------------------------------
(* Redirects.  Here a word is a redirect; its descriptor may be left out.  *)

RedirectWords ==
  {w \in [fd : {"", "1", "2"}, op : {"write", "dup", "read"},
          target : {"null", "file", "1", "2"}] :
     w.target \in CASE w.op = "write" -> {"null", "file"}
                    [] w.op = "dup" -> {"null", "1", "2"}
                    [] w.op = "read" -> {"file"}}

FdOf(r) == IF r.fd # "" THEN r.fd ELSE IF r.op = "read" THEN "0" ELSE "1"

\* redirects_discard_all_output, and its fd_devnull before a redirect
ToNull(redirects, i) == {FdOf(redirects[j]) : j \in 1..(i - 1)}
DiscardsOutput(redirects) ==
  \/ redirects = << >>
  \/ /\ \A i \in DOMAIN redirects :
          \/ redirects[i].op \in {"write", "dup"} /\ redirects[i].target = "null"
          \/ redirects[i].op = "dup" /\ redirects[i].target \in ToNull(redirects, i)
     /\ ToNull(redirects, Len(redirects) + 1) \cap {"1", "2"} # {}

\* Where the descriptors lead once the shell has applied them in order.
Sinks(redirects) ==
  LET F[i \in 0..Len(redirects)] ==
        IF i = 0 THEN [fd \in {"1", "2"} |-> "terminal"]
        ELSE LET r == redirects[i]
                 before == F[i - 1]
             IN IF r.op = "read" THEN before
                ELSE [before EXCEPT ![FdOf(r)] =
                        IF r.target \in {"1", "2"} THEN before[r.target] ELSE r.target]
  IN F[Len(redirects)]
=============================================================================
