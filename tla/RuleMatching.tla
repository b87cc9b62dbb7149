----------------------------- MODULE RuleMatching -----------------------------
(***************************************************************************)
(* What a rule and an allowlist entry say of one command's words:          *)
(* src/src/policy/matching.rs, allowlist.rs and git_invocation.rs.         *)
(*                                                                         *)
(* A word is a record of its text t and its ArgMeta m; texts stand for     *)
(* classes.  "-x" is a flag that no table knows; "-df" a cluster of short  *)
(* flags; "key=v", "key=true" and "key" are overrides of a key that some   *)
(* rule names, by a program, by a no-op and by nothing, "bad" is no key.   *)
(* Letter case and the globs of patterns are left out: a pattern stands    *)
(* for the texts it matches.                                               *)
(***************************************************************************)
EXTENDS Naturals, SequencesExt

Static(t) == [t |-> t, m |-> "plain"]
Dynamic(t) == [t |-> t, m |-> "unsafe"]

Families == {"git", "codex", "uv", "logcli"}
FamilyWords(family) ==
  CASE family = "git" ->
         {Static(t) : t \in {"-C", "--git-dir=", "-c", "--config-env",
                             "--no-pager", "-x", "--", "-df", "key=v",
                             "key=true", "key", "bad", "branch", "stash",
                             "list"}}
         \cup {Dynamic("key=v"), Dynamic("--git-dir="), Dynamic("branch")}
    [] family = "codex" -> {Static(t) : t \in {"-m", "-x", "--", "exec", "list"}}
                           \cup {Dynamic("exec")}
    [] family = "uv" -> {Static(t) : t \in {"run", "--with", "-x", "--",
                                            "ruff", "bin/ruff", "list"}}
    [] family = "logcli" -> {Static(t) : t \in {"-x", "--", "list", "stash",
                                                "../stash", "bin/stash"}}
FlagTexts == {"-C", "--git-dir=", "-c", "--config-env", "--no-pager", "-x",
              "--", "-df", "-m", "--with"}
IsFlag(word) == word.t \in FlagTexts

\* The entries of the allowlist, what they ask for after the command's name;
\* none is the entry of a bare name.
Entries == {[args |-> <<"branch">>, trust |-> 1],
            [args |-> <<"stash", "list">>, trust |-> 2],
            [args |-> <<"exec">>, trust |-> 1],
            [args |-> <<"run", "ruff">>, trust |-> 3]}
TrustLevels == 1..3

-----------------------------------------------------------------------------
(* git_invocation.rs *)

NoOperand == [t |-> "none", m |-> "none"]
HasKey(t) == t \in {"key=v", "key=true", "key"}

\* GitInvocation::new: the globals before the subcommand, and where that is.
GitInvocation(argv) ==
  LET Operand(i) == IF i < Len(argv) THEN argv[i+1] ELSE NoOperand
      With(kind, operand, rest) ==
        [rest EXCEPT !.globals = <<[kind |-> kind, operand |-> operand]>> \o @]
      F[i \in Nat] ==
        IF i > Len(argv) THEN [globals |-> << >>, at |-> Len(argv) + 1]
        ELSE IF argv[i].t = "--" THEN [globals |-> << >>, at |-> i + 1]
        ELSE IF argv[i].t \in {"-c", "--config-env", "-C"}
             THEN With(argv[i].t, Operand(i), F[i + 2])
        ELSE IF argv[i].t = "--git-dir=" THEN With("joined", argv[i], F[i + 1])
        ELSE IF argv[i].t = "--no-pager" THEN With("bool", argv[i], F[i + 1])
        ELSE IF argv[i].t \in {"-x", "-df", "-m", "--with"}
             THEN With("unknown", argv[i], F[i + 1])
        ELSE [globals |-> << >>, at |-> i]
  IN F[1]

\* Mutant: an unknown flag is taken for one without a value.
IsAmbiguousIfKnown(global) ==
  LET operand == global.operand IN
  /\ global.kind \notin {"bool", "unknown"}
  /\ \/ operand = NoOperand
     \/ operand.m = "unsafe"
     \/ global.kind = "-c" /\ ~HasKey(operand.t)
     \/ global.kind = "--config-env" /\ operand.t \notin {"key=v", "key=true"}

\* config_operand_is_ambiguous, config_env_operand_is_ambiguous, and the same
\* for other operands and unknown flags.
IsAmbiguous(global) ==
  LET operand == global.operand IN
  /\ global.kind # "bool"
  /\ \/ global.kind = "unknown"
     \/ operand = NoOperand
     \/ operand.m = "unsafe"
     \/ global.kind = "-c" /\ ~HasKey(operand.t)
     \/ global.kind = "--config-env" /\ operand.t \notin {"key=v", "key=true"}

GitSubcommand(argv) ==
  LET git == GitInvocation(argv) IN
  IF \E g \in ToSet(git.globals): IsAmbiguous(g) THEN [kind |-> "ambiguous"]
  ELSE IF git.at > Len(argv) THEN [kind |-> "absent"]
  ELSE [kind |-> "resolved", word |-> argv[git.at].t]

\* is_allowlist_safe
IsAllowlistSafe(argv) ==
  /\ GitSubcommand(argv).kind # "ambiguous"
  /\ \A g \in ToSet(GitInvocation(argv).globals):
       \/ g.kind = "bool"
       \/ g.kind # "unknown" /\ g.operand # NoOperand /\ g.operand.m # "unsafe"

-----------------------------------------------------------------------------
(* The scans of the other families. *)

\* value_flags_for and CODEX_GLOBAL_VALUE_FLAGS
ValueFlags(family, argv) ==
  CASE family = "codex" -> {"-m"}
    [] family = "uv" /\ argv # << >> /\ argv[1].t = "run" -> {"--with"}
    [] OTHER -> {}

\* resolve_subcommand
ResolveSubcommand(family, argv) ==
  LET At(i) == IF i <= Len(argv) THEN [kind |-> "resolved", word |-> argv[i].t]
               ELSE [kind |-> "absent"]
      F[i \in Nat] ==
        IF i > Len(argv) THEN At(i)
        ELSE IF argv[i].t = "--" THEN At(i + 1)
        ELSE IF argv[i].t \in ValueFlags(family, argv)
             THEN IF i = Len(argv) \/ argv[i+1].m = "unsafe"
                  THEN [kind |-> "ambiguous"] ELSE F[i + 2]
        ELSE IF IsFlag(argv[i]) THEN F[i + 1]
        ELSE At(i)
  IN IF family = "git" THEN GitSubcommand(argv) ELSE F[1]

\* subcommand_start_index: the same scan once more, whatever the values are.
SubcommandStart(family, argv) ==
  LET F[i \in Nat] ==
        IF i > Len(argv) THEN Len(argv) + 1
        ELSE IF argv[i].t = "--" THEN i + 1
        ELSE IF argv[i].t \in ValueFlags(family, argv) THEN F[i + 2]
        ELSE IF IsFlag(argv[i]) THEN F[i + 1]
        ELSE i
  IN IF family = "git" THEN GitInvocation(argv).at ELSE F[1]

-----------------------------------------------------------------------------
(* Rules.  A rule is a record: any, all and none of flags; pin, min, first  *)
(* and the words it asks for (args) or excludes (noargs) from its args.     *)

\* arg_matches_flag
MatchesFlag(word, flag) == \/ word.t = flag
                           \/ word.t = "-df" /\ flag \in {"-d", "-f"}

\* flags_match
FlagsMatch(rule, words) ==
  LET Given(flag) == \E w \in words: MatchesFlag(w, flag) IN
  /\ rule.any # {} => \E flag \in rule.any: Given(flag)
  /\ \A flag \in rule.all: Given(flag)
  /\ \A flag \in rule.none: ~Given(flag)

\* Mutant: flags are looked for before the subcommand, too.
FlagWordsOfAll(rule, family, argv) == ToSet(argv)

\* argv_from_subcommand, for a rule that pins the subcommand
FlagWords(rule, family, argv) ==
  IF rule.pin = {} THEN ToSet(argv)
  ELSE {argv[i] : i \in SubcommandStart(family, argv)..Len(argv)}

\* What a rule pins is matched by a subcommand that cannot be told only if the
\* rule asks for something else, too.
PinMatches(rule, family, argv) ==
  LET sub == ResolveSubcommand(family, argv) IN
  CASE sub.kind = "resolved" -> sub.word \in rule.pin
    [] sub.kind = "ambiguous" -> \/ rule.any \cup rule.all \cup rule.none # {}
                                 \/ rule.args \cup rule.every \cup rule.noargs # {}
    [] sub.kind = "absent" -> FALSE

\* The patterns on any words, and those that the first one must not be.
ArgsMatch(rule, argv) ==
  LET texts == {w.t : w \in ToSet(argv)} IN
  /\ rule.args # {} => rule.args \cap texts # {}
  /\ rule.every \subseteq texts
  /\ rule.noargs \cap texts = {}
  /\ argv # << >> => argv[1].t \notin rule.first

\* matches_rule, for a rule on a command
MatchesRule(rule, family, argv) ==
  /\ FlagsMatch(rule, FlagWords(rule, family, argv))
  /\ Len(argv) + 1 >= SubcommandStart(family, argv) + rule.min
  /\ rule.pin # {} => PinMatches(rule, family, argv)
  /\ ArgsMatch(rule, argv)

Rule == [any |-> {}, all |-> {}, none |-> {}, pin |-> {}, min |-> 0,
         args |-> {}, every |-> {}, noargs |-> {}, first |-> {}]
Rules == {[Rule EXCEPT !.pin = {"branch"}, !.any = {"-C", "-d"}],
          [Rule EXCEPT !.pin = {"branch", "exec"}],
          [Rule EXCEPT !.pin = {"stash"}, !.all = {"-f"}, !.none = {"-c"}],
          [Rule EXCEPT !.pin = {"branch", "run"}, !.min = 2],
          [Rule EXCEPT !.args = {"stash"}, !.first = {"branch"}],
          [Rule EXCEPT !.every = {"branch", "-d"}, !.noargs = {"-f"}],
          [Rule EXCEPT !.any = {"-d"}, !.args = {"branch", "ruff"}]}

\* git_config_matches: a reviewed key is set to something but a no-op.
IsNoOp(word) == word.t = "key=true" /\ word.m # "unsafe"
GitConfigMatches(argv) ==
  \E g \in ToSet(GitInvocation(argv).globals):
    g.kind = "-c" /\ HasKey(g.operand.t) /\ ~IsNoOp(g.operand)

OverrideWords == {w \in FamilyWords("git") : HasKey(w.t) \/ w.t = "bad"}

\* Mutant: one assignment's exemption holds for all.
EnvMatchesUnlessExempt(assignments) ==
  /\ \E a \in ToSet(assignments): HasKey(a.t)
  /\ ~\E a \in ToSet(assignments): IsNoOp(a)

\* env_matches: the same for an assignment before the command.
EnvMatches(assignments) ==
  \E a \in ToSet(assignments): HasKey(a.t) /\ ~IsNoOp(a)

\* matches_pipeline: a stage says which stages of the rule its command is, and
\* which ones the command it wraps is.
StageWords == [direct : SUBSET (1..2), inner : SUBSET (1..2)]
PipelineMatches(stages) ==
  LET F[i \in Nat] ==  \* the rule's stages found in the first i
        IF i = 0 THEN 0
        ELSE LET found == F[i - 1] IN
             IF found + 1 \in stages[i].direct \cup stages[i].inner
             THEN found + 1 ELSE found
  IN F[Len(stages)] = 2

-----------------------------------------------------------------------------
(* The allowlist. *)

\* strip_codex_global_flags and strip_wrapper_value_flag_pairs, which strips
\* them wherever they are.
Strip(argv, flags, everywhere) ==
  LET Global(i) == IsFlag(argv[i]) /\ argv[i].t # "--"
      F[x \in Nat \X BOOLEAN] ==  \* a word, and whether flags before it go
        LET i == x[1]
            on == x[2]
        IN IF i > Len(argv) THEN << >>
           ELSE IF on /\ argv[i].t \in flags /\ (i < Len(argv) \/ ~everywhere)
                THEN F[<<i + 2, on>>]
           ELSE <<argv[i]>> \o F[<<i + 1, everywhere \/ (on /\ Global(i))>>]
  IN F[<<1, TRUE>>]

\* effective_argv
EffectiveArgv(family, argv) ==
  CASE family = "git" ->
         IF IsAllowlistSafe(argv) /\ GitSubcommand(argv).kind = "resolved"
         THEN SubSeq(argv, GitInvocation(argv).at, Len(argv)) ELSE argv
    [] family = "codex" -> Strip(argv, ValueFlags(family, argv), FALSE)
    [] OTHER -> Strip(argv, ValueFlags(family, argv), TRUE)

\* normalize_arg
NormalizeArg(t) == CASE t = "bin/ruff" -> "ruff"
                     [] t = "bin/stash" -> "stash"
                     [] OTHER -> t

\* The words that args_match_prefix does not skip for an entry of the scan, none of
\* which requires a flag.
PlainArgs(argv) ==
  LET F[i \in Nat] == IF i > Len(argv) THEN << >>
                      ELSE IF IsFlag(argv[i]) THEN F[i + 1]
                      ELSE <<NormalizeArg(argv[i].t)>> \o F[i + 1]
  IN F[1]

\* args_match_prefix
ArgsMatchPrefix(args, argv) == IsPrefix(args, PlainArgs(argv))

\* find_matching_entry
AllowlistMatches(family, argv, trust) ==
  LET sub == GitSubcommand(argv) IN
  {entry \in Entries :
     /\ entry.trust <= trust
     /\ family = "git" => IsAllowlistSafe(argv)
     /\ (family = "git" /\ sub.kind = "resolved") =>
          entry.args[1] = NormalizeArg(sub.word)
     /\ ArgsMatchPrefix(entry.args, EffectiveArgv(family, argv))}

-----------------------------------------------------------------------------
(* What the tools make of their words.  A flag that no table knows may take *)
(* the next word, unless that is a flag: a reading is the set of those that *)
(* do.  What the flags of a subcommand take is not longline's concern.      *)

TakesValue == {"-C", "-c", "--config-env", "-m", "--with"}
Guesses(argv, last) == SUBSET {i \in DOMAIN argv : /\ argv[i].t \in {"-x", "-df"}
                                                   /\ i < last /\ i < Len(argv)
                                                   /\ ~IsFlag(argv[i+1])}

\* The operands: uv's options follow its subcommand run.
Operands(family, argv, taking) ==
  LET Takes(i, sub) == \/ i \in taking
                       \/ argv[i].t \in TakesValue /\ (sub => family = "uv")
      F[x \in Nat \X BOOLEAN] ==  \* a word, and whether it follows the subcommand
        LET i == x[1]
            sub == x[2]
        IN IF i > Len(argv) THEN << >>
           ELSE IF argv[i].t = "--"
                THEN [k \in 1..(Len(argv) - i) |-> NormalizeArg(argv[i + k].t)]
           ELSE IF Takes(i, sub) THEN F[<<i + 2, sub>>]
           ELSE IF IsFlag(argv[i]) THEN F[<<i + 1, sub>>]
           ELSE <<NormalizeArg(argv[i].t)>> \o F[<<i + 1, TRUE>>]
  IN F[<<1, FALSE>>]

\* The overrides that git applies: those before its subcommand.
GitOverrides(argv, taking) ==
  LET F[i \in Nat] ==
        IF i > Len(argv) THEN << >>
        ELSE IF argv[i].t = "-c" THEN IF i = Len(argv) THEN << >>
                                      ELSE <<argv[i+1]>> \o F[i + 2]
        ELSE IF argv[i].t \in TakesValue \ {"-c"} \/ i \in taking THEN F[i + 2]
        ELSE IF IsFlag(argv[i]) /\ argv[i].t # "--" THEN F[i + 1]
        ELSE << >>
  IN F[1]

\* The last one of a key holds.
Effective(overrides) ==
  LET at == SelectLastInSeq(overrides, LAMBDA w: HasKey(w.t))
  IN IF at = 0 THEN {} ELSE {overrides[at]}

\* Globals that were reviewed, before the words of a command.
GlobalPrefixes(family) ==
  CASE family = "git" -> {<<Static("-C"), Static("list")>>,
                          <<Static("--no-pager")>>, <<Static("--git-dir=")>>,
                          <<Static("-c"), Static("key=true")>>}
    [] family = "codex" -> {<<Static("-m"), Static("list")>>}
    [] OTHER -> {}
=============================================================================
