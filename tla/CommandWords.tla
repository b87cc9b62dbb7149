----------------------------- MODULE CommandWords -----------------------------
(***************************************************************************)
(* Every scanner of a command's words, on every command line of up to      *)
(* MaxWords words of its alphabet.  A line is typed word by word, so that   *)
(* each one is a reachable state; the scanners are functions of it         *)
(* (ArgText, WrapperArgs, Classifiers, RuleMatching), and the properties   *)
(* compare them with what the scanned tool makes of the same words.  For   *)
(* ArgText a line is a word and its words are characters.                  *)
(***************************************************************************)
EXTENDS ArgText, WrapperArgs, Classifiers, RuleMatching, JudgeRequest

CONSTANT MaxWords  \* bound: words of a command

ASSUME WordsAssumption == MaxWords \in Nat

VARIABLES tool,  \* the scan that is tried, and what it is tried on
          argv   \* the words typed so far
vars == <<tool, argv>>

Tools == ({"wrapper"} \X DOMAIN Wrappers) \cup ({"shell"} \X DOMAIN Shells)
         \cup ({"launcher"} \X DOMAIN Launchers)
         \cup ({"runs"} \X {"env", "find", "xargs"})
         \cup ({"gh", "gh api"} \X Manners)
         \cup ({"set"} \X {"set", "setopt"})
         \cup ({"sets"} \X {"assignments", "read", "printf"})
         \cup ({"rules"} \X Families)
         \cup ({"text"} \X TextKinds)
         \cup ({"prompt"} \X DOMAIN Contexts) \cup ({"request"} \X DOMAIN Requests)
         \cup ({"lists"} \X {"redirects", "overrides", "stages"})
Scan == tool[1]
Name == tool[2]

Words ==
  CASE Scan = "wrapper" -> WrapperWords(Name)
    [] Scan = "shell" -> ShellWords(Name)
    [] Scan = "launcher" -> LauncherWords(Name)
    [] Scan = "gh" -> GhWords
    [] Scan = "gh api" -> ApiWords
    [] Scan = "set" -> SetWords
    [] Scan = "rules" -> FamilyWords(Name)
    [] Scan = "text" -> TextChars(Name)
    [] Scan = "prompt" -> PromptWords
    [] Scan = "request" -> RequestWords
    [] Name = "env" -> EnvWords
    [] Name = "find" -> FindWords
    [] Name = "xargs" -> XargsWords
    [] Name = "assignments" -> AssignmentWords
    [] Name = "read" -> ReadWords
    [] Name = "printf" -> PrintfWords
    [] Name = "redirects" -> RedirectWords
    [] Name = "overrides" -> OverrideWords
    [] Name = "stages" -> StageWords

Init == tool \in Tools /\ argv = << >>

Type == /\ Len(argv) < MaxWords
        /\ \E w \in Words : argv' = Append(argv, w)
        /\ UNCHANGED tool

Next == Type
Spec == Init /\ [][Next]_vars

-----------------------------------------------------------------------------
(* The text of a word.                                                     *)

\* A word that is not marked unsafe has exactly the text that bash gives it, but
\* for a tilde; one without expansions and line continuations has it even if it
\* is marked; and what can be written in $'...' is read back from there.
TextIsWhatBashGives ==
  Scan = "text" =>
    LET text == ResolveText(Name, argv) IN
    /\ IsSource(Name, argv) /\ Classify(Name, argv) # "unsafe" =>
         \/ IsConstant(Name, argv) /\ text = BashText(Name, argv)
         \/ Name = "word" /\ argv[1] = 126
    /\ Name = "word" /\ IsSource(Name, argv) /\ IsConstant(Name, argv) =>
         text = BashText(Name, argv) \/ 10 \in ToSet(argv)
    /\ Name = "ansi" => \A style \in Styles :
         DecodeAnsiC(QuoteAnsi(style, argv)) = argv

-----------------------------------------------------------------------------
(* What runs is found.                                                     *)

\* A scanner "can never advance PAST the real inner command" (wrappers.rs), and
\* it finds the very command if no unknown option takes a value.
NeverPast(found, Runs(_)) ==
  \A r \in Readings(argv) :
    LET runs == Runs(r) IN
    runs # 0 => found \in 1..runs /\ (r = {} => found = runs)

\* What is found is right whatever the unknown options take.
AlwaysRight(found, Runs(_)) == \A r \in Readings(argv) : Runs(r) = found

WrapperRuns ==
  LET Runs(r) == RunsAt(Name, argv, r)
      runsNothing == \/ Name = "uv" /\ (argv = << >> \/ argv[1].t # "sub")
                     \/ Name = "command" /\ argv # << >> /\ argv[1].t = "query"
  IN runsNothing \/ NeverPast(InnerCommand(Name, argv), Runs)

XargsRuns == LET Runs(r) == RunsAt(Name, argv, r)
             IN NeverPast(XargsCommand(argv), Runs)

EnvRuns == LET found == EnvInvocation(argv)
               Runs(r) == RunsAt(Name, argv, r)
           IN found.kind # "opaque" => AlwaysRight(found.at, Runs)

LauncherRuns == LET found == LauncherCommand(argv)
                    Runs(r) == RunsAt(Name, argv, r)
                IN found # 0 => AlwaysRight(found, Runs)

\* Known limit: a + that does not follow {} is an argument to find, and the end
\* of the command to the scanner.
FindRunsAll ==
  \A run \in FindRuns(argv) :
    argv[run[1]].t \notin {";", "+"} =>
      \E found \in FindExec(argv) :
        /\ found[1] = run[1]
        /\ \/ found = run
           \/ found[2] < run[2] /\ argv[found[2] + 1].t = "+"

\* Known limit: a shell reads options after -c, too, and the scanner takes the
\* word after it for the string, if it is quoted.
ShellRunsBody ==
  LET found == ShellBody(Name, argv)
      runs == ShellRuns(Name, argv)
  IN \/ runs = 0
     \/ found.kind = "opaque"
     \/ found.at = runs
     \/ found.at # 0 /\ argv[found.at].t = "bool"

\* Whatever a command runs by its words is found, or the command is opaque: no
\* wrapper, env, find, xargs, shell or launcher hides a command behind options
\* with and without values, "--", assignments or words made by expansions.
WhatRunsIsFound ==
  /\ Scan = "wrapper" => WrapperRuns
  /\ Scan = "launcher" => LauncherRuns
  /\ Scan = "shell" => ShellRunsBody
  /\ Name = "env" => EnvRuns
  /\ Name = "find" => FindRunsAll
  /\ Name = "xargs" => XargsRuns

-----------------------------------------------------------------------------
(* What a classifier vouches for.                                          *)

\* Known limit: of several -v printf takes the last, the classifier the first.
Targets == {i \in DOMAIN argv : argv[i].t \in {"-v", "-vPATH", "-vv"}}

\* Known limit: the method in a cluster of short flags (-iXPOST) is not seen.
Clustered == "-iXPOST" \in ToSet(Texts(argv))

\* A command that a classifier lets pass is harmless as the tool reads it: gh
\* only reads, whatever word the flags it does not know take, but for status
\* where it stands for the subcommand (StatusTaken); gh api sends a GET; a
\* set enables no export of what follows; no sensitive variable is assigned, by
\* the assignment that holds last; redirects open no file.
ClassifiersVouchTruly ==
  /\ Scan = "gh" /\ GhReads(Name, argv) =>
       \A r \in GhReadings(argv) :
         StatusTaken(argv, r) \/ OnlyReads(GhRuns(argv, r))
  /\ Scan = "gh api" /\ ApiReads(Name, argv) /\ ~Clustered =>
       \A r \in ApiReadings(argv) : ApiSends(argv, r) = "GET"
  /\ Name = "set" /\ SetIsBenign(argv) => SetEnables(argv) \cap Exports = {}
  /\ Name = "setopt" /\ SetoptIsBenign(argv) =>
       ToSet(Texts(argv)) \cap Exports = {}
  /\ Name = "assignments" /\ ~AsksOfEnv(Name, argv) =>
       ~SetsSensitive(argv)
  /\ Name = "printf" /\ ~AsksOfEnv(Name, argv) /\ Cardinality(Targets) < 2 =>
       ~SensitiveVariable(PrintfSets(argv))
  /\ Name = "redirects" /\ DiscardsOutput(argv) =>
       \A i \in DOMAIN argv : \A fd \in {"1", "2"} :
         Sinks(SubSeq(argv, 1, i))[fd] # "file"

-----------------------------------------------------------------------------
(* What rules and the allowlist make of the words.                         *)

\* git's flags are guessed up to its subcommand; other families are taken to
\* have none with a value but those of the tables.
ReadingsOf(family) ==
  IF family = "git" THEN Guesses(argv, SubcommandStart(family, argv)) ELSE {{}}

\* Known limits: uv's own options before run hide those after it; "--" is
\* skipped like a flag, with the flags after it; and git without a subcommand
\* matches by the value of its last global.
RunsAllowed(entry, r) ==
  LET run == Operands(Name, argv, r) IN
  \/ IsPrefix(entry.args, run)
  \/ run = << >>
  \/ \E i, j \in DOMAIN argv : i < j /\ argv[i].t = "--" /\ IsFlag(argv[j])

\* The subcommand that rules pin is the word the tool takes for it, both scans
\* for it agree, and the tool runs what an allowlist entry names, whatever git's
\* unknown flags take.  Raising the trust level takes no entry away.
AllowedIsWhatRuns ==
  Scan = "rules" /\ (Name = "uv" => argv # << >> /\ argv[1].t = "run") =>
    LET sub == ResolveSubcommand(Name, argv)
        at == SubcommandStart(Name, argv)
    IN /\ sub.kind = "absent" => at = Len(argv) + 1
       /\ sub.kind = "resolved" =>
            /\ argv[at].t = sub.word
            /\ \A r \in ReadingsOf(Name) :
                 IsPrefix(<<NormalizeArg(sub.word)>>, Operands(Name, argv, r))
       /\ \A level \in TrustLevels :
            \A entry \in AllowlistMatches(Name, argv, level) :
              /\ \A r \in ReadingsOf(Name) : RunsAllowed(entry, r)
              /\ \A higher \in level..3 :
                   entry \in AllowlistMatches(Name, argv, higher)

\* Reviewed globals before a subcommand change nothing: the same entries match,
\* a rule that matches still does unless it excludes words anywhere, and a rule
\* about the subcommand and its flags matches no more than before.
GlobalsDoNotMatter ==
  Scan = "rules" /\ argv # << >> /\ ~IsFlag(argv[1]) =>
    \A globals \in GlobalPrefixes(Name) :
      LET full == globals \o argv IN
      /\ AllowlistMatches(Name, full, 3) = AllowlistMatches(Name, argv, 3)
      /\ \A rule \in Rules :
           /\ rule.noargs = {} /\ MatchesRule(rule, Name, argv) =>
                MatchesRule(rule, Name, full)
           /\ rule.pin # {} /\ rule.args \cup rule.every \cup rule.noargs = {} =>
                (MatchesRule(rule, Name, full) => MatchesRule(rule, Name, argv))

\* What is in effect is matched: the override of a key that git applies last,
\* unless the line can not be allowlisted anyway; the assignment that holds last;
\* and a pipeline that has the rule's stages in their order, wrapped or not.
RulesMissNothing ==
  /\ Name = "git" => \A r \in Guesses(argv, Len(argv)) :
       (\E w \in Effective(GitOverrides(argv, r)) : ~IsNoOp(w)) =>
         GitConfigMatches(argv) \/ ~IsAllowlistSafe(argv)
  /\ Name = "overrides" =>
       ((\E w \in Effective(argv) : ~IsNoOp(w)) => EnvMatches(argv))
  /\ Name = "stages" =>
       (PipelineMatches(argv) <=>
          \E i, j \in DOMAIN argv :
            /\ i < j
            /\ 1 \in argv[i].direct \cup argv[i].inner
            /\ 2 \in argv[j].direct \cup argv[j].inner)

-----------------------------------------------------------------------------
(* What the judge is asked.                                                *)

\* Whatever the values hold, the prompt is the project's with each placeholder
\* replaced where the project has written it, and the code stands in it as it is.
PromptIsWhole ==
  LET project == FlattenSeq(argv)
      prompt == BuildPrompt(project, Contexts[Name])
      given(i) == CASE StartsAt(project, i, "code") -> Code
                    [] StartsAt(project, i, "cwd") -> Cwd
                    [] StartsAt(project, i, "language") -> <<"python">>
                    [] StartsAt(project, i, "extractor_context") -> Contexts[Name]
                    [] i > 1 /\ \E n \in Names : StartsAt(project, i - 1, n) -> << >>
                    [] OTHER -> <<project[i]>>
  IN /\ PromptIsValid(project) => Holds(prompt, Code) /\ Holds(prompt, Cwd)
     /\ ~IsBlank(project) =>
          prompt = FlattenSeq([i \in DOMAIN project |-> given(i)]) \o <<Format>>
     /\ Cardinality({i \in DOMAIN prompt : prompt[i] = Format}) = 1

\* Known limits: the option is looked for without minding that it may be another
\* option's value, as may --ephemeral; of several settings the first is dropped.
IsOrderly(words) ==
  /\ ~Dangles(words)
  /\ \A i \in 1..(Len(words) - 1) :
       words[i].kind \in {"settings", "takes"} => words[i + 1].kind = "word"

\* Each provider reads the prompt as its last operand, after those of its own
\* command; claude reads the first settings only if they could be placed, and
\* codex is the first one if its command can be split.
RequestIsWhole ==
  LET request == Requests[Name]
      launched == Launched(argv, request)
      own == Read([i \in DOMAIN argv |-> ExpandTilde(argv[i])])
  IN /\ Last(launched).name = "claude"
     /\ Len(launched) = 2 <=> request.other = "words"
     /\ \A i \in DOMAIN launched :
          LET read == Read(launched[i].argv)
              drops == launched[i].name = "claude" /\ ~request.placed
          IN /\ read.operands = Append(own.operands, Prompt)
             /\ drops /\ Len(own.settings) < 2 => read.settings = << >>
             /\ ~drops => read.settings = own.settings

\* The judge is asked about the code that would run and about all of it, and the
\* question reaches each provider as a question.
JudgeIsAskedTruly ==
  /\ Scan = "prompt" => PromptIsWhole
  /\ Scan = "request" /\ IsOrderly(argv) => RequestIsWhole
=============================================================================
