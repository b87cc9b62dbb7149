----------------------------- MODULE JudgeRequest -----------------------------
(***************************************************************************)
(* What a provider of the AI judge is asked: the prompt that is built      *)
(* around the code (src/src/ai_judge/prompt.rs, config/prompt.rs), and the *)
(* command line it is handed over with (provider.rs, invoke.rs, home.rs).  *)
(*                                                                         *)
(* A text is a sequence of pieces: "brace" is an opening brace, and the    *)
(* name of a placeholder stands for the name and the brace that closes it. *)
(* A word of a provider's command is a record, dir being what its path, if *)
(* it is one, begins with.                                                 *)
(***************************************************************************)
EXTENDS Integers, SequencesExt

-----------------------------------------------------------------------------
(* Prompts. *)

Names == {"language", "code", "cwd", "extractor_context"}
Placeholder(name) == <<"brace", name>>

\* What a project's prompt is written of: a whole placeholder or a part of one.
PromptWords == {Placeholder(n) : n \in Names}
               \cup {<<"brace">>, <<"code">>, <<"cwd">>, <<"text">>, <<"blank">>}

\* What is put into the prompt can hold placeholders as well: the code at least
\* is whatever the agent has written.
Code == <<"print", "brace", "cwd", "brace", "extractor_context">>
Cwd == <<"/work/", "brace", "code">>
Contexts == [none |-> << >>, blank |-> <<"blank">>, some |-> <<"about", "brace", "code">>]
IsBlank(text) == ToSet(text) \subseteq {"blank"}

Format == "format"
\* PROMPT_TEMPLATE and LENIENT_PROMPT_TEMPLATE, which differ in their wording
Template == Placeholder("language") \o Placeholder("cwd")
            \o Placeholder("extractor_context") \o Placeholder("language")
            \o Placeholder("code") \o <<Format>>
\* RESPONSE_FORMAT_SUFFIX
Suffix == <<Format>>

StartsAt(text, i, name) == /\ i < Len(text)
                           /\ text[i] = "brace" /\ text[i + 1] = name

\* Mutant: one placeholder after the other is replaced, in all of the text.
SubstituteInTurn(template, value) ==
  LET One(text, name) ==
        LET F[i \in Nat] == IF i > Len(text) THEN << >>
                            ELSE IF StartsAt(text, i, name)
                                 THEN value[name] \o F[i + 2]
                                 ELSE <<text[i]>> \o F[i + 1]
        IN F[1]
  IN FoldLeft(One, template, <<"language", "code", "cwd", "extractor_context">>)

\* substitute: one pass, and what has been put in is not looked at again.
Substitute(template, value) ==
  LET F[i \in Nat] ==
        IF i > Len(template) THEN << >>
        ELSE IF \E n \in Names : StartsAt(template, i, n)
             THEN value[template[i + 1]] \o F[i + 2]
             ELSE <<template[i]>> \o F[i + 1]
  IN F[1]

\* build_prompt_from_template: a project's prompt takes the place of the template
\* and gets the suffix; the context stands in lines of its own in the template.
BuildPrompt(project, context) ==
  LET values(extra) == [n \in Names |-> CASE n = "language" -> <<"python">>
                                          [] n = "code" -> Code
                                          [] n = "cwd" -> Cwd
                                          [] n = "extractor_context" -> extra]
  IN IF ~IsBlank(project) THEN Substitute(project, values(context)) \o Suffix
     ELSE Substitute(Template, values(IF IsBlank(context) THEN << >>
                                      ELSE <<"newline">> \o context \o <<"newline">>))

Holds(text, part) == \E i \in DOMAIN text : IsPrefix(part, SubSeq(text, i, Len(text)))

\* validate_ai_judge_prompt, which load_project_config and the profiles call
PromptIsValid(project) ==
  \/ IsBlank(project)
  \/ \A n \in {"language", "code", "cwd"} : Holds(project, Placeholder(n))

-----------------------------------------------------------------------------
(* Commands: the words after the program, which is there whenever the       *)
(* command is not blank and which nothing below touches.  A word's kind: an *)
(* option with and without a value, one with its value joined, or an        *)
(* operand.                                                                 *)

Spoken(kind, dir) == [kind |-> kind, dir |-> dir]
RequestWords == {Spoken("settings", ""), Spoken("joined", "/"), Spoken("joined", "~"),
                 Spoken("takes", ""), Spoken("bool", ""), Spoken("ephemeral", ""),
                 Spoken("word", "/"), Spoken("word", "~")}
\* What is written for the other provider, whether the settings file of this one
\* could be placed, and LONGLINE_AI_JUDGE_DEBUG.
Requests == [both   |-> [other |-> "words", placed |-> TRUE, debug |-> FALSE],
             unsafe |-> [other |-> "words", placed |-> FALSE, debug |-> FALSE],
             traced |-> [other |-> "words", placed |-> FALSE, debug |-> TRUE],
             alone  |-> [other |-> "blank", placed |-> FALSE, debug |-> FALSE],
             broken |-> [other |-> "unbalanced", placed |-> TRUE, debug |-> TRUE]]
Prompt == Spoken("prompt", "")

\* expand_tilde_token: only a word that begins with it
ExpandTilde(w) == IF w.kind = "word" /\ w.dir = "~" THEN [w EXCEPT !.dir = "home"] ELSE w

\* Provider::parse: nothing if the command is blank or can not be split
Parse(name, command) ==
  IF command.written # "words" THEN {}
  ELSE {[name |-> name, argv |-> [i \in DOMAIN command.argv |->
                                    ExpandTilde(command.argv[i])]]}

\* resolve_provider_set: codex is the first one, if there is one
ResolveProviders(command, fallback) ==
  SetToSeq(Parse("codex", command)) \o SetToSeq(Parse("claude", fallback))

\* Mutant: of a split option the path is left behind.
WithoutSettingsFlag(argv) ==
  LET split == SelectInSeq(argv, LAMBDA w : w.kind = "settings")
      joined == SelectInSeq(argv, LAMBDA w : w.kind = "joined")
  IN IF split # 0 THEN IF split = Len(argv) THEN argv ELSE RemoveAt(argv, split)
     ELSE IF joined # 0 THEN RemoveAt(argv, joined) ELSE argv

\* ensure_claude_settings, where the file can not be placed: the first --settings
\* goes with its path, or else the first --settings=; one without a path stays.
WithoutSettings(argv) ==
  LET split == SelectInSeq(argv, LAMBDA w : w.kind = "settings")
      joined == SelectInSeq(argv, LAMBDA w : w.kind = "joined")
  IN IF split # 0
     THEN IF split = Len(argv) THEN argv ELSE RemoveAt(RemoveAt(argv, split + 1), split)
     ELSE IF joined # 0 THEN RemoveAt(argv, joined) ELSE argv
EnsureSettings(providers, placed) ==
  [i \in DOMAIN providers |->
     IF providers[i].name = "claude" /\ ~placed
     THEN [providers[i] EXCEPT !.argv = WithoutSettings(@)] ELSE providers[i]]

\* maybe_strip_ephemeral
StripEphemeral(argv, debug) ==
  IF debug THEN FlattenSeq([i \in DOMAIN argv |->
                              IF argv[i].kind = "ephemeral" THEN << >> ELSE <<argv[i]>>])
  ELSE argv

\* run and launch: the command lines of the providers, in their order
Launched(argv, request) ==
  LET providers == EnsureSettings(
        ResolveProviders([written |-> request.other, argv |-> argv],
                         [written |-> "words", argv |-> argv]),
        request.placed)
  IN [i \in DOMAIN providers |->
        [providers[i] EXCEPT !.argv = StripEphemeral(Append(@, Prompt), request.debug)]]

-----------------------------------------------------------------------------
(* What claude and codex make of a command line. *)

\* The words in the places of operands, and the settings that are read; an option
\* takes the next word whatever it is.
Read(argv) ==
  LET F[i \in Nat] ==
        IF i > Len(argv) THEN [operands |-> << >>, settings |-> << >>]
        ELSE IF argv[i].kind \in {"settings", "takes"}
        THEN LET rest == F[i + 2] IN
             IF argv[i].kind = "settings" /\ i < Len(argv)
             THEN [rest EXCEPT !.settings = <<argv[i + 1].dir>> \o @] ELSE rest
        ELSE LET rest == F[i + 1] IN
             CASE argv[i].kind = "joined" ->
                    [rest EXCEPT !.settings = <<argv[i].dir>> \o @]
               [] argv[i].kind \in {"bool", "ephemeral"} -> rest
               [] OTHER -> [rest EXCEPT !.operands = <<argv[i]>> \o @]
  IN F[1]
\* Does an option lack its value?
Dangles(argv) == Read(Append(argv, Prompt)).operands = Read(argv).operands
=============================================================================
