---------------------------- MODULE CodeExtraction ----------------------------
(***************************************************************************)
(* Which code of a command line is handed to the AI judge:                 *)
(* src/src/ai_judge/extract/ and the cwd following of src/src/evaluator.rs. *)
(*                                                                         *)
(* A line is typed command by command and word by word.  A command has its *)
(* words, at most one redirect, and the joint that ties it to the command  *)
(* before: "&&", ";" (a line break in the raw text), "|", or "$(", which    *)
(* makes it a substitution within the echo before it.  A redirect ends the *)
(* first command of a list, and a heredoc its line of text, so that it does *)
(* not matter what a parser attaches them to.  Some commands begin with     *)
(* several words at once.                                                  *)
(***************************************************************************)
EXTENDS Naturals, SequencesExt

CONSTANT MaxTokens  \* bound: commands, words and redirects of a line

ASSUME TokensAssumption == MaxTokens \in Nat

VARIABLES world,  \* the cwd of the hook, and the files there that mod could be
          line,
          tokens  \* how much of the line has been typed

lineVars == <<world, line, tokens>>

-----------------------------------------------------------------------------
(* Command lines. *)

Pythons == {<<"python">>, <<"uv", "run", "--", "python">>,
            <<"timeout", "5", "python">>, <<"python", "manage.py">>}
Changes == {<<"cd", "d">>, <<"cd", "/etc">>, <<"cd", "/tmp">>, <<"cd", "$d">>}
Beginnings == Pythons \cup Changes \cup {<<"node">>, <<"echo">>, <<"printf">>,
                                         <<"cat">>}
IsPython(words) == \E b \in Pythons : IsPrefix(b, words)

\* A word, a.py for one, is a path or a text by what reads it.
WordsFor(words) ==
  CASE IsPython(words) -> {"-c", "-m", "-W", "--", "a.py", "../a.py",
                           "/etc/a.py", "/tmp/a.py", "mod", "shell",
                           "--command=x"}
    [] words[1] = "node" -> {"-e", "a.py"}
    [] words[1] = "echo" -> {"-n", "a.py"}
    [] words[1] = "printf" -> {"%s", "-v", "a.py"}
    [] words[1] = "cat" -> {"-n", "a.py", "/etc/a.py", "/tmp/a.py"}
    [] words[1] = "cd" -> {}
RedirectsFor(words) == CASE IsPython(words) -> {"<a.py", "<<", "<<<"}
                         [] words[1] = "cat" -> {">a.py<<", ">data.py<<"}
                         [] OTHER -> {}
Heredocs == {"<<", ">a.py<<", ">data.py<<"}

Home == <<"home">>
Temp == <<"tmp">>  \* /tmp or $TMPDIR, which are treated alike
Worlds == {[cwd |-> <<"home", "repo">>, modules |-> {<<"mod.py">>}],
           [cwd |-> <<"srv">>,
            modules |-> {<<"mod", "__main__.py">>, <<"src", "mod.py">>}]}

Command(joint, words) == [joint |-> joint, words |-> words, redirect |-> ""]

LineInit == /\ world \in Worlds
            /\ \E b \in Beginnings : line = <<Command("first", b)>>
            /\ tokens = 1

Commands == DOMAIN line
Words(k) == line[k].words
IsSubstitution(k) == line[k].joint = "$("
\* The commands of a pipeline, and the pipeline, that k starts or continues.
Levels == {k \in Commands : ~IsSubstitution(k)}
Before(k) == CHOOSE j \in Levels : j < k /\ \A i \in Levels : i <= j \/ i >= k
IsFed(k) == line[k].joint = "|"
InPipeline(k) == \/ IsFed(k)
                 \/ \E j \in Levels : j > k /\ IsFed(j) /\ Before(j) = k

Begin(joint, b) ==
  /\ Last(line).redirect \in Heredocs => joint = ";"
  /\ joint = "$(" => /\ Words(Before(Len(line) + 1))[1] = "echo"
                     /\ b \notin Changes
  /\ line' = Append(IF joint = "$("
                    THEN [line EXCEPT ![Before(Len(line) + 1)].words = Append(@, "$()")]
                    ELSE line, Command(joint, b))

Type(w) == /\ Last(line).redirect = ""
           /\ line' = [line EXCEPT ![Len(line)].words = Append(@, w)]

Redirect(r) == /\ Last(line).redirect = ""
               /\ Last(line).joint \in {"first", ";", "$("}
               /\ r \in Heredocs => Last(line).joint # "$("
               /\ line' = [line EXCEPT ![Len(line)].redirect = r]

LineNext == /\ tokens < MaxTokens
            /\ \/ \E joint \in {"&&", ";", "|", "$("}, b \in Beginnings : Begin(joint, b)
               \/ \E w \in WordsFor(Last(line).words) : Type(w)
               \/ \E r \in RedirectsFor(Last(line).words) : Redirect(r)
            /\ tokens' = tokens + 1
            /\ UNCHANGED world

LineSpec == LineInit /\ [][LineNext]_lineVars

-----------------------------------------------------------------------------
(* Code, and files.  A path is the sequence of its names from the root.  A *)
(* file a.py is in every directory, the files of mod in the repository's.  *)

Code(kind, of, text, path) ==
  [kind |-> kind, of |-> of, text |-> text, path |-> path]
None == Code("none", 0, <<>>, <<>>)
Text(words) == Code("text", 0, words, <<>>)
Body(k) == Code("body", k, <<>>, <<>>)  \* of k's heredoc or here-string
File(path) == Code("file", 0, <<>>, path)

Unknown == <<"unknown">>
Enter(dir, target) == CASE target = "d" -> Append(dir, "d")
                        [] target = "/etc" -> <<"etc">>
                        [] target = "/tmp" -> Temp
                        [] target = "$d" -> Unknown
IsFile(word) == word \in {"a.py", "../a.py", "/etc/a.py", "/tmp/a.py"}
PathOf(word, dir) ==
  CASE word = "a.py" -> Append(dir, "a.py")
    [] word = "../a.py" -> Append(Front(dir), "a.py")
    [] word = "/etc/a.py" -> <<"etc", "a.py">>
    [] word = "/tmp/a.py" -> Append(Temp, "a.py")

FirstOf(codes) == LET found == {i \in DOMAIN codes : codes[i] # None}
                  IN IF found = {} THEN None ELSE codes[Min(found)]
Position(words, wanted) ==  \* 0 if there is none
  LET at == {i \in DOMAIN words : words[i] \in wanted}
  IN IF at = {} THEN 0 ELSE Min(at)
WordAt(words, i) == IF i \in DOMAIN words THEN words[i] ELSE ""

\* fs.rs: a file is read only under the cwd or a temporary directory.
ReadSafeCodeFile(word, cwd) ==
  IF /\ IsFile(word)
     /\ \E root \in {cwd, Temp} : IsPrefix(root, PathOf(word, cwd))
  THEN File(PathOf(word, cwd)) ELSE None

-----------------------------------------------------------------------------
(* Inline code. *)

UnwrapRunner(words) ==
  LET start == 1 + Position(words, {"run"})
      skip == IF WordAt(words, start) = "--" THEN start + 1 ELSE start
  IN IF words[1] = "uv" /\ start > 1 /\ skip <= Len(words)
     THEN SubSeq(words, skip, Len(words)) ELSE words

\* The words after "manage.py shell", <<>> unless the command is one.
ShellPosition(words) ==
  LET manage == Position(words, {"manage.py"})
  IN IF manage > 0 /\ WordAt(words, manage + 1) = "shell" THEN manage + 1 ELSE 0
IsDjangoShell(words) == ShellPosition(words) > 0
InlineFlags == {"-c", "--command=x"}
DjangoFlag(words) ==
  LET shell == ShellPosition(words)
      after == Position(SubSeq(words, shell + 1, Len(words)), InlineFlags)
  IN IF shell = 0 \/ after = 0 THEN 0 ELSE shell + after

DjangoInline(words) ==
  LET flag == DjangoFlag(words)
  IN CASE flag = 0 -> None
       [] flag > 0 /\ words[flag] = "--command=x" -> Text(<<"x">>)
       [] OTHER -> IF flag = Len(words) THEN None ELSE Text(<<words[flag + 1]>>)

InlineFlagOf(name) == CASE name = "python" -> {"-c"}
                        [] name = "node" -> {"-e"}
                        [] OTHER -> {}
InterpreterInline(words) ==
  LET flag == Position(words, InlineFlagOf(words[1]))
  IN IF flag \in 1..(Len(words) - 1) THEN Text(<<words[flag + 1]>>) ELSE None

Inline(words) == LET w == UnwrapRunner(words)
                 IN FirstOf(<<DjangoInline(w), InterpreterInline(w)>>)

-----------------------------------------------------------------------------
(* Heredocs and here-strings, found in the lines of the raw text. *)

\* The command that begins k's line of text, and the words up to its end.
LineStart(k) == Max({1} \cup {j \in 1..k : line[j].joint = ";"})
Mentions(k, words) == \E j \in LineStart(k)..k : ToSet(Words(j)) \cap words # {}
ReadsHeredoc(k) ==
  \/ Mentions(k, {"python"})
  \/ Mentions(k, {"manage.py"}) /\ Mentions(k, {"shell"})

ExtractHeredoc ==
  LET heredocs == {k \in Commands : line[k].redirect \in Heredocs}
      strings == {k \in Commands : line[k].redirect = "<<<"}
      first == Min(IF heredocs # {} THEN heredocs ELSE strings)
  IN IF heredocs \cup strings # {} /\ ReadsHeredoc(first) THEN Body(first) ELSE None

\* Whether the text of k's line has the path in it, data.py for a.py too.
Within(path) == CASE path = "a.py" -> {"a.py", "../a.py", "/etc/a.py", "/tmp/a.py"}
                  [] OTHER -> {path}
NamesPath(k, path) ==
  \/ Mentions(k, Within(path))
  \/ path = "a.py" /\ line[k].redirect \in {">a.py<<", ">data.py<<"}
HeredocWrittenScript(path) ==
  LET writers == {k \in Commands : /\ line[k].redirect \in Heredocs
                                   /\ NamesPath(k, path)
                                   /\ Words(LineStart(k))[1] = "cat"}
  IN IF writers = {} THEN None ELSE Body(Min(writers))

-----------------------------------------------------------------------------
(* Pipelines into an interpreter. *)

EchoOutput(words) ==
  LET said == SelectInSeq(words, LAMBDA w : w \notin {"echo", "-n"})
  IN IF said = 0 THEN Text(<<>>) ELSE Text(SubSeq(words, said, Len(words)))
PrintfOutput(words) ==
  CASE Len(words) = 1 -> Text(<<>>)
    [] WordAt(words, 2) = "-v" -> None
    [] Len(words) = 2 /\ words[2] # "-v" -> Text(<<words[2]>>)
    [] Len(words) = 3 /\ words[2] = "%s" -> Text(<<words[3]>>)
    [] OTHER -> None
SingleCatPath(words) == IF Len(words) = 2 /\ words[2] # "-n" THEN words[2] ELSE ""
SourceOutput(words, cwd) ==
  CASE words[1] = "echo" -> EchoOutput(words)
    [] words[1] = "printf" -> PrintfOutput(words)
    [] words[1] = "cat" -> ReadSafeCodeFile(SingleCatPath(words), cwd)

\* Options as longline scans them: the index of the first operand.
ArgumentPosition(words) ==
  LET from[i \in 1..(Len(words) + 2)] ==
        CASE i > Len(words) -> 0
          [] WordAt(words, i) \in {"-c", "-m", "--"} -> i
          [] WordAt(words, i) = "-W" -> from[i + 2]
          [] WordAt(words, i) = "--command=x" -> from[i + 1]
          [] OTHER -> i
  IN from[2]
ScriptPath(words) ==
  LET at == ArgumentPosition(words)
  IN CASE WordAt(words, at) = "--" -> WordAt(words, at + 1)
       [] WordAt(words, at) \in {"-c", "-m"} -> ""
       [] OTHER -> WordAt(words, at)
ModuleArg(words) == LET at == ArgumentPosition(words)
                    IN IF WordAt(words, at) = "-m" THEN WordAt(words, at + 1) ELSE ""

ReadsDjangoStdin(words) == IsDjangoShell(words) /\ DjangoFlag(words) = 0
\* Mutant: a script does not keep python from reading its program from stdin.
ReadsPythonStdinAlways(words) ==
  /\ ~IsDjangoShell(words)
  /\ words[1] = "python"
  /\ Position(words, {"-c", "-m"}) = 0
ReadsPythonStdin(words) ==
  /\ ~IsDjangoShell(words)
  /\ words[1] = "python"
  /\ Position(words, {"-c", "-m"}) = 0
  /\ ScriptPath(words) = ""

\* Of each pipeline the first consumer with a source that is known: what of it
\* cannot be told is nothing.
PipelineCode(consumers, cwd) ==
  LET Starts == {k \in Levels : ~IsFed(k)}
      Stages(s) == {k \in Levels : k >= s /\ \A i \in Levels : i \in (s + 1)..k => IsFed(i)}
      Fed(s) == {k \in Stages(s) : /\ k \in consumers
                                   /\ Words(Before(k))[1] \in {"echo", "printf", "cat"}}
      Of(s) == IF Fed(s) = {} THEN None
               ELSE SourceOutput(Words(Before(Min(Fed(s)))), cwd)
  IN FirstOf([k \in Commands |-> IF k \in Starts THEN Of(k) ELSE None])

-----------------------------------------------------------------------------
(* Scripts and modules. *)

ModuleCandidates == <<<<"mod.py">>, <<"mod", "__main__.py">>, <<"src", "mod.py">>,
                      <<"src", "mod", "__main__.py">>>>
ResolveModule(cwd) ==
  FirstOf([i \in DOMAIN ModuleCandidates |->
             IF ModuleCandidates[i] \in world.modules /\ cwd = world.cwd
             THEN File(cwd \o ModuleCandidates[i]) ELSE None])

ScriptCode(words, redirect, cwd) ==
  LET script == ScriptPath(words)
      written == HeredocWrittenScript(script)
  IN CASE words[1] # "python" \/ "-c" \in ToSet(words) \/ IsDjangoShell(words) -> None
       [] ModuleArg(words) # "" ->
            IF ModuleArg(words) = "mod" THEN ResolveModule(cwd) ELSE None
       [] script = "manage.py" -> None
       [] script # "" ->
            IF written # None THEN written ELSE ReadSafeCodeFile(script, cwd)
       [] OTHER ->
            IF redirect = "<a.py" THEN ReadSafeCodeFile("a.py", cwd) ELSE None

-----------------------------------------------------------------------------
(* The whole line.  Substitutions come before their command. *)

\* A command is visited with the last of its substitutions, and after it.
VisitedWith(k) ==
  IF IsSubstitution(k) THEN k
  ELSE Max({j \in Commands : j >= k /\ \A i \in (k + 1)..j : IsSubstitution(i)})
Visit(code) ==
  LET found == {k \in Commands : code[k] # None}
      first == Min({VisitedWith(k) : k \in found})
  IN IF found = {} THEN None
     ELSE code[Max({k \in found : VisitedWith(k) = first})]

ExtractCode(cwd) ==
  LET unwrapped == [k \in Commands |-> UnwrapRunner(Words(k))]
  IN FirstOf(<<Visit([k \in Commands |-> Inline(Words(k))]),
               ExtractHeredoc,
               PipelineCode({k \in Commands : IsFed(k) /\ ReadsDjangoStdin(unwrapped[k])}, cwd),
               PipelineCode({k \in Commands : IsFed(k) /\ ReadsPythonStdin(unwrapped[k])}, cwd),
               Visit([k \in Commands |-> ScriptCode(unwrapped[k], line[k].redirect, cwd)])>>)

\* What a transparent wrapper runs; the heredocs are those of the whole line.
InnerCode(cwd) ==
  FirstOf([k \in Commands |->
             IF Words(k)[1] # "timeout" THEN None
             ELSE LET inner == SubSeq(Words(k), 3, Len(Words(k)))
                  IN FirstOf(<<Inline(inner), ExtractHeredoc,
                               ScriptCode(inner, line[k].redirect, cwd)>>)])

\* Mutant: every directory is safe to change to.
IsAnyRoot(path) == path # Home
IsUnderSafeRoot(path) == \E root \in {Home, Temp} : IsPrefix(root, path)

\* && and || associate to the left, so the first statement of a list of more
\* than two commands is itself a list.
EffectiveCwd ==
  LET target == Enter(world.cwd, Words(1)[2])
      heads == {k \in Levels : k > 1 /\ ~IsFed(k)}
  IN IF /\ Words(1)[1] = "cd"
        /\ heads = {2}
        /\ line[2].joint = "&&"
        /\ target # Unknown
        /\ IsUnderSafeRoot(target)
     THEN target ELSE world.cwd

Judged == FirstOf(<<ExtractCode(EffectiveCwd), InnerCode(EffectiveCwd)>>)

-----------------------------------------------------------------------------
(* What runs.  The directory of the shell when it reaches a command: it    *)
(* follows each cd that is not in a pipeline.                              *)

Directory(k) ==
  LET changes == SetToSortSeq({j \in Levels : /\ j < k
                                              /\ Words(j)[1] = "cd"
                                              /\ ~InPipeline(j)}, LAMBDA a, b : a < b)
      after[i \in 0..Len(changes)] ==
        IF i = 0 THEN world.cwd
        ELSE LET dir == after[i - 1]
             IN IF dir = Unknown THEN Unknown ELSE Enter(dir, Words(changes[i])[2])
  IN after[Len(changes)]

\* A file has what the last heredoc before k has written to it.
Contents(path, k) ==
  LET writers == {j \in 1..(k - 1) : /\ line[j].redirect = ">a.py<<"
                                     /\ path = Append(Directory(j), "a.py")}
  IN IF writers = {} THEN File(path) ELSE Body(Max(writers))
Reads(word, k) == IF IsFile(word) THEN {Contents(PathOf(word, Directory(k)), k)} ELSE {}

SourceGives(j) ==
  LET words == Words(j)
  IN CASE words[1] = "echo" -> {EchoOutput(words)}
       [] words[1] = "printf" /\ WordAt(words, 2) # "-v" ->
            {IF WordAt(words, 2) = "%s" THEN Text(Tail(Tail(words)))
             ELSE Text(SubSeq(words, 2, Min({2, Len(words)})))}
       [] words[1] = "cat" /\ Len(words) = 2 -> Reads(words[2], j)
       [] OTHER -> {}
StdinOf(k) == CASE line[k].redirect = "<a.py" -> Reads("a.py", k)
                [] line[k].redirect \in {"<<", "<<<"} -> {Body(k)}
                [] IsFed(k) -> SourceGives(Before(k))
                [] OTHER -> {}

\* The words of the interpreter that k runs, and its first argument that is
\* not an option, or the option that takes the rest of them.
InterpreterWords(k) ==
  LET at == Position(Words(k), {"python", "node"})
  IN IF Words(k)[1] \in {"echo", "cat", "printf", "cd"} THEN <<>>
     ELSE SubSeq(Words(k), at, Len(Words(k)))
Decides(words, k) ==
  LET at == ArgumentPosition(words)
      script == IF WordAt(words, at) = "--" THEN at + 1 ELSE at
      options == SubSeq(words, script + 1, Len(words))
      given == {i \in DOMAIN options : options[i] \in InlineFlags}
  IN CASE WordAt(words, at) = "-c" -> {Text(<<WordAt(words, at + 1)>>)}
       [] WordAt(words, at) = "-m" ->
            IF WordAt(words, at + 1) = "mod" THEN {ResolveModule(Directory(k))} ELSE {}
       [] WordAt(words, script) = "" -> StdinOf(k)
       [] words[script] = "manage.py" ->
            CASE WordAt(options, 1) # "shell" -> {}
              [] given = {} -> StdinOf(k)
              [] OTHER -> {Text(<<IF options[i] = "-c" THEN WordAt(options, i + 1)
                                  ELSE "x">>) : i \in given}
       [] OTHER -> Reads(words[script], k)
Runs(k) ==
  LET words == InterpreterWords(k)
  IN CASE words = <<>> -> {}
       [] words[1] = "python" -> Decides(words, k)
       [] words[1] = "node" -> IF WordAt(words, 2) = "-e" /\ Len(words) > 2
                               THEN {Text(<<words[3]>>)} ELSE {}

-----------------------------------------------------------------------------

\* Type invariant.
LineTypeOK ==
  /\ world \in Worlds
  /\ tokens \in 1..(MaxTokens + 1)
  /\ \A k \in Commands : /\ Words(k) # <<>>
                         /\ line[k].redirect \in Heredocs \cup {"", "<a.py", "<<<"}

\* Where longline's reading of a line is known to be simpler than the shell's:
\* an option without its value makes python stop, but longline reads on;
LacksAValue == \E k \in Commands : Last(Words(k)) \in {"-c", "-m", "-W", "-e"}
\* a heredoc or here-string on a line that names python is taken for its
\* program, though a script or an option may make it data;
HeredocIsData == \E k \in Commands : /\ line[k].redirect \in Heredocs \cup {"<<<"}
                                     /\ ReadsHeredoc(k)
                                     /\ Body(k) \notin Runs(k)
\* the first -c or -e is taken for the interpreter's own option, though it may
\* be the value of another one, or an argument of the script;
OptionIsAnothers ==
  \E k \in Commands : LET words == InterpreterWords(k) IN
    /\ words # <<>>
    /\ Position(words, {"-c", "-e"}) # IF words[1] = "node" THEN 2
                                       ELSE ArgumentPosition(words)
    /\ Inline(words) # None
\* a printf of its format alone is taken to print it as it is;
FormatIsText == \E k \in Commands : Words(k) = <<"printf", "%s">>
\* only a cd before one && and nothing else is followed, and only below the
\* home directory and the temporary ones;
ChangeIsNotFollowed == \E k \in Commands : /\ Directory(k) # EffectiveCwd
                                           /\ Words(k)[1] # "cd"
\* a cat with a heredoc is taken to have written a script if the script's name
\* is part of its text, and whether it comes before or after;
WriterIsGuessed ==
  \E k \in Commands : line[k].redirect = ">data.py<<"
                      \/ /\ line[k].redirect = ">a.py<<"
                         /\ \E j \in 1..k : InterpreterWords(j) # <<>>
\* and a file that the line has written is read as it was before, if it is not
\* the script of a command.
ReadTooEarly ==
  \E k \in Commands : /\ line[k].redirect = ">a.py<<"
                      /\ \E j \in Commands : j > k /\ (\/ line[j].redirect = "<a.py"
                                                       \/ "cat" \in ToSet(Words(j)))

\* The code that the judge is asked about is code that a command of the line
\* runs: neither that of another command, nor a file in another directory, nor
\* the words of a command that runs something else.  (extract_code and
\* extract_code_with_cwd_following against bash, python and node.)
JudgedCodeRuns == LET judged == Judged IN
  \/ judged = None
  \/ \E k \in Commands : judged \in Runs(k)
  \/ LacksAValue
  \/ HeredocIsData
  \/ OptionIsAnothers
  \/ FormatIsText
  \/ ChangeIsNotFollowed
  \/ WriterIsGuessed
  \/ ReadTooEarly

\* Whatever the line changes to, the judge is sent no file but those below the
\* cwd that the hook was given, the home directory or a temporary directory
\* (read_safe_code_file follows effective_cwd_for_extract).
OnlyOwnFilesAreSent ==
  LET judged == Judged
  IN judged.kind = "file" =>
       \E root \in {world.cwd, Home, Temp} : IsPrefix(root, judged.path)

\* What the comment on effective_cwd_for_extract says of `cd X && cd Y && cmd`:
\* it "updates the cwd to X, not Y".
FirstChangeIsFollowed ==
  /\ \A k \in Commands : line[k].joint = "&&" \/ k = 1
  /\ Len(line) = 3
  /\ Words(1) = <<"cd", "d">>
  /\ Words(2)[1] = "cd"
  /\ IsUnderSafeRoot(world.cwd)
  => EffectiveCwd = Enter(world.cwd, "d")

=============================================================================
