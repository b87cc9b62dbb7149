# Verification of longline

longline is a hook that AI coding agents (Claude Code, OpenAI Codex) call before
they run a command. It reads the call as JSON, parses the command line, matches
every command in it against rules, allowlists and classifiers, answers *allow*,
*ask* or *deny*, and writes one line of an audit log. With `--ask-ai` a call that
would be asked is first put to an "AI judge": one or two provider programs, run
as child processes under a common time budget.

This directory holds TLA+ models of the parts where order, time, failure,
nesting or the reading of options decide whether that is right, the TLC runs
that check them, and TLAPS proofs about the judge and the files it is sent, the
log, the hook sessions, the policy, the configuration, the installation and the
scanners of a command's words. Source lines are those of `PROJECT.json`, whose `map` names the lines behind every definition.

## 1. Inventory

| Component | State | Operations | Interacts with | Correct if |
|---|---|---|---|---|
| **Judge: loop** `ai_judge/orchestrator.rs` | two `ProvState`s, the `in_flight` map, the report, the clock reading | launch pass, wait, arrivals, retry with backoff, promotion of the hedge, cancellation, return | `Runner` trait: launch, `wait_next`, drop of a handle | no attempt is lost, doubled or left running; the first verdict wins; times are kept; it ends |
| **Judge: process layer** `provider.rs`, `outcome.rs`, `response.rs`, `invoke.rs` | per attempt: thread, child process, two capture files, cancel flag | create files, spawn, poll, kill, reap, clean up, classify, send | loop by a channel, the flag and the join | one message at most; no process and no file left; a reported verdict was printed |
| **Judge: settings file** `settings.rs` | one file in the user's configuration | check, repair by write and rename | `init`, the user, the providers | claude never runs with settings that do not pin what they must |
| **Judge: configuration, prompt** `config.rs`, `prompt.rs`, `home.rs` | none | YAML to parameters, prompt text, provider commands | loop, extraction | each provider is asked about the code, whatever the code holds |
| **Judge: code extraction** `ai_judge/extract/*` | none (reads files) | find the code a command would run | evaluator | what it reads is what would be run; no file outside the project, home and the temporary directories is sent |
| **Audit log** `logger.rs` | `path`, `path.1` ... `path.10` | stat, remove, rename, open, write; no lock | other hooks' processes | sizes bounded, newest kept, losses bounded |
| **Hook adapters** `adapters/*` | one process per hook | read, decode, decide, log, answer; every failure path | agent runtime, evaluator, log | denials hold; Claude fails to ask or block; Codex fails open and says so |
| **Evaluator** `evaluator.rs` | none | policy, overrides, judge, log entry | policy, judge, log | the log says what was answered; lifts are attributed |
| **Command line** `cli.rs`, `main.rs` | the rules files that `init` writes | dispatch, manifest load; `check`, `rules`, `files`, `init`, `profiles` | adapters, configuration | a failed load ends as the adapter's failure; `init` installs all or is seen to have failed |
| **Policy** `policy/mod.rs` | none | leaves, extraction, worst decision, coverage gate | parser, matchers | denied anywhere is denied; allowed is vouched for everywhere |
| **Matchers, allowlist** `matching.rs`, `allowlist.rs`, `git_invocation.rs`, `descriptive_asks.rs` | none | match one command's words | policy | what an entry names is what runs; no override or stage escapes its rule |
| **Classifiers** `gh_classifier.rs`, `set_forms.rs`, `sensitive_env.rs`, `redirects.rs`, `value_safety.rs` | none | scan the words of one command | policy | what they let pass is harmless as the tool reads it |
| **Parser** `parser/convert.rs`, `helpers.rs`, `mod.rs` | none | tree-sitter's nodes to `Statement`; text and `ArgMeta` of words | policy, extraction | no command is lost; a text is the one bash gives |
| **Wrappers** `parser/wrappers.rs`, `shell_c.rs` | none | unwrap `env`, `find -exec`, `xargs`, `bash -c` ... | policy | the command that runs is found; depth limits fail safe |
| **Configuration** `config/*` | none (reads files) | discover, merge overlays, profiles, finalize | hooks, `init` | same result whatever the order of harmless parts; what is loaded is whole |
| **Output, runtime paths** `output.rs`, `runtime/*`, `domain.rs` | none | format | — | — |

Hard behaviours: the judge's loop reads the clock once per event and acts on
that reading while workers answer, die or hang; workers race with their cancel
flag and timeout; hooks of parallel tool calls rotate one log without a lock and
may be killed by the runtime between any two system calls; each hook has six or
more places to fail, with a different duty under each runtime; and four
recursions hand commands to one another when wrappers are nested. `init`,
hooks, the judge and the user share the configuration's files without a lock.
And the scanners of a command's words have to agree with bash, `env`, `xargs`,
`git`, `gh` or python on where an option ends, of which they know only some:
no concurrency there, but more combinations than tests. They are
listed, line by line, under `hazards` in `PROJECT.json`.

## 2. Modules

```
JudgeContract <- instantiated by - JudgeOrchestrator <- extended by - JudgeRun
JudgeRun, CodeExtraction, Installation <- JudgeProofs
AuditLog <- AuditLogProofs               HookSession <- HookSessionProofs
PolicyEvaluation <- PolicyEvaluationProofs
ConfigFinalize <- ConfigFinalizeProofs   ParserConversion
JudgeRequest <- JudgeRequestProofs       CommandWords, JudgeRequestProofs <- CommandWordsProofs
ArgText, WrapperArgs, Classifiers, RuleMatching, JudgeRequest
                          <- extended by - CommandWords
Recursion <- JudgeProofs, PolicyEvaluationProofs, ConfigFinalizeProofs, JudgeRequestProofs
```

How they meet: Installation decides which rules files a hook loads, ConfigFinalize what
becomes of them, HookSession what the hook then does; ParserConversion gives the
tree and ArgText and WrapperArgs the words that PolicyEvaluation, RuleMatching and
Classifiers judge; CodeExtraction and JudgeRequest say what the judge of
HookSession is asked, and JudgeOrchestrator how it answers. Each hands the other only
a finished value, so they are composed by that value's set: a decision, a tree,
a set of facts.

**JudgeContract** is what the evaluator relies on: the judge answers once, and
answers *allow* only if a provider said so.

**JudgeOrchestrator** is the loop. Its variables are the code's: `disabled`,
`nonconforming`, `failures`, `marker`, `nextLaunchAt`, `promoted` are the fields
of `ProvState`; `inFlight` and `owner` the map; `records` the report's attempts.
`clock` is the monotonic clock and `now` the loop's last reading of it, taken
only where the code calls `clock.now_ms()` or receives an arrival. `BeginPass`, `Launch`,
`Skip` and `BeginWait` are the launch pass, one provider at a time, `BeginWait` with
the computation of the next wake-up; `Exhaust` the two ways out without a
verdict; `Wake`, `ArriveVerdict` and `ArriveFailure` the three results of
`wait_next`; `CancelNext` and `JoinWorker` the loops that cancel what is in
flight and drop its handle, which joins the thread; `Return` the return.
`Send` and `EndCancelled` are all the loop knows of a worker: it sends at most
once, and may end silently when cancelled. `Tick` is time. History variables
(`firstVerdict`, `failedAt`) are written only and guard nothing.

**JudgeRun** replaces `Send` and `EndCancelled` by `run_attempt` of
`provider.rs`: `CreateOut`, `CreateErr`, `SpawnChild`, then the poll loop in the
order of the code (`PollExited`, `PollBroken`, `PollCancelled`, `PollTimeout`), each with
its cleanup and its message. A child exits when it likes, with any output and
any status, or never. `Classify` is `outcome.rs` over what `parse_output` tells
apart. The refinement to JudgeOrchestrator is the identity on its variables, so
`RunsTheLoop` is simply `Spec` and `IsARunner` is `FairSpec`.

**AuditLog** has one action per system call of `rotate_logs` and `log_decision`.
A file is an inode, so a rename moves it under the feet of a writer that has
opened it. Each writer is a hook process, which starts over in a new invocation
and may be killed between any two calls. A write is one `O_APPEND` write.

**HookSession** is one tool call: the runtime, the hook process or processes it
starts, and the log. `session` holds what is fixed for a call (runtime, wiring,
tool, the policy's decision, flags). `LoadRules`, `ReadInput`,
`FinalizeConfig`, `Evaluate`, `Judge`, `WriteLog`, `Answer`, `Emit` are the
stages in the order of `cli.rs`, the adapters and `evaluator.rs`, each with its
failures. What the runtimes do with an answer is outside the repository; it is
modelled from the README (`ClaudeReacts`, `CodexReacts`, `UserAnswers`) and
marked external in the map. So is `Killed`, the runtime's hook timeout.

**PolicyEvaluation** writes a statement tree node by node, so that every tree up
to a size is a reachable state, and `Evaluation` is the translation of
`evaluate` over it: `Flatten`, `CollectSubstitutionLeaves`, `CollectPipelines`,
`ExtractInnerCommands` (with its depth limit), `ExtraLeaves`, `EvaluateLeaf`,
`AllCovered` and the gate. What a rule, an allowlist entry or a classifier says
of one command is a set of facts on it; the facts are the data, all the control
is kept. Recursion is written as recursive functions over the tree.

**ConfigFinalize** writes the two overlay files setting by setting, as their
user does, and takes `finalize_config` as a function of the files and the
command line: `Loads`, `EdgesAreDeclaredOnce`, `Validated` and `ChainsHold` are
the places where it returns an error, in its order; `TopLevel`, then
`ApplyStep` for each profile of `Chain` (`Applied`), then the flags are what it builds.
Rules meet only others of their id, so a list of rules is kept for each id.
`ProfilesCommandAccepts` is the copy of the checks in `longline profiles`. The
properties compare with a reference that has no order of steps: a set of
layers with a rank.

**Installation** is the configuration directory. `BeginInit`, `OpenRules`, `WriteRules`,
`OpenSettings`, `WriteSettings` are `run_init`, one action per open and write (two
for a write that is cut in parts), `InterruptInit` its kill or failure.
`ReadManifest` and `ReadInclude` are the load of the rules by a hook.
`CheckSettings` to `Rename` are `ensure_settings_file`, `GiveUpSettings` the
failure of any of its steps, `LaunchClaude` the later moment at which the
provider reads the file. What a file holds is whose text it is and whether whole.
Its state and steps are named `Install...`, so that JudgeProofs can extend it too:
the judge's settings file is among those files.

**ParserConversion** writes a syntax tree of tree-sitter-bash node by node,
within the grammar of tree-sitter-bash 0.25 as far as its kinds are told apart
(`Slots`), and translates each converter, the merging of ERROR nodes, the spreading of
redirects (`InjectRedirects`) and `flatten`. The grammar is generated code outside
the repository. The slots follow it also where no converter looks: a
`heredoc_redirect` holds, after its delimiter, the redirects and further words of its
line and the pipeline or the right side of `&&` or `||` that the line goes on with; a
function definition and a test hold redirects of their own.

**ArgText**, **WrapperArgs**, **Classifiers**, **RuleMatching** and
**JudgeRequest** are functions of a command's words: the text and `ArgMeta` of
one word, character by character of ten classes; the option scanners of
wrappers, shells and launchers; the classifiers; rules, entries and git's
globals; the judge's prompt and its provider's command. A word stands for the
class the code's tables put it in, or none. Beside each function stands what the
scanned tool makes of the same words (`RunsAt`, `GhRuns`, `Operands`, `BashText`
..., external in the map), for wrappers, gh and git under every assumption on which unknown options
take a value (`Readings`, `GhReadings`, `ReadingsOf`). **CommandWords** types a command word by word, for
each scan, so that each command is a reachable state, and holds the properties.

**CodeExtraction** types a command line of several commands with redirects and
heredocs, and has both sides: the extractors in their order (`ExtractCode`,
`InnerCode`, `EffectiveCwd`), and what each command of the line runs when it
is reached, in which directory, after which writes (`Runs`, `Directory`,
`Contents`). Its state and steps are named `Line...`, so that JudgeProofs can
extend both it and JudgeRun.

## 3. Runs

| Run | States | Shows |
|---|---|---|
| `judge_orchestrator` | 411 105 | all properties of the loop, with liveness |
| `judge_run` | 553 264 | the process layer is a runner as the loop expects it, and cleans up |
| `audit_log` | 190 162 | bounds of size and loss with two writers and a kill |
| `hook_session` | 159 646 | every session of both runtimes with every failure |
| `policy_evaluation` | 826 336 | every command line of up to four statements |
| `config_finalize` | 361 360 | every pair of overlay files of up to three settings |
| `installation` | 10 095 688 | two inits, a load, a judge and a user on the same files |
| `parser_conversion` | 3 731 522 | every syntax tree of up to six nodes |
| `command_words` | 698 193 | every command of up to four words, for 47 wrappers and shells |
| `code_extraction` | 1 854 548 | every line of up to four commands, words and redirects |
| `parser_extracted`, `code_extraction_chained` | | one disagreement each of the code with its documentation (section 6) |

**judge_orchestrator** checks that what arrives is an answer of an attempt in
flight, so the `expect` in `orchestrate` never fires (`ArrivalsAreKnown`); that
each launch has one record (`EveryLaunchIsReported`); that the first verdict
wins; that retries keep their floor; that the loop keeps its contract; and that
it ends. What else was checked of it is now proved (section 5). *Bounds.* Two
providers are all the code ever has. With a budget of 4, hedge at 2, backoff 2
growing to 3 with jitter and three attempts there are behaviours with a retry
before, at and after the hedge, with a promoted hedge, with the cap reached and
not reached, and with a backoff that ends too late for another launch; the clock
goes one past the deadline, beyond which nothing in the code depends on it. The
theorems of section 5 remove all these bounds for the safety properties.

**judge_run** has a budget of 1, a hedge at once and a timeout of 1: both
workers run at the same time, a timeout can fall before, on or after the deadline, and each
worker can be cancelled at each of its steps. Retries need no further bounds here
since every behaviour of the runner is one of the loop's (`IsARunner`; for all
parameters `RunImplementsLoop`). `IsARunner` includes the loop's fairness, so the
judge returns even if no child ever exits.

**audit_log** has two writers, two rotated files (ten in the code) and a limit
of two records. `LossNeedsRetention` and `KeptAreNewest` are about rotations
that do not overlap, killed or not; `SizeIsBounded` about any interleaving, where
something is to be rotated: with `MaxBytes` or `Keep` zero, `rotate_logs` returns at
once (`logger.rs:67`) and the file grows.
Nine invocations fill all files and begin to drop; two kept files suffice for a
gap in the numbering to occur between a middle and a last file. Deadlock is not
checked because the invocations run out.

**hook_session** enumerates all sessions; there is no bound besides the two
hooks a call can have. `DenyHolds`, `ClaudeFailsSafe`, `CodexFailuresAreLogged`
are the fail directions of the two runtimes; `AnswerIsLogged` and
`LiftsAreAttributed` relate log and answer; `EveryCallIsSettled` is liveness.

**policy_evaluation** has trees of up to four nodes with up to two commands
that are neither unknown nor merely allowlisted, and a depth limit of two (16 in the code for
each recursion), so that chains longer than the limit exist. Four nodes suffice for
each pair of constructions to be nested in one another, next to a sibling.
`DenialIsFinal` allows one exception, which is what the code promises: a
command hidden beyond the depth limit makes the line an ask. `AllowIsVouched`
compares with a reference that looks at each command by itself.
`OneMoreNeverHelps` is monotonicity in the parts of a list or pipeline; it needs a
default that is not to deny (section 6). Deadlock
is not checked because the tree is full in the end.

**config_finalize** has files of up to three settings together, which lets a
chain have three members, a profile be spread over both files under a top-level
setting, and a circle close over both files. Entries have an empty body or one
of two that set everything to different values, so that it shows which of two
layers won; two more kinds are invalid. `FollowsPrecedence` is the ladder the
code's comments speak of, for every field and rule at once;
`WeakeningIsReported` says that `longline rules --profile` knows of each
built-in rule a profile has removed; `AcceptedIsRooted` gives the accepted
files without walking any chain; `StrangersDoNotMatter` is an action property:
writing a profile one does not inherit from changes nothing, unless it makes
the files invalid. Deadlock is not checked because the edits run out. The types
of the files, which nothing but the user writes, are left to section 5.

**installation** has two inits, one hook that reads a manifest of two includes,
and one judge with one launch; a user edits the settings once. Two includes let a
load be cut between them, and two inits let one overtake the other in each
file; a third process of a kind meets the others through the same files only. A load
and a judge share no file, so an execution has only one of them
(`OnlyLoads`, `OnlyJudges`). `LoadsAreWhole` excepts loads during which an init wrote and
files an init left torn; an init killed between two files is not excepted, since the load
must fail on the missing include. `InitIsWhole` asks that an undisturbed init
repairs whatever the others left. `SettingsAreSafe` excepts what was written
after the judge's check. Deadlock is not checked because every process ends.

**parser_conversion** has trees of up to six nodes of which two hold others:
each construction within each other one, with a command beside, before and
behind it. Here-documents and tests do not count as holding others, so `cat <<EOF | sh`
and `{ cat; } <<EOF > f` stand within each construction as well.
`LossesAreKnown` is an equivalence: a command is not seen by the
policy exactly if it stands in one of the places of `Skipped`, which the
converters leave out, what follows a here-document's delimiter among them.
`RedirectsReach` has both directions: every redirect around a command is one of its
redirects, and it has no other. It excepts the three places in which the code loses a
redirect (`DroppedRedirect`): behind a here-document's delimiter, behind a function's
body and in a test. Without any one of these exceptions the run fails.

**command_words** has commands of up to four words. A scanner has at most one
option pending, so four words hold an option, its value, a "--" and the command, or two
options in a row before it. Every word of the tables' classes is tried, with
unknown options and words made by expansions. The properties take the tool's
side: for wrappers, gh and git `WhatRunsIsFound`, `ClassifiersVouchTruly` and `AllowedIsWhatRuns` must
hold whichever unknown options take a value; for the other families of the
allowlist an unknown option is read as taking none (`ReadingsOf`). One reading is excepted for
gh, the word `status` as the value of an unknown flag (`StatusTaken`), where the code
is wrong (section 6): without that exception TLC finds commands such as `gh -x status pr edit`. The known limits are named in the
module and in section 7.

**code_extraction** has lines of up to four tokens, some of which are several
words at once (`timeout 5 python`, `cd d`), in two directories with two layouts of modules;
absolute paths lead below the home directory, the temporary one or elsewhere.
`OnlyOwnFilesAreSent` takes the roots of the code: the directory of the call, home and the temporary
directories, by which a project under `/tmp` is followed.
`JudgedCodeRuns` excepts seven named simplifications, each a definition of its
own: where none of them applies, the code the judge sees is the code that runs.
In the last three of these runs deadlock is not checked because lines and trees are full in the end.

## 4. Fairness

*JudgeOrchestrator*: weak fairness of the loop's steps (a runnable thread is
scheduled), of `Tick` (time passes) and of `EndCancelled` (a worker whose flag is set
sees it at its next poll, every 10 ms). None of `Send`: a provider need never
answer. *JudgeRun*: weak fairness of the loop, of `Tick` and of each worker
thread; none of `ChildExits`, so children may hang. That the workers then
satisfy the loop's fairness is what `IsARunner` checks. *HookSession*: weak fairness
of the start of a hook, of its steps and of the runtime's reaction; none of the
user, who may never answer, hence `EveryCallIsSettled` counts a prompt as settled.
The other modules have no liveness: logging, loading and `init` are finite
sequences of system calls, and the rest are functions of their input.

## 5. Proofs

Assumed are the conditions on the constants that each module names:
`ParamsAssumption` (all parameters are natural numbers, none, one or two providers, the
clock's bound not before the deadline), `TimeoutAssumption` (the timeout is a natural
number), `InstallationAssumption` (at least one include and one launch, and no init that
carries the user's name), and those of AuditLog (finitely many writers, bounds that
are natural numbers), CommandWords and CodeExtraction (the bound on a line's length is a
natural number), PolicyEvaluation (facts are facts, the depth limit is
positive) and ConfigFinalize (finitely many profiles, "default" and "unresolved"
among them, and none called as the model marks an unset field or the top level). The
processes of Installation may be any set. HookSession has no constants. The
theorems hold for any bound on a tree's nodes, on a file's settings or on a line's words.

None of the properties is inductive by itself. The invariants are layered. For the judge:

* `TypeInv` = `TypeOK`, `AttemptsExist` (every id in a book was handed out and
  its owner noted) and `StageAgrees` (what `pc` says of result, tag and join).
* `BooksInv` adds `RunningIsHeld` (a running worker is in flight or being
  joined), `ArrivalsAreKnown`, `BooksAgree`, `DisabledIsSilent`. `BooksAgree`
  is needed for `ArrivalsAreKnown` and conversely: an arrival clears the marker of
  the owner, which must be the arriving attempt's own.
* `VerdictInv` adds `VerdictsWait` (while the loop runs, the first verdict sent
  is still in the channel), `GaveUpIdle` and `ResultIsFirst`. It carries the refinement of JudgeContract.
* `ReportInv`, `ReasonInv`, `LaunchInv` each add what one more property needs:
  finiteness of `inFlight`; where `now` stands; that `nextLaunchAt`
  respects the floor.
* `RunInv` for JudgeRun: the types of the workers and `WorkersOwn`, which ties
  each worker's place to its child and its files, and to `running`, so that each
  step of a worker is `Send`, `EndCancelled` or a stutter of the loop.
* `PrintedInv` adds `ChildIsLate` (no child before the worker polls) and that a
  first verdict is what some child launched has printed.

Installation has three invariants beside its types (`InstallTypeInv`, `ListInv`), one per
file it is about:

* `SettingsInv`: a judge that is ready finds safe settings unless somebody has
  touched them since, and what it renames into place is safe.
* `LoadInv`: while a load is undisturbed every rules file is whole, and what it has
  read so far is whole and no longer than what the manifest lists.
* `InitInv`: while the init that began last is alone, nobody else writes and all
  files before its own place are its own. Without that middle the end, which
  is all `InitIsWhole` speaks of, does not follow from any step.

AuditLog:

* `SizeInv`: a file's records with those still to be written to it by a writer that has
  it open (`Prospect`) stay within the limit; the sizes alone are not inductive.
* `SoloInv`: while one invocation runs at a time, the place it has reached (`Course`) says
  which slots may be empty, all records are ordered by slot, and what is lost is
  older than what is kept.
* `RetentionInv`: the files behind a slot are full except for a hole (`Holes`) for each
  rotation given up and for the one under way, so a loss has that many records behind it.

HookSession: `StepInv` says what has happened by the time a stage is reached;
`DenyInv`, `ClaudeInv` and `AnswerInv` each carry one fact (a denial, a permission, the
last log entry) from the stage that makes it to the end of the call.

PolicyEvaluation, ConfigFinalize, CommandWords and CodeExtraction have only types for
invariants (`TreeInv`, `FilesInv`, `WordsInv`, `LineInv`): their properties are facts about
every tree, every pair of files and every line, and the work is in the recursive
functions they are made of. A definition
`f[x \in S] == ...` chooses a function that satisfies its equation, so each proof
starts by showing that one exists; **Recursion** has the lemmas for that, one for
functions that collect a set along the edges of a graph (`LeastSolution`), one for those that
follow one edge until they stop (`TailRecursion`), one for those that count
(`Iteration`), and for scans of a sequence one that builds something out of what
is behind (`Scanning`) and one that goes on in one of two modes
(`RememberingScan`). Inductions are over sets of numbers (`LeastNumber`, `CountingUp`,
and `CountingDown` from the end of a line), which needs
no theorem with an operator for a parameter.

* `DenialAlwaysFinal`, `AllowAlwaysVouched`: `Coverage` says that every command of a
  complete tree is among what is evaluated (`Seen`) unless something is nested too
  deep, by going down the tree (`TakenUp`) through the four recursions;
  `LeavesBind` that the decision is no weaker than that on each leaf. The
  permission needs besides which leaves stand as they are and which are extracted (`Standing`,
  `Hidden`).
* `AdditionsNeverHelp` compares two trees, of which one has another part (`AddsPart`). The
  equations of all functions that collect are stated once, as `Equations`, so that
  they can be used of both. Leaves, pipelines and the leaves of substitutions are not
  lost (`FlattenKeeps`, `PipelinesKeep`, `TopOnlyGains`), what is extracted is the same
  (`ExtrasStay`), and what is covered with the new part is so without
  (`CoveredBefore`), for which the exception of the new allowlist entry is needed.
  The hypothesis on the default is needed too: TLC finds the step that refutes the property
  with `DefaultDecision = "deny"`.
* `AcceptedAlwaysRooted`: a path along `extends` that has not come back to itself
  (`Trail`) is no longer than there are profiles, so the walk ends, and where it
  ends decides what is above its first profile (`WalkFinds`).
* `PrecedenceAlwaysFollowed`: by induction along the chain, the configuration after
  k profiles is what the precedence makes of the layers of rank up to 2k + 1
  (`Agrees`, `LayersAlong`), since each part outranks all before it (`PartFollows`).
  `WeakeningAlwaysReported` goes along the same chain with `Accounted`.
* `StrangersNeverMatter`: what a chain is made of changes only with one of its
  profiles (`StrangersMoveNothing`), so both walks and all that they build are the same.
* `NothingThatRunsIsMissed`: the scanner and the tool are two functions of the place in the
  line (`AfterFlagsScans`, `FindScans`, ...), the tool's under a guess of which unknown options take a
  value. From the end of the line: where the scanner stops at or before the place at which
  the tool does, it does so from the words before, too (`FlagsEndInTime`, `FindKeepsUp`).
* `AllowedIsRun` (of git under every reading of unknown globals, of other families under one): what is left after the globals is the tail of the line from the subcommand
  on (`StripsRest`, `StripMatches`), where the scan for the subcommand stops as well
  (`StartsAgree`), and an entry is compared with the operands of that tail (`TailMatches`).
  `GlobalsNeverMatter` compares the scans of a line and of the same line behind globals
  (`GitLooksPast`, `CodexLooksPast`); `RulesNeverMiss` follows git's overrides to the one in
  effect (`EffectiveIsGiven`).
* `VouchedIsHarmless`: one lemma for each classifier, each the same induction (`GhOnlyReads`,
  `SendsGets`, `BenignSets`, `HarmlessAssignments`, `HarmlessPrintf`, `RedirectsAreHarmless`). For gh the induction shows
  that longline's words are the tool's words with more between them (`Reading`), so the first that is not a
  flag is the same or, where the tool takes it for a value, only `status` could have vouched for it.
* `TextIsReadAsGiven`: a word without escapes is copied by both readings (`Copies`), one with them is
  unescaped alike (`BothUnescape`, `BashReadsTheSame`); what is quoted for `$'...'` is cut into one piece
  for each character, each of which is read back whatever follows it (`QuotedIsRead`), so all of
  them are (`PartsStand`, by `Flattening`).
* `JudgeIsAsked`, on the lemmas of JudgeRequestProofs: what is put into a prompt is what is given piece by piece (`SubstitutedIsFilled`),
  since behind a placeholder's brace stands its name, at which no other one starts; so
  the code stands where its placeholder was (`PlacedIsHeld`), and the format in no piece but the last.
  A provider reads the same operands with one option less (`RemovedIsUnread`, by `Shifted`), with the
  prompt behind (`ReadsLast`) and without `--ephemeral` (`StrippedReadsTheSame`): in an
  orderly command an option's value is a plain word (`Settled`), so none of the
  three changes what is an operand.
* `OwnFilesAreSent`: every extractor returns no file or one that `ReadSafeCodeFile` has let
  pass, in the directory the line has moved to, which `IsUnderSafeRoot` has let pass, or that was so for a
  statement within (`InnerCode`); the roots of both are the call's directory, home and
  the temporary directories. `LineInv` types the lines they read.

| Theorem | States |
|---|---|
| `TypeCorrect`, `ArrivalsKnown`, `BooksAlwaysAgree`, `DisabledStaysSilent`, `WorkersJoined`, `LaunchesAreReported`, `FirstVerdictAlwaysWins`, `GivingUpHasAReason` | the loop's invariants, `Spec => []...` |
| `HedgeAlwaysWaits`, `RetriesAlwaysKeepTheFloor` | its action properties |
| `ContractKept` | the loop implements JudgeContract |
| `RunImplementsLoop` | JudgeRun implements JudgeOrchestrator's `Spec` |
| `NothingLeft`, `RunKeepsContract` | no process and no file outlives its worker; the contract with the real runner |
| `VerdictsArePrinted` | the judge allows or asks only what some provider printed |
| `SettingsStaySafe`, `LoadsStayWhole`, `InitStaysWhole` | Installation's invariants, for any inits, hooks and judges |
| `SizeAlwaysBounded`, `KeptAlwaysNewest`, `LossAlwaysNeedsRetention` | AuditLog's invariants, for any writers, sizes and numbers of files |
| `DenyAlwaysHolds`, `ClaudeAlwaysFailsSafe`, `CodexFailuresAlwaysLogged`, `AnswerAlwaysLogged`, `LiftsAlwaysAttributed` | HookSession's invariants |
| `DenialAlwaysFinal`, `AllowAlwaysVouched` | PolicyEvaluation's invariants, for trees of any size and any depth limit |
| `AdditionsNeverHelp` | its action property, for the defaults to allow and to ask |
| `AcceptedAlwaysRooted`, `ProfilesCommandAlwaysAgrees`, `WeakeningAlwaysReported`, `PrecedenceAlwaysFollowed` | ConfigFinalize's invariants, for any profiles and files of any size |
| `StrangersNeverMatter` | its action property |
| `NothingThatRunsIsMissed`, `RulesNeverMiss`, `AllowedIsRun`, `GlobalsNeverMatter`, `VouchedIsHarmless`, `TextIsReadAsGiven`, `JudgeIsAsked` | CommandWords' invariants, for lines, words and prompts of any length |
| `OwnFilesAreSent` | CodeExtraction's invariant about the files that are sent, for lines of any length |

Each module with theorems has a `TypeCorrect` (`TreeCorrect` for the trees, `WordsType` and
`LineType` for the lines, `InstallType` for the installed files) of its own,
except Recursion and JudgeRequestProofs, which have only lemmas about functions. `TypeOK`, `BooksAgree`, `DisabledIsSilent`, `WorkersAreJoined`,
`GivesUpForAReason` and `HedgeWaitsItsTurn` of the loop, which these theorems prove, are in no
run any more; TLC had found them to hold on the instances of section 3.

Only model-checked:

* liveness (`Terminates`, `IsARunner`, `EveryCallIsSettled`), since TLAPS proves
  neither ENABLED nor liveness under fairness;
* ParserConversion (`LossesAreKnown`, `RedirectsReach`), which has RECURSIVE
  operators, with which the SMT backend is lost: a tree is rebuilt at every level, so that
  there is no fixed set for a recursive function to range over;
* `JudgedCodeRuns` of CodeExtraction. Its two sides share no structure that an
  induction could follow: every extractor would have to be compared with every
  program, in the places of every redirect, under seven exceptions.

## 6. Disagreements found

Each is a run whose property quotes a document or comment and is violated.

1. *Extraction* (`parser_extracted`). README 677: all commands within the
   constructs it lists are extracted. The converters of subshells and
   substitutions take the first named child of their node, so the commands of
   any further one are not evaluated, nor are those in the other places of
   `Skipped`. The widest is the rest of a here-document's line: of `cat <<EOF | sh`,
   `cat <<EOF && rm x` and `cat <<EOF > f` only `cat` is seen, since
   `parse_redirect` (`helpers.rs:280-288`) has its target by then. A function's own
   redirect (`f() { ls; } > x`) is lost in the same way.
2. *Chained cd* (`code_extraction_chained`). The comment at `evaluator.rs:449`
   says a chain of two cds and a command moves to the first directory. As `&&`
   associates to the left, the first statement of such a list is a list, and
   no cd of it is followed.

Met while reading, without a run of their own:

* README 436 says the ask is reached only after the full budget is spent or both
  providers are disabled; the attempt cap and the smallest launch end it too.
* CHANGELOG 1827 promises ten rotated files; overlapping rotations
  (`logger.rs:82`) drop records while fewer exist.
* README 653 says the profile "unresolved" marks failed profile resolution
  only; it also marks earlier failures (`codex.rs:332`).
* README 37 says the most restrictive decision of all leaves wins; the default decision
  is applied only while the worst is allow (`policy/mod.rs:200`), so with
  `default_decision: deny` an unknown command is denied, and one that asks beside it
  makes an ask of the line. `OneMoreNeverHelps` is violated there, and its theorem
  excludes that default.
* `collect_pipelines` is to collect all pipelines (`policy/mod.rs:248`), but
  leaves out those inside a stage of a pipeline.
* "Rules always take priority" (`policy/mod.rs:558`), but a descriptive ask
  overrides a permissive rule; and 373 says no bundled rule has
  `decision: allow`, where `rules/ansible.yaml:49` has.
* `gh_classifier.rs:3` speaks of provably read-only forms. The first word that is no flag
  is taken for the subcommand (62-66), behind whatever flag, so `gh -x status pr edit`
  passes for `gh status` (339-342) if `-x` takes a value. Whether a version of gh has such
  an option besides those the classifier skips is not for the repository to say;
  `StatusTaken` excepts this case, and no other, in `ClassifiersVouchTruly`.
* A hedge that waits out its relaunch floor (README 451) is released at once
  when the primary is disabled (`orchestrator.rs:385-390`), which is why
  `RetriesKeepTheFloor` exempts it.
* With a provider still enabled but unable to afford another launch the loop
  waits for what is in flight, and `could_be_eligible` counts the hedge in
  before its time (`orchestrator.rs:250-264`).
* README 459 says the settings are checked before each launch of the hedge;
  they are once per run of the judge (`invoke.rs:47`), hence `touched` in
  `SettingsAreSafe`.
* `--settings=~/x` is one word and keeps its tilde (`home.rs:18`), so the file is
  placed in a directory named `~`.
* A project's prompt that begins with a dash would be an option to the
  provider, being its last bare argument; the attempt then fails, and the call is asked.
* An *ask* under Codex prints nothing (`codex.rs:369`, `codex.rs:380`), so in a
  mode without prompts the call runs, where README 408 says it requires approval.
* `evaluator.rs` says that `cd My\ Repo` has a plain word; with its backslash
  it is `UnsafeString` by now (`helpers.rs:311`).

## 7. Not modelled

Left out for good: tree-sitter (generated code decides what nodes exist), the
wording of reasons, prompts and tables with `first_uncovered_leaf_reason` and
`command_label`, latencies in records, the subcommands that only print, and
`output.rs`. Left out so far: the reading of `ai-judge.yaml` and its defaults,
the search for the project root, `matches_redirect`, letter case and globs of
patterns. JudgeRun has no step that kills longline itself, since nothing in the
code recovers from it, and one process per attempt, the one the code waits for.

What a scan's model leaves open, each named where it is excepted:

* *CommandWords*: a tilde in a plain word is not expanded; a `+` of `find` that
  does not follow `{}`; a quoted word that looks like an option after `-c`;
  several `-v` of printf; the method in a cluster like `-iXPOST` of `gh api`;
  uv's own options before `run`; flags after "--"; the value of git's last
  global where no subcommand follows; a settings option that is the value of another option;
  the word `status` behind an unknown flag of gh. Outside its words are what `env A=$B ls`
  becomes when `$B` is split, `-ok` of `find`, and unknown options that take a value outside wrappers, gh and git.
* *ParserConversion*: `Skipped` and `DroppedRedirect`, the places in which the code loses a
  command or a redirect.
* *HookSession*: a panic outside what `claude.rs` catches (line 174).
* *CodeExtraction*: `LacksAValue`, `HeredocIsData`, `OptionIsAnothers`,
  `FormatIsText`, `ChangeIsNotFollowed`, `WriterIsGuessed`, `ReadTooEarly`. It
  abstracts from size limits, quoting within the raw text, the context note on network sources,
  the statements inside a shell's string, and redirects other than on the
  first command of a list. Checking a path and reading it are one step, a race that
  the comment above `effective_cwd_for_extract` leaves open on purpose.
* *Installation*: the content of a settings file is one of three classes.

## 8. Plan

Done: all of section 1 but the last row, and the proofs of section 5. What could come next:

1. ParserConversion with its operators written as functions of the nodes, to be
   proved about.
2. The order of the reading of `ai-judge.yaml`'s layers, beside
   ConfigFinalize, and `matches_redirect` in RuleMatching.
