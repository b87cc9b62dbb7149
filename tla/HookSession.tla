----------------------------- MODULE HookSession -----------------------------
(***************************************************************************)
(* One tool call of an agent and the longline processes that judge it:     *)
(* src/cli.rs up to the adapters, src/adapters/{claude,codex}.rs, and the  *)
(* evaluation of src/evaluator.rs.  Claude starts one hook before the      *)
(* call; Codex starts one for PreToolUse and, if it would then ask its     *)
(* user, another for PermissionRequest.  Each is a process of its own that *)
(* loads everything afresh, may fail at every stage, and may be killed by  *)
(* the hook's timeout at any moment.                                       *)
(*                                                                         *)
(* The policy's decision on the call is a parameter of the session (it is  *)
(* a function of the command and the rules), and so are the command line   *)
(* and the wiring.  What the two runtimes do with an answer is outside the *)
(* repository and taken from its README.                                   *)
(***************************************************************************)
EXTENDS Integers, Sequences, FiniteSets

VARIABLES
  session,   \* the call, the command line, the wiring; fixed
  stage,     \* the runtime: "pre", "permission", "prompt", "run", "blocked"
  pc,        \* the hook process: next step, "idle" before it, "exited" after it
  decision,  \* what the evaluation has come to
  judged,    \* a report of the AI judge belongs to that decision
  stdout,    \* the answer printed: "allow", "ask", "deny", "pass" ({}), "empty"
  exit,      \* the exit status; "killed" for none
  log,       \* the audit log
  asked,     \* history: the user was prompted
  failed,    \* history: a hook failed on the way (the kind of its failures)
  killed     \* history: a hook was killed

hookVars == <<decision, judged, stdout, exit>>
histVars == <<asked, failed, killed>>
vars == <<session, stage, pc, hookVars, log, histVars>>

-----------------------------------------------------------------------------
Decisions == {"allow", "ask", "deny"}
Events == {"PreToolUse", "PermissionRequest"}

\* The parts of a session that decide what longline does:
\*   policy     the policy's decision, "unparsed" for a command that does not
\*              parse, "none" for a call without command or path
\*   auto       the runtime runs what nobody objects to, without its user
\*   code       the command holds code that can be extracted for the judge
\*   nested     LONGLINE_JUDGE_ACTIVE is set: the agent is a judge itself
\*   writable   the audit log can be written
Sessions ==
  {s \in [runtime : {"claude", "codex"}, wired : SUBSET Events,
          tool : {"Bash", "path", "other"},
          policy : Decisions \cup {"unparsed", "none"},
          askOnDeny : BOOLEAN, askAi : BOOLEAN, progress : BOOLEAN,
          auto : BOOLEAN, cwd : BOOLEAN, code : BOOLEAN, nested : BOOLEAN,
          writable : BOOLEAN] :
     /\ s.runtime = "claude" => s.wired = {"PreToolUse"}
     /\ s.runtime = "codex" => s.wired # {} /\ s.tool # "path"
     /\ s.tool = "path" => s.policy \in {"allow", "ask", "none"}
     /\ s.tool = "other" => s.policy = "none"
     \* What tells apart nothing is fixed, to keep the sessions few.
     /\ s.tool # "Bash" => ~s.askAi /\ ~s.askOnDeny
     /\ ~s.askAi => s.cwd /\ s.code /\ ~s.nested}

Claude == session.runtime = "claude"
Codex == session.runtime = "codex"

NoEntry == "none"
Entry(d, j, p, profile) ==
  [decision |-> d, judged |-> j, parseOk |-> p, profile |-> profile,
   original |-> IF p /\ session.policy = "deny" /\ session.askOnDeny
                THEN "deny" ELSE NoEntry]

\* log_decision_to never fails its caller.
Logged(entry) == IF session.writable THEN Append(log, entry) ELSE log

\* Mutated: a hook that fails open leaves no entry.
FailOpenUnlogged(profile) ==
  /\ stdout' = "empty" /\ exit' = "0" /\ pc' = "exited"
  /\ UNCHANGED log

\* The Codex adapter's way out of every failure: nothing on stdout, status 0,
\* and an entry that says allow and that nothing was evaluated.
FailOpen(profile) ==
  /\ stdout' = "empty" /\ exit' = "0" /\ pc' = "exited"
  /\ log' = Logged([Entry("allow", FALSE, FALSE, profile) EXCEPT !.original = NoEntry])

\* The Claude adapter's two: an ask, or exit status 2, which blocks the call.
FailToAsk ==
  /\ stdout' = "ask" /\ exit' = "0" /\ pc' = "exited"
  /\ UNCHANGED log

FailToBlock ==
  /\ stdout' = "empty" /\ exit' = "2" /\ pc' = "exited"
  /\ UNCHANGED log

Fail(kind) ==
  /\ failed' = Append(failed, kind)
  /\ UNCHANGED <<session, stage, decision, judged, asked, killed>>

Continue(next) ==
  /\ pc' = next
  /\ UNCHANGED <<session, stage, stdout, exit, histVars>>

-----------------------------------------------------------------------------
Init ==
  /\ session \in Sessions
  /\ stage = "pre" /\ pc = "idle"
  /\ decision = "none" /\ judged = FALSE /\ stdout = "none" /\ exit = "none"
  /\ log = <<>> /\ asked = FALSE /\ failed = <<>> /\ killed = FALSE

Event == IF stage = "pre" THEN "PreToolUse" ELSE "PermissionRequest"

\* The runtime starts a hook that is wired for this stage.
StartHook ==
  /\ pc = "idle"
  /\ stage \in {"pre", "permission"}
  /\ Event \in session.wired
  /\ pc' = "load"
  /\ decision' = "none" /\ judged' = FALSE /\ stdout' = "none" /\ exit' = "none"
  /\ UNCHANGED <<session, stage, log, histVars>>

\* LONGLINE_MODE=progress under Claude: an empty answer ahead of everything.
Progress ==
  /\ pc = "load"
  /\ Claude /\ session.progress
  /\ stdout' = "pass" /\ exit' = "0" /\ pc' = "exited"
  /\ UNCHANGED <<session, stage, decision, judged, log, histVars>>

LoadRules ==
  /\ pc = "load"
  /\ ~(Claude /\ session.progress)
  /\ Continue("read")
  /\ UNCHANGED <<decision, judged, log>>

LoadRulesFails ==
  /\ pc = "load"
  /\ ~(Claude /\ session.progress)
  /\ IF Codex THEN FailOpen("unresolved") ELSE FailToBlock
  /\ Fail("load")

\* Mutated: a tool Codex has no policy for is left unanswered.
ReadInputOfBash ==
  /\ pc = "read"
  /\ Claude \/ session.tool = "Bash"
  /\ Continue("finalize")
  /\ UNCHANGED <<decision, judged, log>>

\* The input is read and parsed.  A tool Codex has no policy for ends here; with
\* Claude the configuration is loaded even for a tool that passes through.
ReadInput ==
  /\ pc = "read"
  /\ \/ /\ Claude \/ session.tool = "Bash"
        /\ Continue("finalize")
     \/ /\ Codex /\ session.tool = "other"
        /\ stdout' = "empty" /\ exit' = "0" /\ pc' = "exited"
        /\ UNCHANGED <<session, stage, histVars>>
  /\ UNCHANGED <<decision, judged, log>>

ReadInputFails ==
  /\ pc = "read"
  /\ IF Codex THEN FailOpen("unresolved") ELSE FailToAsk
  /\ Fail("input")

FinalizeConfig ==
  /\ pc = "finalize"
  /\ IF session.tool = "other"
     THEN /\ stdout' = "pass" /\ exit' = "0" /\ pc' = "exited"
          /\ UNCHANGED <<session, stage, histVars>>
     ELSE Continue("evaluate")
  /\ UNCHANGED <<decision, judged, log>>

FinalizeConfigFails ==
  /\ pc = "finalize"
  /\ IF Codex THEN FailOpen("unresolved") ELSE FailToBlock
  /\ Fail("profile")

\* A panic while finalizing; for a tool that passes through nothing catches it.
FinalizeConfigPanics ==
  /\ pc = "finalize"
  /\ \/ Codex /\ FailOpen("unresolved")
     \/ Claude /\ session.tool # "other" /\ FailToAsk
     \/ /\ Claude /\ session.tool = "other"
        /\ stdout' = "empty" /\ exit' = "101" /\ pc' = "exited"
        /\ UNCHANGED log
  /\ Fail("profile")

-----------------------------------------------------------------------------
Overridden == session.policy = "deny" /\ session.askOnDeny

\* What the policy and --ask-on-deny make of the call, before the judge.
PolicyDecision ==
  CASE Overridden \/ session.policy = "unparsed" -> "ask"
    [] session.policy = "none" -> "allow"
    [] session.policy \in Decisions /\ ~Overridden -> session.policy

\* Mutated: the judge is asked about denied commands too.
JudgeIsDueOnDeny ==
  /\ session.askAi /\ PolicyDecision \in {"ask", "deny"}
  /\ session.policy # "unparsed"
  /\ session.cwd /\ ~session.nested /\ session.code

\* Is the AI judge to be asked?
JudgeIsDue ==
  /\ session.askAi /\ PolicyDecision = "ask"
  /\ session.policy # "unparsed"
  /\ session.cwd /\ ~session.nested /\ session.code

\* Only shell commands are logged.
Evaluate ==
  /\ pc = "evaluate"
  /\ decision' = PolicyDecision
  /\ judged' = FALSE
  /\ Continue(IF session.tool = "path" \/ session.policy = "none" THEN "emit"
              ELSE IF JudgeIsDue THEN "judge" ELSE "log")
  /\ UNCHANGED log

\* The judge answers, with the fallback ask if no provider did.
Judge ==
  /\ pc = "judge"
  /\ decision' \in {"allow", "ask"}
  /\ judged' = TRUE
  /\ Continue("log")
  /\ UNCHANGED log

\* Mutated: the entry keeps the policy's decision after a lift.
WriteLogUnjudged ==
  /\ pc = "log"
  /\ log' = Logged(Entry(PolicyDecision, judged, session.policy # "unparsed", "resolved"))
  /\ Continue("emit")
  /\ UNCHANGED <<decision, judged>>

\* The entry is written before the answer is given.
WriteLog ==
  /\ pc = "log"
  /\ log' = Logged(Entry(decision, judged, session.policy # "unparsed", "resolved"))
  /\ Continue("emit")
  /\ UNCHANGED <<decision, judged>>

\* Mutated: the Claude adapter, too, answers a panic with nothing.
EvaluatorPanicsOpen ==
  /\ pc \in {"evaluate", "judge", "log"}
  /\ FailOpen("resolved")
  /\ Fail("evaluator")

\* A panic of the parser, the policy, the judge or the logger.
EvaluatorPanics ==
  /\ pc \in {"evaluate", "judge", "log"}
  /\ IF Codex THEN FailOpen("resolved") ELSE FailToAsk
  /\ Fail("evaluator")

\* Mutated: Codex is told of a denial when it asks for permission only.
AnswerWithoutPreDeny ==
  CASE Claude -> decision
    [] Codex /\ Event = "PreToolUse" -> "empty"
    [] Codex /\ Event = "PermissionRequest" ->
         IF decision = "ask" THEN "empty" ELSE decision

\* Claude is told the decision; Codex can be told deny before the call, and allow
\* or deny when it asks for permission.
Answer ==
  CASE Claude -> decision
    [] Codex /\ Event = "PreToolUse" -> IF decision = "deny" THEN "deny" ELSE "empty"
    [] Codex /\ Event = "PermissionRequest" ->
         IF decision = "ask" THEN "empty" ELSE decision

Emit ==
  /\ pc = "emit"
  /\ stdout' = Answer /\ exit' = "0" /\ pc' = "exited"
  /\ UNCHANGED <<session, stage, decision, judged, log, histVars>>

\* The runtime's patience with the hook is over.
Killed ==
  /\ pc \notin {"idle", "exited"}
  /\ stdout' = "empty" /\ exit' = "killed" /\ pc' = "exited"
  /\ killed' = TRUE
  /\ UNCHANGED <<session, stage, decision, judged, log, asked, failed>>

-----------------------------------------------------------------------------
\* The runtimes.
MoveTo(s) ==
  /\ stage' = s
  /\ pc' = "idle"
  /\ asked' = (asked \/ s = "prompt")
  /\ UNCHANGED <<session, hookVars, log, failed, killed>>

\* Claude goes by the answer; without one its own permission mode decides.
ClaudeReacts ==
  /\ Claude /\ pc = "exited"
  /\ \/ (stdout = "deny" \/ exit = "2") /\ MoveTo("blocked")
     \/ stdout = "ask" /\ MoveTo("prompt")
     \/ stdout = "allow" /\ MoveTo("run")
     \/ /\ stdout \in {"pass", "empty"} /\ exit # "2"
        /\ MoveTo(IF session.auto THEN "run" ELSE "prompt")

HookIsOver == pc = "exited" \/ (pc = "idle" /\ Event \notin session.wired)
Said(answer) == pc = "exited" /\ stdout = answer

\* Codex without a deny runs the call at once if its mode lets it, and otherwise
\* asks for permission: its hook first, then its user.
CodexReacts ==
  /\ Codex /\ HookIsOver
  /\ \/ /\ stage = "pre"
        /\ MoveTo(IF Said("deny") THEN "blocked"
                  ELSE IF session.auto THEN "run" ELSE "permission")
     \/ /\ stage = "permission"
        /\ MoveTo(IF Said("deny") THEN "blocked"
                  ELSE IF Said("allow") THEN "run" ELSE "prompt")

UserAnswers ==
  /\ stage = "prompt"
  /\ MoveTo("run") \/ MoveTo("blocked")

Settled == stage \in {"run", "blocked"} /\ UNCHANGED vars

HookStep ==
  \/ Progress \/ LoadRules \/ ReadInput \/ FinalizeConfig
  \/ Evaluate \/ Judge \/ WriteLog \/ Emit

HookFailure ==
  \/ LoadRulesFails \/ ReadInputFails \/ FinalizeConfigFails
  \/ FinalizeConfigPanics \/ EvaluatorPanics

Next ==
  \/ StartHook \/ HookStep \/ HookFailure \/ Killed
  \/ ClaudeReacts \/ CodexReacts \/ UserAnswers \/ Settled

Spec == Init /\ [][Next]_vars

\* A hook runs on (the judge it may wait for ends: Terminates of
\* JudgeOrchestrator) and the runtime reacts; no user need ever answer.
FairSpec ==
  /\ Spec
  /\ WF_vars(StartHook) /\ WF_vars(HookStep)
  /\ WF_vars(ClaudeReacts \/ CodexReacts)

-----------------------------------------------------------------------------
Entries == [decision : Decisions, judged : BOOLEAN, parseOk : BOOLEAN,
            profile : {"resolved", "unresolved"}, original : {"deny", NoEntry}]

TypeOK ==
  /\ session \in Sessions
  /\ stage \in {"pre", "permission", "prompt", "run", "blocked"}
  /\ pc \in {"idle", "load", "read", "finalize", "evaluate", "judge", "log",
             "emit", "exited"}
  /\ decision \in Decisions \cup {"none"}
  /\ judged \in BOOLEAN /\ asked \in BOOLEAN /\ killed \in BOOLEAN
  /\ stdout \in Decisions \cup {"none", "pass", "empty"}
  /\ exit \in {"none", "0", "2", "101", "killed"}
  /\ log \in Seq(Entries)
  /\ failed \in Seq({"load", "input", "profile", "evaluator"})
  \* Of two hooks at most, each leaves at most one entry and fails at most once.
  /\ Len(log) <= 2 /\ Len(failed) <= 2

Undisturbed == failed = <<>> /\ ~killed /\ ~(Claude /\ session.progress)

\* A call that the policy denies is never run, and its user is not even asked,
\* while every hook comes to its end.  Under Codex this takes the PreToolUse hook
\* unless its mode is one that asks for permission.
DenyHolds ==
  (/\ session.policy = "deny" /\ ~session.askOnDeny /\ Undisturbed
   /\ "PreToolUse" \in session.wired \/ ~session.auto)
     => stage # "run" /\ ~asked

\* Whatever fails inside a hook of Claude, and wherever, the call is not run
\* unasked for that: it takes an allow of the policy, or of the judge on a call
\* whose outcome was to ask, or the user's word.
ClaudeFailsSafe ==
  (/\ Claude /\ stage = "run" /\ session.tool # "other"
   /\ ~session.progress /\ ~killed)
     => \/ asked
        \/ session.policy \in {"allow", "none"}
        \/ judged /\ session.policy # "unparsed"
           /\ (session.policy = "deny" => session.askOnDeny)

IsFailOpen(entry) == ~entry.parseOk /\ entry.decision = "allow"
FailOpens == {i \in DOMAIN log : IsFailOpen(log[i])}

\* Codex fails open, but never silently: each failed hook leaves its own entry.
CodexFailuresAreLogged ==
  (Codex /\ session.writable) => Cardinality(FailOpens) = Len(failed)

\* The last word on a shell command is in the log as it was given: the decision
\* after overrides and lifts, with what an override hid.
AnswerIsLogged ==
  (/\ pc = "exited" /\ exit = "0" /\ failed = <<>> /\ decision # "none"
   /\ session.tool = "Bash" /\ session.policy # "none" /\ session.writable)
     => /\ log # <<>>
        /\ LET entry == log[Len(log)]
           IN /\ entry.decision = decision
              /\ entry.judged = judged
              /\ (entry.original = "deny") = (session.policy = "deny" /\ session.askOnDeny)

\* Nothing is logged as evaluated and allowed that neither the policy nor the
\* judge allowed, and the judge never lifts a denial that was not overridden.
LiftsAreAttributed ==
  \A i \in DOMAIN log :
    (log[i].parseOk /\ log[i].decision = "allow" /\ session.policy # "allow")
      => /\ log[i].judged /\ session.askAi
         /\ session.policy = "deny" => log[i].original = "deny"

\* A call never hangs on longline: it is run, blocked, or in the user's hands.
EveryCallIsSettled == <>(stage \in {"prompt", "run", "blocked"})
=============================================================================
