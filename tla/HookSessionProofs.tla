-------------------------- MODULE HookSessionProofs --------------------------
(***************************************************************************)
(* What HookSession promises, proved: types, then where a hook's decision  *)
(* comes from at each of its steps (StepInv), then each property with what *)
(* it needs beyond that.  There are no constants; what the proofs are      *)
(* about is every session, of any length of log and failures.              *)
(***************************************************************************)
EXTENDS HookSession, FiniteSetTheorems, TLAPS

-----------------------------------------------------------------------------
(* Types, and what each hook adds to the log.                              *)

\* A hook leaves its entry, and fails, once; the second one runs in "permission".
Over(steps) == (IF stage = "pre" THEN 0 ELSE IF stage = "permission" THEN 1 ELSE 2)
                 + (IF pc \in steps THEN 1 ELSE 0)

TypeInv ==
  /\ TypeOK
  /\ pc # "idle" => stage \in {"pre", "permission"}
  /\ pc \in {"log", "emit"} => decision \in Decisions
  /\ Len(log) <= Over({"emit", "exited"}) /\ Len(failed) <= Over({"exited"})

\* The types hold from the start.
LEMMA TypeInvInit == Init => TypeInv
<1> SUFFICES ASSUME Init PROVE TypeInv
  OBVIOUS
<1>1. log \in Seq(Entries) /\ failed \in Seq({"load", "input", "profile", "evaluator"})
  BY DEF Init
<1>2. Len(log) = 0 /\ Len(failed) = 0
  BY DEF Init
<1>3. Len(log) <= 2 /\ Len(failed) <= 2
  BY <1>2
<1>4. TypeOK
  BY <1>1, <1>3, Zenon DEF Init, TypeOK
<1> QED
  BY <1>2, <1>4 DEF Init, TypeInv, Over

\* What is logged is an entry.
LEMMA EntryType ==
  ASSUME NEW d \in Decisions, NEW j \in BOOLEAN, NEW p \in BOOLEAN,
         NEW profile \in {"resolved", "unresolved"}
  PROVE  Entry(d, j, p, profile) \in Entries
BY DEF Entry, Entries, NoEntry

\* So is the entry of a call that is let through after an error.
LEMMA FailOpenEntryType ==
  ASSUME NEW profile \in {"resolved", "unresolved"}
  PROVE  [Entry("allow", FALSE, FALSE, profile) EXCEPT !.original = NoEntry] \in Entries
<1>1. Entry("allow", FALSE, FALSE, profile) \in Entries
  BY EntryType DEF Decisions
<1>2. \A e \in Entries : [e EXCEPT !.original = NoEntry] \in Entries
  BY DEF Entries
<1> QED
  BY <1>1, <1>2

\* The session does not change, the log grows by an entry at most.
LEMMA LogGrows ==
  ASSUME log \in Seq(Entries), NEW e \in Entries, log' = Logged(e)
  PROVE  log' \in Seq(Entries) /\ Len(log') <= Len(log) + 1
BY DEF Logged

\* Policy and overrides come to a decision in every session.
LEMMA PolicyDecides == session \in Sessions => PolicyDecision \in Decisions
BY DEF Sessions, PolicyDecision, Overridden, Decisions

\* Every step of a hook or a runtime keeps the types.
LEMMA TypeInvStep == TypeInv /\ [Next]_vars => TypeInv'
<1> SUFFICES ASSUME TypeInv, [Next]_vars PROVE TypeInv'
  OBVIOUS
<1> USE DEF TypeInv, TypeOK, Over
<1>1. CASE StartHook
  BY <1>1 DEF StartHook, histVars
<1>2. CASE Progress \/ LoadRules \/ ReadInput \/ FinalizeConfig
  BY <1>2 DEF Progress, LoadRules, ReadInput, FinalizeConfig, Continue, histVars
<1>3. CASE Evaluate
  <2>1. decision' \in Decisions /\ pc' \in {"emit", "judge", "log"}
    BY <1>3, PolicyDecides DEF Evaluate, Continue
  <2>2. /\ pc = "evaluate" /\ judged' \in BOOLEAN
        /\ UNCHANGED <<session, stage, stdout, exit, log, asked, failed, killed>>
    BY <1>3 DEF Evaluate, Continue, histVars
  <2> QED
    BY <2>1, <2>2
<1>4. CASE Judge
  BY <1>4 DEF Judge, Continue, histVars, Decisions
<1>5. CASE WriteLog
  <2>1. PICK e \in Entries : log' = Logged(e)
    BY <1>5, EntryType DEF WriteLog
  <2> QED
    BY <1>5, <2>1, LogGrows DEF WriteLog, Continue, histVars
<1>6. CASE Emit
  <2>1. Answer \in Decisions \cup {"empty"}
    BY <1>6 DEF Emit, Answer, Claude, Codex, Sessions, Event
  <2> QED
    BY <1>6, <2>1 DEF Emit, histVars
<1>7. CASE HookFailure
  <2>1. PICK kind \in {"load", "input", "profile", "evaluator"} : Fail(kind)
    BY <1>7 DEF HookFailure, LoadRulesFails, ReadInputFails, FinalizeConfigFails,
       FinalizeConfigPanics, EvaluatorPanics
  <2>2. /\ pc \notin {"idle", "emit", "exited"} /\ pc' = "exited"
        /\ stdout' \in {"ask", "empty"} /\ exit' \in {"0", "2", "101"}
        /\ log' = log \/ \E e \in Entries : log' = Logged(e)
    <3>1. ASSUME NEW profile \in {"resolved", "unresolved"}, FailOpen(profile)
          PROVE  /\ stdout' = "empty" /\ exit' = "0" /\ pc' = "exited"
                 /\ \E e \in Entries : log' = Logged(e)
      BY <3>1, FailOpenEntryType DEF FailOpen
    <3> QED
      BY <1>7, <3>1 DEF HookFailure, LoadRulesFails, ReadInputFails, FinalizeConfigFails,
         FinalizeConfigPanics, EvaluatorPanics, FailToAsk, FailToBlock
  <2>3. log' \in Seq(Entries) /\ Len(log') <= Len(log) + 1
    BY <2>2, LogGrows
  <2>4. failed' \in Seq({"load", "input", "profile", "evaluator"}) /\ Len(failed') = Len(failed) + 1
    BY <2>1 DEF Fail
  <2> QED
    BY <2>1, <2>2, <2>3, <2>4 DEF Fail, Decisions
<1>8. CASE Killed
  BY <1>8 DEF Killed
<1>9. CASE ClaudeReacts \/ CodexReacts \/ UserAnswers
  <2>1. PICK s \in {"permission", "prompt", "run", "blocked"} :
          MoveTo(s) /\ (s = "permission" => stage = "pre")
    BY <1>9 DEF ClaudeReacts, CodexReacts, UserAnswers
  <2>2. asked' \in BOOLEAN
    BY <2>1 DEF MoveTo
  <2> QED
    BY <2>1, <2>2 DEF MoveTo, hookVars
<1>10. CASE UNCHANGED vars
  BY <1>10 DEF vars, hookVars, histVars
<1> QED
  BY <1>1, <1>2, <1>3, <1>4, <1>5, <1>6, <1>7, <1>8, <1>9, <1>10 DEF Next, HookStep, Settled

-----------------------------------------------------------------------------
(* The steps of a hook.                                                    *)

Hooked == pc # "idle" => stage \in {"pre", "permission"} /\ Event \in session.wired

\* Where a decision comes from: the policy with its overrides, or the judge, who
\* is asked only about a command whose outcome was to ask.
Founded ==
  \/ decision = PolicyDecision /\ ~judged
  \/ judged /\ JudgeIsDue /\ decision \in {"allow", "ask"}

StepInv ==
  /\ Hooked
  /\ pc \in {"load", "read", "finalize", "evaluate"} => decision = "none"
  /\ pc \in {"judge", "log"} => session.tool # "path" /\ session.policy # "none"
  /\ pc = "judge" => JudgeIsDue
  /\ pc \in {"log", "emit"} => Founded

\* The invariant of the steps holds from the start, and every step keeps it.
LEMMA StepInvInit == Init => StepInv
BY DEF Init, StepInv, Hooked

\* The call, the command line and the wiring are what they were.
LEMMA SessionIsFixed == [Next]_vars => session' = session
BY DEF Next, StartHook, HookStep, HookFailure, Progress, LoadRules, ReadInput, FinalizeConfig,
   Evaluate, Judge, WriteLog, Emit, LoadRulesFails, ReadInputFails, FinalizeConfigFails,
   FinalizeConfigPanics, EvaluatorPanics, Killed, ClaudeReacts, CodexReacts, UserAnswers,
   Settled, Fail, Continue, MoveTo, vars

\* What each step has behind it, the next step has.
LEMMA StepInvStep == TypeInv /\ StepInv /\ [Next]_vars => StepInv'
<1> SUFFICES ASSUME TypeInv, StepInv, [Next]_vars PROVE StepInv'
  OBVIOUS
<1> USE DEF StepInv, Hooked
<1>1. session' = session
  BY SessionIsFixed
<1>2. CASE StartHook
  BY <1>1, <1>2 DEF StartHook, Event
<1>3. CASE Progress \/ LoadRules \/ ReadInput \/ FinalizeConfig \/ Emit \/ Killed
  BY <1>1, <1>3 DEF Progress, LoadRules, ReadInput, FinalizeConfig, Emit, Killed, Continue, Event, hookVars
<1>4. CASE Evaluate
  BY <1>1, <1>4 DEF Evaluate, Continue, Founded, JudgeIsDue, PolicyDecision, Overridden, Event, TypeInv, TypeOK, Sessions
<1>5. CASE Judge
  BY <1>1, <1>5 DEF Judge, Continue, Founded, JudgeIsDue, PolicyDecision, Overridden, Event
<1>6. CASE WriteLog
  BY <1>1, <1>6 DEF WriteLog, Continue, Founded, JudgeIsDue, PolicyDecision, Overridden, Event
<1>7. CASE HookFailure
  BY <1>1, <1>7 DEF HookFailure, LoadRulesFails, ReadInputFails, FinalizeConfigFails,
     FinalizeConfigPanics, EvaluatorPanics, FailOpen, FailToAsk, FailToBlock, Fail, Event
<1>8. CASE ClaudeReacts \/ CodexReacts \/ UserAnswers
  BY <1>1, <1>8 DEF ClaudeReacts, CodexReacts, UserAnswers, MoveTo
<1>9. CASE UNCHANGED vars
  BY <1>9 DEF vars, hookVars, Event, Founded, JudgeIsDue, PolicyDecision, Overridden
<1> QED
  BY <1>2, <1>3, <1>4, <1>5, <1>6, <1>7, <1>8, <1>9 DEF Next, HookStep, Settled

-----------------------------------------------------------------------------
(* A denial holds.                                                         *)

\* A policy's denial with nothing to override it, in a session whose hooks are in
\* the call's way: before it, or at the question without which it is not run.
Denied ==
  /\ session.policy = "deny" /\ ~session.askOnDeny
  /\ "PreToolUse" \in session.wired \/ ~session.auto

DenyInv ==
  Denied /\ Undisturbed =>
    /\ ~asked
    /\ \/ stage \in {"pre", "blocked"}
       \/ stage = "permission" /\ Codex /\ "PreToolUse" \notin session.wired
    /\ pc \in {"log", "emit"} => decision = "deny"
    /\ pc = "exited" => stdout = "deny"

\* No step takes a denied call past its hooks.
LEMMA DenyInvStep == TypeInv /\ StepInv /\ DenyInv /\ [Next]_vars => DenyInv'
<1> SUFFICES ASSUME TypeInv, StepInv, DenyInv, [Next]_vars, (Denied /\ Undisturbed)'
             PROVE  DenyInv'
  BY DEF DenyInv
<1>1. session' = session
  BY SessionIsFixed
<1>2. Denied /\ session.tool = "Bash"
  BY <1>1 DEF Denied, TypeInv, TypeOK, Sessions
<1>3. PolicyDecision = "deny" /\ ~JudgeIsDue
  BY <1>2 DEF Denied, PolicyDecision, JudgeIsDue, Overridden, Decisions
<1>4. Undisturbed /\ ~HookFailure /\ ~Killed
  <2>1. ~HookFailure
    <3>1. ASSUME NEW kind, Fail(kind) PROVE FALSE
      BY <3>1 DEF Fail, TypeInv, TypeOK, Undisturbed
    <3> QED
      BY <3>1 DEF HookFailure, LoadRulesFails, ReadInputFails, FinalizeConfigFails,
         FinalizeConfigPanics, EvaluatorPanics
  <2>2. ~Killed
    BY DEF Killed, Undisturbed
  <2>3. failed' = failed /\ killed' = killed
    BY <2>1, <2>2 DEF Next, StartHook, HookStep, Progress, LoadRules, ReadInput, FinalizeConfig,
       Evaluate, Judge, WriteLog, Emit, ClaudeReacts, CodexReacts, UserAnswers, Settled,
       Continue, MoveTo, histVars, vars
  <2> QED
    BY <1>1, <2>1, <2>2, <2>3 DEF Undisturbed, Claude
<1>5. CASE StartHook
  BY <1>1, <1>4, <1>5, <1>2 DEF StartHook, DenyInv, histVars, Codex
<1>6. CASE HookStep
  <2>1. /\ asked' = asked /\ stage' = stage
    BY <1>6 DEF HookStep, Progress, LoadRules, ReadInput, FinalizeConfig, Evaluate, Judge,
       WriteLog, Emit, Continue, histVars
  <2>2. pc' \in {"log", "emit"} => decision' = "deny"
    BY <1>2, <1>3, <1>4, <1>6 DEF HookStep, Progress, LoadRules, ReadInput, FinalizeConfig, Evaluate,
       Judge, WriteLog, Emit, Continue, StepInv, DenyInv
  <2>3. pc' = "exited" => stdout' = "deny"
    BY <1>2, <1>3, <1>4, <1>6 DEF HookStep, Progress, LoadRules, ReadInput, FinalizeConfig, Evaluate,
       Judge, WriteLog, Emit, Continue, Answer, StepInv, DenyInv, Undisturbed, Claude, Codex,
       Event, TypeInv, TypeOK, Sessions
  <2> QED
    BY <1>1, <1>2, <1>4, <2>1, <2>2, <2>3 DEF DenyInv, Codex
<1>7. CASE ClaudeReacts \/ CodexReacts \/ UserAnswers
  <2>1. PICK s : /\ MoveTo(s)
                 /\ \/ s = "blocked"
                    \/ s = "permission" /\ Codex /\ "PreToolUse" \notin session.wired
    <3>1. ~UserAnswers
      BY <1>2, <1>4 DEF UserAnswers, DenyInv
    <3>2. CASE ClaudeReacts
      BY <1>2, <1>4, <3>2 DEF ClaudeReacts, DenyInv
    <3>3. CASE CodexReacts
      <4>1. CASE pc = "exited"
        BY <1>2, <1>4, <3>3, <4>1 DEF CodexReacts, DenyInv, Said
      <4>2. CASE pc # "exited"
        <5>1. Event \notin session.wired /\ Codex
          BY <3>3, <4>2 DEF CodexReacts, HookIsOver
        <5>2. session.wired # {} /\ session.wired \subseteq Events
          BY <5>1 DEF TypeInv, TypeOK, Sessions, Codex
        <5>3. stage = "pre" /\ "PreToolUse" \notin session.wired
          BY <1>2, <1>4, <3>3, <5>1, <5>2 DEF DenyInv, Event, Events, CodexReacts
        <5> QED
          BY <1>2, <3>3, <4>2, <5>1, <5>3 DEF CodexReacts, Said, Denied
      <4> QED
        BY <4>1, <4>2
    <3> QED
      BY <1>7, <3>1, <3>2, <3>3
  <2> QED
    BY <1>1, <1>2, <1>4, <2>1 DEF MoveTo, DenyInv, Codex
<1>8. CASE UNCHANGED vars
  BY <1>2, <1>4, <1>8 DEF vars, hookVars, histVars, DenyInv, Codex
<1> QED
  BY <1>4, <1>5, <1>6, <1>7, <1>8 DEF Next, Settled

\* A call that the policy denies is neither run nor put to the user, as long as no
\* hook fails, is killed or stands back for progress: the adapters' answers and the
\* runtimes' two stages leave no way around it.
THEOREM DenyAlwaysHolds == Spec => []DenyHolds
<1>1. Init => DenyInv
  BY DEF Init, DenyInv
<1>2. TypeInv /\ StepInv /\ DenyInv => DenyHolds
  BY DEF DenyInv, DenyHolds, Denied
<1> QED
  BY <1>1, <1>2, TypeInvInit, TypeInvStep, StepInvInit, StepInvStep, DenyInvStep, PTL DEF Spec

-----------------------------------------------------------------------------
(* A hook of Claude that fails does not let the call through.              *)

\* What stands behind an allow.
Vouched ==
  \/ session.policy \in {"allow", "none"}
  \/ /\ judged /\ JudgeIsDue
     /\ session.policy = "deny" => session.askOnDeny

\* A founded allow is the policy's, or the judge's on a call that was an ask.
LEMMA AllowsAreVouched ==
  ASSUME TypeInv, Founded, decision = "allow"
  PROVE  Vouched
<1>1. CASE decision = PolicyDecision
  BY <1>1 DEF TypeInv, TypeOK, Sessions, PolicyDecision, Overridden, Vouched, Decisions
<1>2. CASE judged /\ JudgeIsDue
  BY <1>2 DEF TypeInv, TypeOK, Sessions, JudgeIsDue, PolicyDecision, Overridden, Vouched, Decisions
<1> QED
  BY <1>1, <1>2 DEF Founded

\* A session of Claude in which longline is to have the say, and has not been cut off.
Guarded == Claude /\ session.tool # "other" /\ ~session.progress /\ ~killed

ClaudeInv ==
  Guarded =>
    /\ pc = "exited" /\ stdout = "allow" => Vouched
    /\ pc = "exited" /\ stdout \in {"pass", "empty"} => exit = "2"
    /\ stage = "prompt" => asked
    /\ stage = "run" => asked \/ Vouched

\* No step, and no failure, takes a call of Claude on without an allow.
LEMMA ClaudeInvStep == TypeInv /\ StepInv /\ ClaudeInv /\ [Next]_vars => ClaudeInv'
<1> SUFFICES ASSUME TypeInv, StepInv, ClaudeInv, [Next]_vars, Guarded'
             PROVE  ClaudeInv'
  BY DEF ClaudeInv
<1>1. session' = session /\ (JudgeIsDue' <=> JudgeIsDue)
  BY SessionIsFixed DEF JudgeIsDue, PolicyDecision, Overridden
<1>2. Guarded /\ Claude /\ ~Codex /\ ~Killed
  <2>1. ~killed
    BY DEF Guarded, Killed, Next, StartHook, HookStep, Progress, LoadRules, ReadInput,
       FinalizeConfig, Evaluate, Judge, WriteLog, Emit, HookFailure, LoadRulesFails,
       ReadInputFails, FinalizeConfigFails, FinalizeConfigPanics, EvaluatorPanics,
       ClaudeReacts, CodexReacts, UserAnswers, Settled, Fail, Continue, MoveTo, histVars, vars
  <2> QED
    BY <1>1, <2>1 DEF Guarded, Claude, Codex, Killed
<1>3. CASE HookStep \/ StartHook
  <2>1. asked' = asked /\ stage' = stage /\ pc' # "idle"
    BY <1>3 DEF HookStep, StartHook, Progress, LoadRules, ReadInput, FinalizeConfig, Evaluate, Judge,
       WriteLog, Emit, Continue, histVars
  <2>2. stage \in {"pre", "permission"}
    BY <1>3 DEF TypeInv, HookStep, StartHook, Progress, LoadRules, ReadInput, FinalizeConfig,
       Evaluate, Judge, WriteLog, Emit
  <2>3. pc' = "exited" => stdout' = decision /\ decision' = decision /\ judged' = judged /\ Founded
                          /\ decision \in Decisions
    BY <1>2, <1>3 DEF HookStep, StartHook, Progress, LoadRules, ReadInput, FinalizeConfig, Evaluate,
       Judge, WriteLog, Emit, Continue, Answer, StepInv, Guarded, TypeInv
  <2>4. pc' = "exited" /\ stdout' = "allow" => Vouched'
    BY <1>1, <2>3, AllowsAreVouched DEF Vouched
  <2> QED
    BY <2>1, <2>2, <2>3, <2>4 DEF ClaudeInv, Decisions
<1>4. CASE HookFailure
  <2>1. stage' = stage /\ stage \in {"pre", "permission"}
    BY <1>4 DEF HookFailure, LoadRulesFails, ReadInputFails, FinalizeConfigFails,
        FinalizeConfigPanics, EvaluatorPanics, Fail, TypeInv
  <2>2. \/ stdout' = "ask"
        \/ stdout' = "empty" /\ exit' = "2"
    BY <1>2, <1>4 DEF HookFailure, LoadRulesFails, ReadInputFails, FinalizeConfigFails,
        FinalizeConfigPanics, EvaluatorPanics, FailToAsk, FailToBlock, Guarded
  <2> QED
    BY <2>1, <2>2 DEF ClaudeInv
<1>5. CASE ClaudeReacts \/ CodexReacts \/ UserAnswers
  <2>1. PICK s : MoveTo(s) /\ (s = "prompt" \/ (s = "run" => asked \/ Vouched))
    BY <1>2, <1>5 DEF ClaudeReacts, CodexReacts, UserAnswers, ClaudeInv
  <2>2. asked' = (asked \/ s = "prompt") /\ stage' = s /\ pc' = "idle" /\ judged' = judged
    BY <2>1 DEF MoveTo, hookVars
  <2>3. Vouched => Vouched'
    BY <1>1, <2>2 DEF Vouched
  <2> QED
    BY <2>1, <2>2, <2>3 DEF ClaudeInv
<1>6. CASE UNCHANGED vars
  BY <1>1, <1>2, <1>6 DEF vars, hookVars, histVars, ClaudeInv, Vouched
<1> QED
  BY <1>2, <1>3, <1>4, <1>5, <1>6 DEF Next, Settled

\* No failure in any stage of a hook of Claude lets a call run that neither policy
\* nor judge allowed: its adapter turns each one into an ask or status 2.
THEOREM ClaudeAlwaysFailsSafe == Spec => []ClaudeFailsSafe
<1>1. Init => ClaudeInv
  BY DEF Init, ClaudeInv
<1>2. ClaudeInv => ClaudeFailsSafe
  BY DEF ClaudeInv, ClaudeFailsSafe, Guarded, Vouched, JudgeIsDue
<1> QED
  BY <1>1, <1>2, TypeInvInit, TypeInvStep, StepInvInit, StepInvStep, ClaudeInvStep, PTL DEF Spec

-----------------------------------------------------------------------------
(* The log.                                                                *)

\* Every step leaves the log alone, or appends what a failed hook of Codex or the
\* evaluation has to say.
LEMMA LogSteps ==
  ASSUME TypeInv, StepInv, [Next]_vars
  PROVE  \/ /\ log' = log /\ (Codex => failed' = failed)
         \/ /\ pc = "log" /\ failed' = failed /\ pc' = "emit" /\ stage' = stage
            /\ decision' = decision /\ judged' = judged
            /\ log' = Logged(Entry(decision, judged, session.policy # "unparsed", "resolved"))
         \/ /\ Len(failed') = Len(failed) + 1 /\ pc' = "exited"
            /\ \E profile : log' = Logged([Entry("allow", FALSE, FALSE, profile)
                                              EXCEPT !.original = NoEntry])
<1>1. CASE HookFailure
  <2>1. Len(failed') = Len(failed) + 1 /\ pc' = "exited"
    <3>1. \E kind \in {"load", "input", "profile", "evaluator"} : Fail(kind)
      BY <1>1 DEF HookFailure, LoadRulesFails, ReadInputFails, FinalizeConfigFails,
        FinalizeConfigPanics, EvaluatorPanics
    <3>2. pc' = "exited"
      BY <1>1 DEF HookFailure, LoadRulesFails, ReadInputFails, FinalizeConfigFails,
        FinalizeConfigPanics, EvaluatorPanics, FailOpen, FailToAsk, FailToBlock
    <3> QED
      BY <3>1, <3>2 DEF Fail, TypeInv, TypeOK
  <2>2. (log' = log /\ ~Codex) \/ \E profile : FailOpen(profile)
    BY <1>1 DEF HookFailure, LoadRulesFails, ReadInputFails, FinalizeConfigFails,
        FinalizeConfigPanics, EvaluatorPanics, FailToAsk, FailToBlock, Claude, Codex
  <2> QED
    BY <2>1, <2>2 DEF FailOpen
<1>2. CASE WriteLog
  BY <1>2 DEF WriteLog, Continue, histVars
<1>3. CASE ~HookFailure /\ ~WriteLog
  BY <1>3 DEF Next, StartHook, HookStep, Progress, LoadRules, ReadInput, FinalizeConfig,
       Evaluate, Judge, Emit, Killed, ClaudeReacts, CodexReacts, UserAnswers, Settled,
       Continue, MoveTo, histVars, vars
<1> QED
  BY <1>1, <1>2, <1>3

\* An entry of an evaluation does not look like one of a failure.
LEMMA EvaluationIsNoFailure ==
  ASSUME TypeInv, Founded
  PROVE  ~IsFailOpen(Entry(decision, judged, session.policy # "unparsed", "resolved"))
BY AllowsAreVouched DEF IsFailOpen, Entry, Vouched, JudgeIsDue

\* A step that fails adds one such entry, every other step none.
LEMMA CodexFailuresStep ==
  TypeInv /\ StepInv /\ CodexFailuresAreLogged /\ [Next]_vars => CodexFailuresAreLogged'
<1> SUFFICES ASSUME TypeInv, StepInv, CodexFailuresAreLogged, [Next]_vars, (Codex /\ session.writable)'
             PROVE  (Cardinality(FailOpens) = Len(failed))'
  BY DEF CodexFailuresAreLogged
<1>1. Codex /\ session.writable /\ Cardinality(FailOpens) = Len(failed)
  BY SessionIsFixed DEF CodexFailuresAreLogged, Codex
<1>2. log \in Seq(Entries) /\ Len(log) \in Nat /\ DOMAIN log = 1..Len(log)
  BY DEF TypeInv, TypeOK
<1>3. ASSUME NEW e, log' = Append(log, e)
      PROVE  /\ IsFailOpen(e) => FailOpens' = FailOpens \cup {Len(log) + 1}
             /\ ~IsFailOpen(e) => FailOpens' = FailOpens
  <2>1. DOMAIN log' = DOMAIN log \cup {Len(log) + 1}
    BY <1>2, <1>3
  <2>2. \A i \in DOMAIN log : log'[i] = log[i]
    BY <1>2, <1>3
  <2>3. log'[Len(log) + 1] = e
    BY <1>2, <1>3
  <2>4. \A x : IsFailOpen(x)' = IsFailOpen(x)
    BY DEF IsFailOpen
  <2> QED
    BY <2>1, <2>2, <2>3 DEF FailOpens, IsFailOpen
<1>4. IsFiniteSet(FailOpens) /\ Len(log) + 1 \notin FailOpens
  <2>1. FailOpens \subseteq 1..Len(log)
    BY <1>2 DEF FailOpens
  <2>2. IsFiniteSet(1..Len(log))
    BY <1>2, FS_Interval
  <2>3. IsFiniteSet(FailOpens)
    BY <2>1, <2>2, FS_Subset
  <2> QED
    BY <1>2, <2>1, <2>3
<1>5. CASE log' = log /\ failed' = failed
  BY <1>1, <1>5 DEF FailOpens, IsFailOpen
<1>6. CASE /\ pc = "log" /\ failed' = failed
           /\ log' = Logged(Entry(decision, judged, session.policy # "unparsed", "resolved"))
  BY <1>1, <1>3, <1>6, EvaluationIsNoFailure DEF Logged, StepInv
<1>7. CASE /\ Len(failed') = Len(failed) + 1
           /\ \E profile : log' = Logged([Entry("allow", FALSE, FALSE, profile)
                                            EXCEPT !.original = NoEntry])
  <2>1. PICK e : log' = Append(log, e) /\ IsFailOpen(e)
    BY <1>1, <1>7 DEF Logged, IsFailOpen, Entry
  <2> QED
    BY <1>1, <1>3, <1>4, <1>7, <2>1, FS_AddElement
<1> QED
  BY <1>1, <1>5, <1>6, <1>7, LogSteps

\* The Codex adapter, which fails open, leaves one entry that says so for each
\* hook that fails, and no evaluation leaves one that looks the same.
THEOREM CodexFailuresAlwaysLogged == Spec => []CodexFailuresAreLogged
<1>1. Init => CodexFailuresAreLogged
  <2> SUFFICES ASSUME Init PROVE Cardinality(FailOpens) = Len(failed)
    BY DEF CodexFailuresAreLogged
  <2>1. FailOpens = {} /\ Len(failed) = 0
    BY DEF Init, FailOpens
  <2> QED
    BY <2>1, FS_EmptySet
<1> QED
  BY <1>1, TypeInvInit, TypeInvStep, StepInvInit, StepInvStep, CodexFailuresStep, PTL DEF Spec

\* What stands in the log's last entry when the answer is given.
LastEntryTells ==
  /\ log # <<>>
  /\ log[Len(log)].decision = decision
  /\ log[Len(log)].judged = judged
  /\ (log[Len(log)].original = "deny") = Overridden

AnswerInv ==
  (/\ pc = "emit" \/ (pc = "exited" /\ exit = "0" /\ failed = <<>> /\ decision # "none")
   /\ session.tool = "Bash" /\ session.policy # "none" /\ session.writable)
     => LastEntryTells

\* From the entry to the answer, nothing parts the two.
LEMMA AnswerInvStep == TypeInv /\ StepInv /\ AnswerInv /\ [Next]_vars => AnswerInv'
<1> SUFFICES ASSUME TypeInv, StepInv, AnswerInv, [Next]_vars,
                    (session.tool = "Bash" /\ session.policy # "none" /\ session.writable)',
                    (pc = "emit" \/ (pc = "exited" /\ exit = "0" /\ failed = <<>> /\ decision # "none"))'
             PROVE  LastEntryTells'
  BY DEF AnswerInv
<1>1. session' = session /\ session.tool = "Bash" /\ session.policy # "none" /\ session.writable
  BY SessionIsFixed
<1>2. CASE WriteLog
  <2> DEFINE e == Entry(decision, judged, session.policy # "unparsed", "resolved")
  <2>1. log' = Append(log, e) /\ decision' = decision /\ judged' = judged
    BY <1>1, <1>2 DEF WriteLog, Logged
  <2>2. log' # <<>> /\ log'[Len(log')] = e
    BY <2>1 DEF TypeInv, TypeOK
  <2>3. /\ e.decision = decision /\ e.judged = judged
        /\ (e.original = "deny") = Overridden
    BY DEF Entry, Overridden, NoEntry
  <2>4. Overridden' = Overridden
    BY <1>1 DEF Overridden
  <2> HIDE DEF e
  <2> QED
    BY <2>1, <2>2, <2>3, <2>4 DEF LastEntryTells
<1>3. CASE Emit
  <2>1. LastEntryTells /\ UNCHANGED <<log, decision, judged>>
    BY <1>1, <1>3 DEF Emit, AnswerInv
  <2> QED
    BY <1>1, <2>1 DEF LastEntryTells, Overridden
<1>4. CASE UNCHANGED vars
  <2>1. LastEntryTells
    BY <1>1, <1>4 DEF AnswerInv, vars, hookVars, histVars
  <2> QED
    BY <1>1, <1>4, <2>1 DEF LastEntryTells, Overridden, vars, hookVars
<1>5. ~(Progress \/ LoadRules \/ ReadInput \/ FinalizeConfig)
  BY DEF Progress, LoadRules, ReadInput, FinalizeConfig, Continue, StepInv
<1>6. ~HookFailure
  <2>1. ASSUME NEW kind, Fail(kind) PROVE failed' # <<>>
    BY <2>1 DEF Fail, TypeInv, TypeOK
  <2> QED
    BY <2>1 DEF HookFailure, LoadRulesFails, ReadInputFails, FinalizeConfigFails,
      FinalizeConfigPanics, EvaluatorPanics, FailOpen, FailToAsk, FailToBlock
<1>7. ~Evaluate
  BY <1>1 DEF Evaluate, Continue
<1>8. ~(StartHook \/ Judge \/ Killed \/ ClaudeReacts \/ CodexReacts \/ UserAnswers)
  BY DEF StartHook, Judge, Continue, Killed, ClaudeReacts, CodexReacts, UserAnswers, MoveTo
<1> QED
  BY <1>2, <1>3, <1>4, <1>5, <1>6, <1>7, <1>8 DEF Next, HookStep, Settled

\* What a hook answers of a shell command is what stands last in the log, with the
\* judge's part in it and the denial that was overridden.
THEOREM AnswerAlwaysLogged == Spec => []AnswerIsLogged
<1>1. Init => AnswerInv
  BY DEF Init, AnswerInv
<1>2. AnswerInv => AnswerIsLogged
  BY DEF AnswerInv, AnswerIsLogged, LastEntryTells, Overridden
<1> QED
  BY <1>1, <1>2, TypeInvInit, TypeInvStep, StepInvInit, StepInvStep, AnswerInvStep, PTL DEF Spec

\* Every entry that is added is attributed.
LEMMA LiftsStep ==
  TypeInv /\ StepInv /\ LiftsAreAttributed /\ [Next]_vars => LiftsAreAttributed'
<1> DEFINE Attributed(e) ==
      (e.parseOk /\ e.decision = "allow" /\ session.policy # "allow")
        => /\ e.judged /\ session.askAi
           /\ session.policy = "deny" => e.original = "deny"
<1> SUFFICES ASSUME TypeInv, StepInv, LiftsAreAttributed, [Next]_vars
             PROVE  LiftsAreAttributed'
  OBVIOUS
<1>1. session' = session /\ \A i \in DOMAIN log : Attributed(log[i])
  BY SessionIsFixed DEF LiftsAreAttributed
<1>2. SUFFICES \A i \in DOMAIN log' : Attributed(log'[i])
  BY <1>1 DEF LiftsAreAttributed
<1>3. ASSUME NEW e, Attributed(e), log' = Logged(e) PROVE \A i \in DOMAIN log' : Attributed(log'[i])
  <2>1. CASE log' = log
    BY <1>1, <2>1
  <2>2. CASE log' = Append(log, e)
    <3>1. ASSUME NEW i \in DOMAIN log' PROVE log'[i] = e \/ (i \in DOMAIN log /\ log'[i] = log[i])
      BY <2>2 DEF TypeInv, TypeOK
    <3> QED
      BY <1>1, <1>3, <3>1
  <2> QED
    BY <1>3, <2>1, <2>2 DEF Logged
<1>4. CASE pc = "log"
  <2> DEFINE e == Entry(decision, judged, session.policy # "unparsed", "resolved")
  <2>1. Founded /\ session.policy # "none"
    BY <1>4 DEF StepInv
  <2>2. Attributed(e)
    <3> SUFFICES ASSUME decision = "allow", session.policy # "allow", session.policy # "unparsed"
                 PROVE  /\ judged /\ session.askAi
                        /\ session.policy = "deny" => session.askOnDeny
      BY DEF Entry
    <3> QED
      BY <2>1, AllowsAreVouched DEF Vouched, JudgeIsDue
  <2> QED
    BY <1>1, <1>3, <1>4, <2>2, LogSteps DEF Entry
<1>5. CASE pc # "log"
  <2>1. \A profile : Attributed([Entry("allow", FALSE, FALSE, profile) EXCEPT !.original = NoEntry])
    BY DEF Entry
  <2> QED
    BY <1>1, <1>3, <1>5, <2>1, LogSteps
<1> QED
  BY <1>4, <1>5

\* Every allow in the log is the policy's own, a failure's, or a judge's who may
\* be asked; and the judge's never stands over a denial without an override.
THEOREM LiftsAlwaysAttributed == Spec => []LiftsAreAttributed
<1>1. Init => LiftsAreAttributed
  BY DEF Init, LiftsAreAttributed
<1> QED
  BY <1>1, TypeInvInit, TypeInvStep, StepInvInit, StepInvStep, LiftsStep, PTL DEF Spec

\* Everything has its type; of two hooks at most, each leaves one entry.
THEOREM TypeCorrect == Spec => []TypeOK
<1>1. TypeInv => TypeOK
  BY DEF TypeInv
<1> QED
  BY <1>1, TypeInvInit, TypeInvStep, PTL DEF Spec
=============================================================================
