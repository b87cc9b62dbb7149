------------------------------- MODULE JudgeRun -------------------------------
(***************************************************************************)
(* The judge's loop with the real process layer of src/ai_judge/provider.rs*)
(* behind it: one worker thread per attempt, which creates two capture     *)
(* files, spawns the provider as a child process, polls it, kills it on    *)
(* cancel or timeout, reaps it, removes the files, and sends one outcome   *)
(* or, when cancelled, nothing.  The loop only ever touches the flag, the  *)
(* channel and the join of the thread.                                     *)
(***************************************************************************)
EXTENDS JudgeOrchestrator

CONSTANTS
  Timeout  \* per_attempt_timeout_ms

ASSUME TimeoutAssumption == Timeout \in Nat

VARIABLES
  worker,     \* where the thread of each attempt is
  child,      \* its child process: "none", "alive", "exited" or "reaped"
  exit,       \* what an exited child left: its stdout and its status
  files,      \* the capture files that exist
  startedAt   \* when the child was spawned

workerVars == <<worker, child, exit, files, startedAt>>
runVars == <<vars, workerVars>>
orchVars == vars

-----------------------------------------------------------------------------
\* What parse_output tells apart in a child's stdout.
Stdout == {"allow", "ask", "empty", "text"}
\* A child that a signal ended has no code and counts as "nonzero".
Status == {"zero", "nonzero"}
NoExit == [out |-> "none", status |-> "none"]

\* Mutated: text without a verdict line is taken for a cautious ask.
ClassifyTextAsAsk(e) ==
  CASE e.out \in Verdicts -> e.out
    [] e.out \notin Verdicts /\ e.status = "nonzero" -> "exit_error"
    [] e.out = "empty" /\ e.status = "zero" -> "empty_output"
    [] e.out = "text" /\ e.status = "zero" -> "ask"

\* classify: a verdict line counts whatever the status.
Classify(e) ==
  CASE e.out \in Verdicts -> e.out
    [] e.out \notin Verdicts /\ e.status = "nonzero" -> "exit_error"
    [] e.out = "empty" /\ e.status = "zero" -> "empty_output"
    [] e.out = "text" /\ e.status = "zero" -> "nonconforming"

RunInit ==
  /\ Init
  /\ worker = [id \in AttemptId |-> "none"]
  /\ child = [id \in AttemptId |-> "none"]
  /\ exit = [id \in AttemptId |-> NoExit]
  /\ files = [id \in AttemptId |-> {}]
  /\ startedAt = [id \in AttemptId |-> 0]

\* RealRunner::launch: the thread starts with the launch of the attempt.
LaunchWorker ==
  /\ Launch
  /\ worker' = [worker EXCEPT ![launched] = "create_out"]
  /\ UNCHANGED <<child, exit, files, startedAt>>

LoopStep == LoopOnly /\ UNCHANGED workerVars

-----------------------------------------------------------------------------
\* The worker is through: outcome o goes on the channel as its last act.
Report(id, o) ==
  /\ worker' = [worker EXCEPT ![id] = "ended"]
  /\ Send(id, o)

CreateOut(id) ==
  /\ worker[id] = "create_out"
  /\ \/ /\ files' = [files EXCEPT ![id] = {"out"}]
        /\ worker' = [worker EXCEPT ![id] = "create_err"]
        /\ UNCHANGED orchVars
     \/ /\ Report(id, "spawn_error")
        /\ UNCHANGED files
  /\ UNCHANGED <<child, exit, startedAt>>

CreateErr(id) ==
  /\ worker[id] = "create_err"
  /\ \/ /\ files' = [files EXCEPT ![id] = {"out", "err"}]
        /\ worker' = [worker EXCEPT ![id] = "spawn"]
        /\ UNCHANGED orchVars
     \/ /\ files' = [files EXCEPT ![id] = {}]
        /\ Report(id, "spawn_error")
  /\ UNCHANGED <<child, exit, startedAt>>

\* The child is spawned whether or not the attempt was cancelled meanwhile: the
\* flag is only looked at by the polling loop.
SpawnChild(id) ==
  /\ worker[id] = "spawn"
  /\ \/ /\ child' = [child EXCEPT ![id] = "alive"]
        /\ startedAt' = [startedAt EXCEPT ![id] = clock]
        /\ worker' = [worker EXCEPT ![id] = "poll"]
        /\ UNCHANGED <<orchVars, files>>
     \/ /\ files' = [files EXCEPT ![id] = {}]
        /\ Report(id, "spawn_error")
        /\ UNCHANGED <<child, startedAt>>
  /\ UNCHANGED exit

\* The child's own doing; it may also hang for ever.
ChildExits(id) ==
  /\ child[id] = "alive"
  /\ child' = [child EXCEPT ![id] = "exited"]
  /\ \E o \in Stdout, s \in Status :
       exit' = [exit EXCEPT ![id] = [out |-> o, status |-> s]]
  /\ UNCHANGED <<orchVars, worker, files, startedAt>>

\* Mutated: the capture files are left behind.
CleanUpKeepingFiles(id) ==
  /\ worker[id] = "poll"
  /\ child' = [child EXCEPT ![id] = "reaped"]
  /\ UNCHANGED <<exit, files, startedAt>>

\* Either way out of the polling loop the child is reaped (killed first if it
\* was alive) and both files are removed before anything is sent.
CleanUp(id) ==
  /\ worker[id] = "poll"
  /\ child' = [child EXCEPT ![id] = "reaped"]
  /\ files' = [files EXCEPT ![id] = {}]
  /\ UNCHANGED <<exit, startedAt>>

\* try_wait returns a status: the outcome is read back from the files, even if
\* the attempt was cancelled in the meantime.
PollExited(id) ==
  /\ child[id] = "exited"
  /\ CleanUp(id)
  /\ Report(id, Classify(exit[id]))

\* Mutated: a cancelled child is waited for without being killed.
PollCancelledUnkilled(id) ==
  /\ child[id] = "exited"
  /\ id \in flagged
  /\ CleanUp(id)
  /\ worker' = [worker EXCEPT ![id] = "ended"]
  /\ EndCancelled(id)

\* Still running, and cancelled: kill, reap, say nothing.
PollCancelled(id) ==
  /\ child[id] = "alive"
  /\ id \in flagged
  /\ CleanUp(id)
  /\ worker' = [worker EXCEPT ![id] = "ended"]
  /\ EndCancelled(id)

\* Still running, not cancelled, and over its time.
PollTimeout(id) ==
  /\ child[id] = "alive"
  /\ id \notin flagged
  /\ clock - startedAt[id] >= Timeout
  /\ CleanUp(id)
  /\ Report(id, "timeout")

\* try_wait itself fails: a broken handle ends the provider.
PollBroken(id) ==
  /\ child[id] \in {"alive", "exited"}
  /\ CleanUp(id)
  /\ Report(id, "spawn_error")

WorkerStep(id) ==
  \/ CreateOut(id) \/ CreateErr(id) \/ SpawnChild(id)
  \/ PollExited(id) \/ PollCancelled(id) \/ PollTimeout(id)

RunNext ==
  \/ LaunchWorker
  \/ LoopStep
  \/ \E id \in AttemptId :
       WorkerStep(id) \/ PollBroken(id) \/ ChildExits(id)
  \/ (Tick /\ UNCHANGED workerVars)
  \/ (Returned /\ UNCHANGED workerVars)

RunSpec == RunInit /\ [][RunNext]_runVars

\* Threads are scheduled and time passes; nothing makes a child exit.
RunFairness ==
  /\ WF_runVars(LaunchWorker \/ LoopStep)
  /\ WF_runVars(Tick /\ UNCHANGED workerVars)
  /\ \A id \in AttemptId : WF_runVars(WorkerStep(id))

FairRunSpec == RunSpec /\ RunFairness

-----------------------------------------------------------------------------
RunTypeOK ==
  /\ TypeOK
  /\ worker \in [AttemptId -> {"none", "create_out", "create_err", "spawn",
                               "poll", "ended"}]
  /\ child \in [AttemptId -> {"none", "alive", "exited", "reaped"}]
  /\ exit \in [AttemptId -> {NoExit} \cup [out : Stdout, status : Status]]
  /\ files \in [AttemptId -> SUBSET {"out", "err"}]
  /\ startedAt \in [AttemptId -> Nat]

\* When the judge has returned, nothing of it is left: no thread runs, no child
\* is alive or a zombie, no capture file is on disk, whichever attempts were
\* cancelled, at whatever point of their start.
NothingIsLeftBehind ==
  pc = "done" => \A id \in AttemptId :
    /\ worker[id] \in {"none", "ended"}
    /\ child[id] \in {"none", "reaped"}
    /\ files[id] = {}

\* A verdict was printed by a provider that ran to its end: no kill, timeout or
\* failed spawn can turn into one.
VerdictWasPrinted ==
  result \in Verdicts => \E id \in 0..(launched - 1) : exit[id].out = result

\* The worker threads are a Runner: every behaviour is one of the loop with the
\* abstract process layer.
RunsTheLoop == Spec

\* The fairness the loop relies on is the threads' own: a worker whose flag is
\* set does get to see it, and the judge ends though a child may hang forever.
IsARunner == FairSpec
=============================================================================
