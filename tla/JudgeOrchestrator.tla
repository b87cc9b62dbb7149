-------------------------- MODULE JudgeOrchestrator --------------------------
(***************************************************************************)
(* The loop of src/ai_judge/orchestrator.rs: one thread launches attempts  *)
(* of a primary provider (index 0) and of a hedge (index 1), waits on one  *)
(* channel for what they produced or for a wake-up time, retries, disables *)
(* or promotes, and returns the first verdict or "exhausted".              *)
(*                                                                         *)
(* The process layer is the Runner trait and nothing more: an attempt that *)
(* was launched sends at most one outcome, and one that was cancelled may  *)
(* end without sending.  JudgeRun.tla puts the real workers behind it.     *)
(*                                                                         *)
(* Time is a discrete clock that may advance between any two steps.  The   *)
(* loop reads it into the local `now`, which is stale until it is read     *)
(* again, exactly where the code calls clock.now_ms().                     *)
(***************************************************************************)
EXTENDS Integers, Sequences, FiniteSets

CONSTANTS
  NumProviders,      \* providers.len(): both, the primary alone, or none
  TotalBudget,       \* params.total_budget_ms, the deadline
  HedgeAfter,        \* params.hedge_after_ms
  BackoffBase,       \* params.backoff_base_ms
  BackoffMax,        \* params.backoff_max_ms
  RelaunchFloor,     \* params.relaunch_floor_ms
  MaxAttempts,       \* params.max_attempts
  MaxNonconforming,  \* params.max_nonconforming
  MaxClock           \* bound: the clock stops here (past the deadline)

ASSUME ParamsAssumption ==
  /\ NumProviders \in 0..2
  /\ TotalBudget \in Nat
  /\ HedgeAfter \in Nat
  /\ BackoffBase \in Nat
  /\ BackoffMax \in Nat
  /\ RelaunchFloor \in Nat
  /\ MaxAttempts \in Nat
  /\ MaxNonconforming \in Nat
  /\ MaxClock \in Nat
  /\ TotalBudget <= MaxClock

VARIABLES
  pc,            \* "top", "launch", "wait", "cancel" or "done"
  clock,         \* the monotonic clock the runner and the loop share
  now,           \* the loop's last reading of it
  phase,         \* phase_reached
  wake,          \* the deadline handed to wait_next
  cursor,        \* index of the launch pass
  disabled,      \* ProvState.disabled
  nonconforming, \* ProvState.nonconforming_count
  failures,      \* ProvState.failed_retryable_count
  marker,        \* ProvState.in_flight
  nextLaunchAt,  \* ProvState.next_launch_at
  promoted,      \* ProvState.promoted_early
  launched,      \* next_id and launched_count, always incremented together
  inFlight,      \* keys of the in_flight map
  owner,         \* provider_index of each launched attempt
  records,       \* the report's attempts
  result,        \* "none" while the loop runs, then a verdict or "exhausted"
  tag,           \* outcome written for the attempts still to be cancelled
  joining,       \* attempt whose worker the drop of its handle is joining
  channel,       \* the runner's mpsc channel
  running,       \* attempts whose worker has neither sent nor ended
  flagged,       \* attempts whose cancel flag is set
  firstVerdict,  \* history: the first verdict put on the channel
  failedAt       \* history: when each provider last failed, -1 before

loopVars == <<pc, now, phase, wake, cursor>>
provVars == <<disabled, nonconforming, failures, marker, nextLaunchAt, promoted>>
bookVars == <<launched, inFlight, owner, records>>
endVars == <<result, tag, joining>>
runnerVars == <<channel, running, flagged>>
histVars == <<firstVerdict, failedAt>>
vars == <<clock, loopVars, provVars, bookVars, endVars, runnerVars, histVars>>

-----------------------------------------------------------------------------
Prov == 0..(NumProviders - 1)
AttemptId == 0..(MaxAttempts - 1)
NoAttempt == -1

Verdicts == {"allow", "ask"}
\* Blips worth a retry within the budget.
Retryable == {"empty_output", "timeout", "nonconforming"}
\* Outcomes that end a provider for the rest of the run.
Disabling == {"exit_error", "spawn_error"}
Outcomes == Verdicts \cup Retryable \cup Disabling
CancelTags == {"cancelled_winner", "cancelled_deadline"}

\* outcome_tag: the report does not tell the two verdicts apart.
OutcomeTag(o) == IF o \in Verdicts THEN "verdict" ELSE o
Tags == {"verdict"} \cup Retryable \cup Disabling \cup CancelTags

Message == [id : AttemptId, outcome : Outcomes]
Record == [provider : Prov, outcome : Tags]

Lesser(a, b) == IF a <= b THEN a ELSE b
Greater(a, b) == IF a >= b THEN a ELSE b
SaturatingSub(a, b) == Greater(a - b, 0)

\* run() gives the loop the relaunch floor as its smallest useful budget.
MinLaunch == RelaunchFloor

\* backoff_delay without its jitter.  The saturation of 2^k at 64 bits never
\* shows: the product is cut at BackoffMax before it can reach it.
BackoffBaseDelay(k) == Lesser(BackoffBase * 2^k, BackoffMax)

\* The gaps the seeded generator can choose: jitter is below BackoffBase.
BackoffGaps(k) ==
  {Greater(BackoffBaseDelay(k) + j, RelaunchFloor) :
     j \in 0..Greater(BackoffBase - 1, 0)}

\* The phase only ever advances, at the readings of the clock.
PhaseAt(t) == IF t >= HedgeAfter THEN "hedge" ELSE phase

\* The primary may always run; the hedge from its boundary on, or from the
\* moment the primary was disabled.
ProviderEligible(p, t) == p = 0 \/ t >= HedgeAfter \/ promoted[p]

\* A launch at this index of the pass: the guards of the code, in its order.
CanLaunch(p) ==
  /\ ~disabled[p]
  /\ marker[p] = NoAttempt
  /\ nextLaunchAt[p] <= now
  /\ ProviderEligible(p, now)
  /\ launched < MaxAttempts
  /\ SaturatingSub(TotalBudget, now) >= MinLaunch

\* The relaxed test of the termination check: could p ever launch again?
Launchable(p) ==
  /\ ~disabled[p]
  /\ marker[p] = NoAttempt
  /\ p = 0 \/ HedgeAfter < TotalBudget \/ promoted[p] \/ now >= HedgeAfter
  /\ launched < MaxAttempts
  /\ SaturatingSub(TotalBudget, Greater(nextLaunchAt[p], now)) >= MinLaunch

\* Mutated: the deadline waits for the attempts that are still out.
DeadlineAfterStragglers == now >= TotalBudget /\ inFlight = {}

DeadlineReached == now >= TotalBudget
AnyLaunchable == \E p \in Prov : Launchable(p)

\* Providers waiting to relaunch, whose time bounds the next wait.
Waiting == {p \in Prov : /\ marker[p] = NoAttempt
                         /\ ~disabled[p]
                         /\ ProviderEligible(p, now)
                         /\ nextLaunchAt[p] > now}

WakeTimes ==
  {TotalBudget} \cup {nextLaunchAt[p] : p \in Waiting}
                \cup (IF now < HedgeAfter THEN {HedgeAfter} ELSE {})

-----------------------------------------------------------------------------
Init ==
  /\ pc = "top" /\ clock = 0 /\ now = 0 /\ phase = "phase1" /\ wake = 0
  /\ cursor = 0
  /\ disabled = [p \in Prov |-> FALSE]
  /\ nonconforming = [p \in Prov |-> 0]
  /\ failures = [p \in Prov |-> 0]
  /\ marker = [p \in Prov |-> NoAttempt]
  /\ nextLaunchAt = [p \in Prov |-> 0]
  /\ promoted = [p \in Prov |-> FALSE]
  /\ launched = 0 /\ inFlight = {} /\ records = <<>>
  /\ owner = [id \in AttemptId |-> 0]
  /\ result = "none" /\ tag = "none" /\ joining = NoAttempt
  /\ channel = <<>> /\ running = {} /\ flagged = {}
  /\ firstVerdict = "none"
  /\ failedAt = [p \in Prov |-> -1]

\* Top of the loop: read the clock, and with it the phase.
BeginPass ==
  /\ pc = "top"
  /\ pc' = "launch"
  /\ now' = clock
  /\ phase' = PhaseAt(clock)
  /\ cursor' = 0
  /\ UNCHANGED <<clock, wake, provVars, bookVars, endVars, runnerVars, histVars>>

\* One index of the launch pass: the provider starts an attempt, whose worker
\* runs from here on, while the pass goes on with the same reading of the clock.
Launch ==
  /\ pc = "launch"
  /\ cursor \in Prov
  /\ CanLaunch(cursor)
  /\ marker' = [marker EXCEPT ![cursor] = launched]
  /\ inFlight' = inFlight \cup {launched}
  /\ owner' = [owner EXCEPT ![launched] = cursor]
  /\ running' = running \cup {launched}
  /\ launched' = launched + 1
  /\ cursor' = cursor + 1
  /\ UNCHANGED <<pc, clock, now, phase, wake, disabled, nonconforming, failures,
                 nextLaunchAt, promoted, records, endVars, channel, flagged,
                 histVars>>

Skip ==
  /\ pc = "launch"
  /\ cursor \in Prov
  /\ ~CanLaunch(cursor)
  /\ cursor' = cursor + 1
  /\ UNCHANGED <<pc, clock, now, phase, wake, provVars, bookVars, endVars,
                 runnerVars, histVars>>

\* The termination check fails: wait until the earliest thing to do.
BeginWait ==
  /\ pc = "launch"
  /\ cursor = NumProviders
  /\ ~DeadlineReached
  /\ inFlight # {} \/ AnyLaunchable
  /\ \E t \in WakeTimes : (\A u \in WakeTimes : t <= u) /\ wake' = t
  /\ pc' = "wait"
  /\ UNCHANGED <<clock, now, phase, cursor, provVars, bookVars, endVars,
                 runnerVars, histVars>>

\* Mutated: the attempts in flight are not waited for.
ExhaustIgnoringInFlight ==
  /\ pc = "launch"
  /\ cursor = NumProviders
  /\ DeadlineReached \/ ~AnyLaunchable
  /\ pc' = "cancel"
  /\ result' = "exhausted"
  /\ tag' = "cancelled_deadline"
  /\ UNCHANGED <<clock, now, phase, wake, cursor, provVars, bookVars, joining,
                 runnerVars, histVars>>

\* The deadline, or nothing in flight and nothing that could be launched.
Exhaust ==
  /\ pc = "launch"
  /\ cursor = NumProviders
  /\ DeadlineReached \/ (inFlight = {} /\ ~AnyLaunchable)
  /\ pc' = "cancel"
  /\ result' = "exhausted"
  /\ tag' = "cancelled_deadline"
  /\ UNCHANGED <<clock, now, phase, wake, cursor, provVars, bookVars, joining,
                 runnerVars, histVars>>

-----------------------------------------------------------------------------
\* wait_next found nothing before its deadline.
Wake ==
  /\ pc = "wait"
  /\ channel = <<>>
  /\ clock >= wake
  /\ pc' = "top"
  /\ now' = clock
  /\ phase' = PhaseAt(clock)
  /\ UNCHANGED <<clock, wake, cursor, provVars, bookVars, endVars, runnerVars,
                 histVars>>

\* wait_next took a message off the channel: what every arrival does.  The code
\* panics on an id that is not in flight; ArrivalsAreKnown says that none comes.
Arrive(id, p) ==
  /\ pc = "wait"
  /\ channel # <<>>
  /\ id = Head(channel).id
  /\ id \in inFlight
  /\ p = owner[id]
  /\ channel' = Tail(channel)
  /\ now' = clock
  /\ phase' = PhaseAt(clock)
  /\ inFlight' = inFlight \ {id}
  /\ records' = Append(records, [provider |-> p,
                                 outcome |-> OutcomeTag(Head(channel).outcome)])
  /\ marker' = [marker EXCEPT ![p] = NoAttempt]
  /\ UNCHANGED <<clock, wake, cursor, launched, owner, joining, running, flagged,
                 firstVerdict>>

\* A verdict wins: everything else in flight is to be cancelled.
ArriveVerdict ==
  /\ channel # <<>>
  /\ Head(channel).outcome \in Verdicts
  /\ \E p \in Prov : Arrive(Head(channel).id, p)
  /\ result' = Head(channel).outcome
  /\ tag' = "cancelled_winner"
  /\ pc' = "cancel"
  /\ UNCHANGED <<disabled, nonconforming, failures, nextLaunchAt, promoted,
                 failedAt>>

\* Does this outcome disable the provider it came from?
Disables(p, o) ==
  \/ o \in Disabling
  \/ o = "nonconforming" /\ nonconforming[p] + 1 >= MaxNonconforming

\* Mutated: in the hedge phase a provider is relaunched with no floor.
RetryGapsUnfloored(p) ==
  IF PhaseAt(clock) = "hedge" THEN {0} ELSE BackoffGaps(failures[p])

\* How long a provider that may retry has to wait: in the hedge phase only the
\* floor, before it the exponential backoff.
RetryGaps(p) ==
  IF PhaseAt(clock) = "hedge" THEN {RelaunchFloor} ELSE BackoffGaps(failures[p])

\* A failed attempt: disable the provider or schedule its retry; a primary
\* disabled here promotes the hedge, which may then launch at once.
Fail(p, o, gap) ==
  LET dead     == disabled[p] \/ Disables(p, o)
      retry    == IF dead THEN nextLaunchAt
                  ELSE [nextLaunchAt EXCEPT ![p] = clock + gap]
      promotes == p = 0 /\ dead /\ NumProviders > 1 /\ ~promoted[1]
  IN /\ disabled' = [disabled EXCEPT ![p] = dead]
     /\ nonconforming' = [nonconforming EXCEPT
                            ![p] = IF o = "nonconforming" THEN @ + 1 ELSE @]
     /\ failures' = [failures EXCEPT ![p] = IF dead THEN @ ELSE @ + 1]
     /\ promoted' = IF promotes THEN [promoted EXCEPT ![1] = TRUE] ELSE promoted
     /\ nextLaunchAt' = IF promotes THEN [retry EXCEPT ![1] = Lesser(@, clock)]
                        ELSE retry
     /\ failedAt' = [failedAt EXCEPT ![p] = clock]

ArriveFailure ==
  /\ channel # <<>>
  /\ Head(channel).outcome \notin Verdicts
  /\ \E p \in Prov :
       /\ Arrive(Head(channel).id, p)
       /\ \E gap \in RetryGaps(p) : Fail(p, Head(channel).outcome, gap)
  /\ pc' = "top"
  /\ UNCHANGED <<result, tag>>

-----------------------------------------------------------------------------
\* Mutated: a cancelled attempt leaves no row in the report.
CancelSilently ==
  /\ pc = "cancel"
  /\ joining = NoAttempt
  /\ \E id \in inFlight :
       /\ \A other \in inFlight : id <= other
       /\ inFlight' = inFlight \ {id}
       /\ flagged' = flagged \cup {id}
       /\ joining' = id
  /\ UNCHANGED <<clock, loopVars, provVars, launched, owner, records, result, tag,
                 channel, running, histVars>>

\* cancel_in_flight, one attempt at a time and in ascending order: record it,
\* set its flag, and let the drop of its handle join its worker.
CancelNext ==
  /\ pc = "cancel"
  /\ joining = NoAttempt
  /\ \E id \in inFlight :
       /\ \A other \in inFlight : id <= other
       /\ inFlight' = inFlight \ {id}
       /\ records' = Append(records, [provider |-> owner[id], outcome |-> tag])
       /\ flagged' = flagged \cup {id}
       /\ joining' = id
  /\ UNCHANGED <<clock, loopVars, provVars, launched, owner, result, tag, channel,
                 running, histVars>>

\* The join returns once the worker has ended.
JoinWorker ==
  /\ pc = "cancel"
  /\ joining # NoAttempt
  /\ joining \notin running
  /\ joining' = NoAttempt
  /\ UNCHANGED <<clock, loopVars, provVars, bookVars, result, tag, runnerVars,
                 histVars>>

Return ==
  /\ pc = "cancel"
  /\ joining = NoAttempt
  /\ inFlight = {}
  /\ pc' = "done"
  /\ UNCHANGED <<clock, now, phase, wake, cursor, provVars, bookVars, endVars,
                 runnerVars, histVars>>

-----------------------------------------------------------------------------
\* Mutated: a worker that has sent is not done, and may send again.
SendAndGoOn(id, o) ==
  /\ id \in running
  /\ channel' = Append(channel, [id |-> id, outcome |-> o])
  /\ firstVerdict' = IF firstVerdict = "none" /\ o \in Verdicts THEN o
                     ELSE firstVerdict
  /\ UNCHANGED <<clock, loopVars, provVars, bookVars, endVars, running, flagged,
                 failedAt>>

\* The runner's side: a worker sends its one outcome and ends ...
Send(id, o) ==
  /\ id \in running
  /\ running' = running \ {id}
  /\ channel' = Append(channel, [id |-> id, outcome |-> o])
  /\ firstVerdict' = IF firstVerdict = "none" /\ o \in Verdicts THEN o
                     ELSE firstVerdict
  /\ UNCHANGED <<clock, loopVars, provVars, bookVars, endVars, flagged, failedAt>>

\* ... or has seen its cancel flag and ends without sending.
EndCancelled(id) ==
  /\ id \in running \cap flagged
  /\ running' = running \ {id}
  /\ UNCHANGED <<clock, loopVars, provVars, bookVars, endVars, channel, flagged,
                 histVars>>

Tick ==
  /\ clock < MaxClock
  /\ pc # "done"
  /\ clock' = clock + 1
  /\ UNCHANGED <<loopVars, provVars, bookVars, endVars, runnerVars, histVars>>

\* orchestrate() has returned; nothing else is a legitimate end.
Returned == pc = "done" /\ UNCHANGED vars

\* Everything the loop does but starting a worker.
LoopOnly ==
  \/ BeginPass \/ Skip \/ BeginWait \/ Exhaust
  \/ Wake \/ ArriveVerdict \/ ArriveFailure
  \/ CancelNext \/ JoinWorker \/ Return

Loop == Launch \/ LoopOnly

Next ==
  \/ Loop
  \/ \E id \in AttemptId : \E o \in Outcomes : Send(id, o)
  \/ \E id \in AttemptId : EndCancelled(id)
  \/ Tick
  \/ Returned

Spec == Init /\ [][Next]_vars

\* The loop's thread is scheduled, time passes, and a worker whose flag is set
\* gets to see it.  An attempt need never answer: no fairness of Send.
Fairness ==
  /\ WF_vars(Loop)
  /\ WF_vars(Tick)
  /\ \A id \in AttemptId : WF_vars(EndCancelled(id))

FairSpec == Spec /\ Fairness

\* Mutated: a run without a verdict fails open.
JudgeVerdictFailingOpen == IF result = "exhausted" THEN "allow" ELSE result

\* What run() makes of the result: a run without a verdict asks.
JudgeVerdict == IF result = "exhausted" THEN "ask" ELSE result

-----------------------------------------------------------------------------
(***************************************************************************)
(* Properties.                                                             *)
(***************************************************************************)
Looping == pc \in {"top", "launch", "wait"}

TypeOK ==
  /\ pc \in {"top", "launch", "wait", "cancel", "done"}
  /\ clock \in Nat /\ now \in Nat /\ wake \in Nat
  /\ phase \in {"phase1", "hedge"}
  /\ cursor \in 0..NumProviders
  /\ disabled \in [Prov -> BOOLEAN] /\ promoted \in [Prov -> BOOLEAN]
  /\ nonconforming \in [Prov -> Nat] /\ failures \in [Prov -> Nat]
  /\ marker \in [Prov -> AttemptId \cup {NoAttempt}]
  /\ nextLaunchAt \in [Prov -> Nat]
  /\ launched \in 0..MaxAttempts
  /\ inFlight \in SUBSET AttemptId
  /\ owner \in [AttemptId -> Nat]
  /\ records \in Seq(Record)
  /\ result \in {"none", "exhausted"} \cup Verdicts
  /\ tag \in {"none"} \cup CancelTags
  /\ joining \in AttemptId \cup {NoAttempt}
  /\ channel \in Seq(Message)
  /\ running \in SUBSET AttemptId /\ flagged \in SUBSET AttemptId
  /\ firstVerdict \in {"none"} \cup Verdicts
  /\ failedAt \in [Prov -> Int]

\* No arrival can hit the expect() of the loop: while the loop runs, whatever is
\* on the channel or may still be sent belongs to an attempt in flight, and no
\* attempt can be heard of twice.
ArrivalsAreKnown ==
  Looping =>
    /\ running \subseteq inFlight
    /\ \A i \in DOMAIN channel : channel[i].id \in inFlight \ running
    /\ \A i, j \in DOMAIN channel : channel[i].id = channel[j].id => i = j

\* The two books of what is in flight agree: the map entry of an attempt and the
\* in_flight marker of its provider point at each other, so that a provider
\* never has two attempts out, and none is forgotten.
BooksAgree ==
  Looping =>
    /\ \A id \in inFlight : owner[id] \in Prov /\ marker[owner[id]] = id
    /\ \A p \in Prov : marker[p] # NoAttempt =>
                         marker[p] \in inFlight /\ owner[marker[p]] = p

\* A provider that is disabled is really out: nothing of it is in flight, so
\* nothing it says can still decide the run.
DisabledIsSilent ==
  Looping => \A p \in Prov : disabled[p] => marker[p] = NoAttempt

\* The report has one row per launched attempt, the cancelled ones included:
\* none is lost and none is written twice, whatever raced with the end.
EveryLaunchIsReported == Len(records) + Cardinality(inFlight) = launched

\* orchestrate() joins every worker before it returns.
WorkersAreJoined == pc = "done" => running = {}

\* The first valid verdict wins, and the run only ever gives up on one that
\* was already sent if the deadline had passed when it gave up.
FirstVerdictWins ==
  /\ result \in Verdicts => result = firstVerdict
  /\ (pc = "cancel" /\ result = "exhausted" /\ ~DeadlineReached) =>
        inFlight = {} /\ firstVerdict = "none"

\* The run gives up early only when no provider has a use for the budget left:
\* each is disabled, or the launch cap is spent, or its retry comes too late, or
\* it is a hedge that the budget never reaches.
GivesUpForAReason ==
  (pc = "cancel" /\ result = "exhausted" /\ ~DeadlineReached) =>
    \A p \in Prov :
      \/ disabled[p]
      \/ launched = MaxAttempts
      \/ Greater(nextLaunchAt[p], now) + MinLaunch > TotalBudget
      \/ p = 1 /\ HedgeAfter >= TotalBudget

\* The hedge stays out until its boundary, unless the primary is already gone.
HedgeWaitsItsTurn ==
  [][(launched' > launched /\ owner'[launched] = 1)
       => now >= HedgeAfter \/ disabled[0]]_vars

\* No provider is relaunched sooner than the floor after it failed, except a
\* hedge that the primary's end promotes.
RetriesKeepTheFloor ==
  [][(launched' > launched) =>
       LET p == owner'[launched]
       IN \/ failedAt[p] = -1
          \/ now - failedAt[p] >= RelaunchFloor
          \/ p = 1 /\ promoted[1] /\ failedAt[0] >= failedAt[1]]_vars

\* The run always comes back to the hook, whatever the providers do.
Terminates == <>(pc = "done")

\* The run keeps the judge's contract.
Contract == INSTANCE JudgeContract WITH
  first   <- firstVerdict,
  verdict <- IF pc = "done" THEN JudgeVerdict ELSE "pending"

KeepsContract == Contract!Spec
=============================================================================
