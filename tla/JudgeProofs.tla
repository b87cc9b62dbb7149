------------------------------ MODULE JudgeProofs ------------------------------
(***************************************************************************)
(* What the judge keeps for every choice of its parameters: any number of  *)
(* attempts, any budget, boundary, backoff.                                *)
(*                                                                         *)
(* The invariants are proved in layers. TypeInv types the state of         *)
(* JudgeOrchestrator, and with it says which attempts exist; BooksInv adds *)
(* the two books of what is in flight; VerdictInv adds the order in which  *)
(* verdicts reach the channel.                                             *)
(*                                                                         *)
(* Then the worker threads of JudgeRun are shown to implement the process  *)
(* layer the loop assumes, so that everything proved of the loop holds of  *)
(* the judge as it runs; and when it returns no thread, child process or   *)
(* capture file is left.                                                   *)
(*                                                                         *)
(* Then what is sent to the judge: a line of any length makes it read only *)
(* files below the working directory or the home directory.                *)
(*                                                                         *)
(* Last, the installed files that the judge shares with hooks and inits,   *)
(* any number of them: hooks load all of a whole installation or nothing,  *)
(* an undisturbed init installs all of its files, and claude is given no   *)
(* settings file the judge has not found to be good, or made so.           *)
(***************************************************************************)
EXTENDS JudgeRun, CodeExtraction, Installation, Recursion, SequenceTheorems, FiniteSetTheorems, TLAPS

\* An attempt exists once it was launched, by a provider of the set.
AttemptsExist ==
  /\ inFlight \subseteq 0..(launched - 1)
  /\ \A id \in inFlight : owner[id] \in Prov

\* pc and the loop's locals agree on how far the run has come.
StageAgrees ==
  /\ Looping => result = "none" /\ joining = NoAttempt
  /\ pc = "launch" => cursor \in 0..NumProviders
  /\ pc \in {"cancel", "done"} => result \in {"exhausted"} \cup Verdicts
  /\ pc \in {"cancel", "done"} => tag \in CancelTags
  /\ pc = "done" => inFlight = {} /\ joining = NoAttempt

TypeInv == TypeOK /\ AttemptsExist /\ StageAgrees

\* Every gap the jittered backoff of the loop can choose is a natural number.
LEMMA GapsAreNatural ==
  ASSUME NEW k \in Nat, NEW gap \in BackoffGaps(k)
  PROVE  gap \in Nat
BY ParamsAssumption DEF BackoffGaps, Greater, BackoffBaseDelay, Lesser

\* The start of orchestrate() has the types, those of the derived values included.
THEOREM TypeInvInit == Init => TypeInv
<1> SUFFICES ASSUME Init PROVE TypeInv
  OBVIOUS
<1>1. TypeOK
  BY ParamsAssumption DEF Init, TypeOK, NoAttempt
<1>2. AttemptsExist
  BY DEF Init, AttemptsExist
<1>3. StageAgrees
  BY DEF Init, StageAgrees, Looping
<1> QED
  BY <1>1, <1>2, <1>3 DEF TypeInv

\* An arrival taken off the channel keeps the types of the state it touches.
LEMMA ArriveTypes ==
  ASSUME TypeInv, NEW p \in Prov, Arrive(Head(channel).id, p)
  PROVE  /\ clock' \in Nat /\ now' \in Nat /\ phase' \in {"phase1", "hedge"}
         /\ wake' \in Nat /\ cursor' \in 0..NumProviders
         /\ channel' \in Seq(Message) /\ records' \in Seq(Record)
         /\ marker' \in [Prov -> AttemptId \cup {NoAttempt}]
         /\ inFlight' \in SUBSET AttemptId
         /\ AttemptsExist'
<1> USE DEF TypeInv, TypeOK
<1>1. channel # <<>> /\ Head(channel) \in Message /\ Tail(channel) \in Seq(Message)
  BY HeadTailProperties DEF Arrive
<1>2. [provider |-> p, outcome |-> OutcomeTag(Head(channel).outcome)] \in Record
  BY <1>1 DEF Record, OutcomeTag, Message, Outcomes, Tags
<1>3. records' \in Seq(Record)
  BY <1>2 DEF Arrive
<1>4. AttemptsExist'
  BY DEF Arrive, AttemptsExist
<1> QED
  BY <1>1, <1>3, <1>4 DEF Arrive, PhaseAt

\* Every step of the loop, its workers and the clock keeps the types.
THEOREM TypeInvStep == TypeInv /\ [Next]_vars => TypeInv'
<1> SUFFICES ASSUME TypeInv, [Next]_vars PROVE TypeInv'
  OBVIOUS
<1> USE ParamsAssumption DEF TypeInv, TypeOK
<1>1. CASE BeginPass
  BY <1>1 DEF BeginPass, PhaseAt, AttemptsExist, StageAgrees, Looping,
     provVars, bookVars, endVars, runnerVars, histVars
<1>2. CASE Launch
  <2>1. launched \in AttemptId /\ launched + 1 \in 0..MaxAttempts
    BY <1>2 DEF Launch, CanLaunch, AttemptId
  <2>2. /\ cursor' \in 0..NumProviders
        /\ marker' \in [Prov -> AttemptId \cup {NoAttempt}]
        /\ owner' \in [AttemptId -> Nat]
    BY <1>2, <2>1, SMTT(30) DEF Launch, Prov
  <2>3. AttemptsExist'
    BY <1>2, <2>1, SMTT(30) DEF Launch, AttemptsExist, Prov
  <2>4. StageAgrees'
    BY <1>2 DEF Launch, StageAgrees, Looping, Prov, endVars
  <2>5. TypeOK'
    BY <1>2, <2>1, <2>2 DEF Launch, endVars, histVars
  <2> QED
    BY <2>3, <2>4, <2>5
<1>3. CASE Skip
  <2>1. cursor' \in 0..NumProviders
    BY <1>3 DEF Skip, Prov
  <2> QED
    BY <1>3, <2>1 DEF Skip, AttemptsExist, StageAgrees, Looping,
       provVars, bookVars, endVars, runnerVars, histVars
<1>4. CASE BeginWait
  <2>1. wake' \in Nat
    BY <1>4 DEF BeginWait, WakeTimes, Waiting
  <2> QED
    BY <1>4, <2>1 DEF BeginWait, AttemptsExist, StageAgrees, Looping,
       provVars, bookVars, endVars, runnerVars, histVars
<1>5. CASE Exhaust
  BY <1>5 DEF Exhaust, AttemptsExist, StageAgrees, Looping, CancelTags,
     provVars, bookVars, runnerVars, histVars
<1>6. CASE Wake
  BY <1>6 DEF Wake, PhaseAt, AttemptsExist, StageAgrees, Looping,
     provVars, bookVars, endVars, runnerVars, histVars
<1>7. CASE ArriveVerdict
  <2> PICK p \in Prov : Arrive(Head(channel).id, p)
    BY <1>7 DEF ArriveVerdict
  <2>1. TypeOK'
    BY <1>7, ArriveTypes DEF ArriveVerdict, Arrive, CancelTags
  <2>2. StageAgrees'
    BY <1>7 DEF ArriveVerdict, StageAgrees, Looping, CancelTags
  <2> QED
    BY <2>1, <2>2, ArriveTypes
<1>8. CASE ArriveFailure
  <2> PICK p \in Prov : /\ Arrive(Head(channel).id, p)
                        /\ \E gap \in RetryGaps(p) : Fail(p, Head(channel).outcome, gap)
    BY <1>8 DEF ArriveFailure
  <2> PICK gap \in RetryGaps(p) : Fail(p, Head(channel).outcome, gap)
    OBVIOUS
  <2>1. gap \in Nat
    BY GapsAreNatural DEF RetryGaps
  <2> DEFINE dead  == disabled[p] \/ Disables(p, Head(channel).outcome)
             retry == IF dead THEN nextLaunchAt
                      ELSE [nextLaunchAt EXCEPT ![p] = clock + gap]
             promotes == p = 0 /\ dead /\ NumProviders > 1 /\ ~promoted[1]
  <2>4. dead \in BOOLEAN
    BY Zenon
  <2>5. disabled' \in [Prov -> BOOLEAN]
    BY <2>4 DEF Fail
  <2>6. promoted' \in [Prov -> BOOLEAN]
    BY DEF Fail
  <2>7. nonconforming' \in [Prov -> Nat] /\ failures' \in [Prov -> Nat]
    BY DEF Fail
  <2>8. failedAt' \in [Prov -> Int]
    BY DEF Fail
  <2>2. retry \in [Prov -> Nat]
    BY <2>1
  <2>9. nextLaunchAt' = IF promotes THEN [retry EXCEPT ![1] = Lesser(@, clock)]
                        ELSE retry
    BY DEF Fail
  <2>3. nextLaunchAt' \in [Prov -> Nat]
    <3> HIDE DEF retry, promotes
    <3> QED BY <2>2, <2>9, <2>1 DEF Lesser
  <2>10. TypeOK'
    BY <1>8, <2>5, <2>6, <2>7, <2>8, <2>3, ArriveTypes DEF ArriveFailure, Arrive
  <2>11. StageAgrees'
    BY <1>8 DEF ArriveFailure, Arrive, StageAgrees, Looping
  <2> QED
    BY <2>10, <2>11, ArriveTypes
<1>9. CASE CancelNext
  <2> PICK id \in inFlight :
         /\ inFlight' = inFlight \ {id}
         /\ records' = Append(records, [provider |-> owner[id], outcome |-> tag])
         /\ flagged' = flagged \cup {id}
         /\ joining' = id
    BY <1>9 DEF CancelNext
  <2>1. [provider |-> owner[id], outcome |-> tag] \in Record
    BY <1>9 DEF CancelNext, AttemptsExist, StageAgrees, Record, Tags
  <2>2. records' \in Seq(Record)
    BY <2>1
  <2> QED
    BY <1>9, <2>2 DEF CancelNext, AttemptsExist, StageAgrees, Looping,
       loopVars, provVars, histVars
<1>10. CASE JoinWorker
  BY <1>10 DEF JoinWorker, AttemptsExist, StageAgrees, Looping,
     loopVars, provVars, bookVars, runnerVars, histVars
<1>11. CASE Return
  BY <1>11 DEF Return, AttemptsExist, StageAgrees, Looping,
     provVars, bookVars, endVars, runnerVars, histVars
<1>12. ASSUME NEW id \in AttemptId, NEW o \in Outcomes, Send(id, o)
       PROVE  TypeInv'
  <2>1. channel' \in Seq(Message)
    BY <1>12 DEF Send, Message
  <2> QED
    BY <1>12, <2>1 DEF Send, AttemptsExist, StageAgrees, Looping,
       loopVars, provVars, bookVars, endVars
<1>13. ASSUME NEW id \in AttemptId, EndCancelled(id)
       PROVE  TypeInv'
  BY <1>13 DEF EndCancelled, AttemptsExist, StageAgrees, Looping,
     loopVars, provVars, bookVars, endVars, histVars
<1>14. CASE Tick
  BY <1>14 DEF Tick, AttemptsExist, StageAgrees, Looping,
     loopVars, provVars, bookVars, endVars, runnerVars, histVars
<1>15. CASE UNCHANGED vars
  BY <1>15 DEF vars, AttemptsExist, StageAgrees, Looping,
     loopVars, provVars, bookVars, endVars, runnerVars, histVars
<1> QED
  BY <1>1, <1>2, <1>3, <1>4, <1>5, <1>6, <1>7, <1>8, <1>9, <1>10, <1>11, <1>12,
     <1>13, <1>14, <1>15 DEF Next, Loop, LoopOnly, Returned

\* The loop's state is well formed whatever the providers do.
THEOREM TypeCorrect == Spec => []TypeOK
<1>1. TypeInv => TypeOK
  BY DEF TypeInv
<1> QED
  BY <1>1, TypeInvInit, TypeInvStep, PTL DEF Spec

-----------------------------------------------------------------------------
\* While the loop runs only attempts in flight run; later only those whose
\* handles are not yet dropped, and the one being joined.
RunningIsHeld == running \subseteq inFlight \cup {joining}

BooksInv ==
  TypeInv /\ RunningIsHeld /\ ArrivalsAreKnown /\ BooksAgree /\ DisabledIsSilent

\* The two books of what is in flight agree when the loop starts.
THEOREM BooksInvInit == Init => BooksInv
<1> SUFFICES ASSUME Init PROVE BooksInv
  OBVIOUS
<1>1. TypeInv
  BY TypeInvInit
<1>2. RunningIsHeld /\ ArrivalsAreKnown
  BY DEF Init, RunningIsHeld, ArrivalsAreKnown
<1>3. BooksAgree /\ DisabledIsSilent
  BY DEF Init, BooksAgree, DisabledIsSilent
<1> QED
  BY <1>1, <1>2, <1>3 DEF BooksInv

\* What the removal of the head message leaves on the channel.
LEMMA ArrivalLeaves ==
  ASSUME BooksInv, NEW p \in Prov, Arrive(Head(channel).id, p)
  PROVE  /\ Head(channel).id \in inFlight \ running
         /\ marker[p] = Head(channel).id
         /\ running \subseteq inFlight \ {Head(channel).id}
         /\ \A i \in DOMAIN channel' : /\ i + 1 \in DOMAIN channel
                                       /\ channel'[i] = channel[i + 1]
                                       /\ channel'[i].id # Head(channel).id
<1> USE DEF BooksInv, TypeInv, TypeOK
<1>1. channel \in Seq(Message) /\ channel # <<>> /\ channel' = Tail(channel)
  BY DEF Arrive
<1>2. Looping /\ 1 \in DOMAIN channel /\ Head(channel) = channel[1]
  BY <1>1 DEF Arrive, Looping
<1>3. Head(channel).id \in inFlight \ running
  BY <1>2 DEF ArrivalsAreKnown
<1>4. \A i \in DOMAIN channel' : i + 1 \in DOMAIN channel /\ channel'[i] = channel[i + 1]
  BY <1>1, HeadTailProperties
<1>5. \A i \in DOMAIN channel' : channel'[i].id # Head(channel).id
  BY <1>1, <1>2, <1>4, HeadTailProperties DEF ArrivalsAreKnown
<1> QED
  BY <1>2, <1>3, <1>4, <1>5 DEF Arrive, ArrivalsAreKnown, BooksAgree

\* Launches, arrivals and the cancellations keep the two books in agreement.
THEOREM BooksInvStep == BooksInv /\ [Next]_vars => BooksInv'
<1> SUFFICES ASSUME BooksInv, [Next]_vars PROVE BooksInv'
  OBVIOUS
<1>0. TypeInv'
  BY TypeInvStep DEF BooksInv
<1> USE DEF BooksInv, TypeInv, TypeOK, AttemptsExist
<1>1. CASE Launch
  <2>1. /\ cursor \in Prov /\ ~disabled[cursor] /\ marker[cursor] = NoAttempt
        /\ Looping /\ Looping'
    BY <1>1 DEF Launch, CanLaunch, Looping
  <2>6. launched \in AttemptId \ inFlight
    BY <1>1, ParamsAssumption DEF Launch, CanLaunch, AttemptId
  <2>2. RunningIsHeld'
    BY <1>1 DEF Launch, RunningIsHeld, endVars
  <2>3. ArrivalsAreKnown'
    BY <1>1, <2>1, <2>6 DEF Launch, ArrivalsAreKnown
  <2>4. BooksAgree'
    BY <1>1, <2>1, <2>6 DEF Launch, BooksAgree, NoAttempt
  <2>5. DisabledIsSilent'
    BY <1>1, <2>1 DEF Launch, DisabledIsSilent
  <2> QED
    BY <1>0, <2>2, <2>3, <2>4, <2>5
<1>2. CASE BeginPass \/ Skip \/ BeginWait \/ Exhaust \/ Wake \/ Tick \/ UNCHANGED vars
  <2>1. /\ UNCHANGED <<disabled, marker, inFlight, owner, joining, channel, running>>
        /\ Looping' => Looping
    BY <1>2 DEF BeginPass, Skip, BeginWait, Exhaust, Wake, Tick, Looping, vars, loopVars,
       provVars, bookVars, endVars, runnerVars, histVars
  <2> QED
    BY <1>0, <2>1 DEF RunningIsHeld, ArrivalsAreKnown, BooksAgree, DisabledIsSilent
<1>3. CASE ArriveVerdict
  <2> PICK p \in Prov : Arrive(Head(channel).id, p)
    BY <1>3 DEF ArriveVerdict
  <2>1. ~Looping'
    BY <1>3 DEF ArriveVerdict, Looping
  <2>2. RunningIsHeld'
    BY ArrivalLeaves DEF Arrive, RunningIsHeld
  <2> QED
    BY <1>0, <2>1, <2>2 DEF ArrivalsAreKnown, BooksAgree, DisabledIsSilent
<1>4. CASE ArriveFailure
  <2> PICK p \in Prov : /\ Arrive(Head(channel).id, p)
                        /\ \E gap \in RetryGaps(p) : Fail(p, Head(channel).outcome, gap)
    BY <1>4 DEF ArriveFailure
  <2>1. Looping
    BY DEF Arrive, Looping
  <2>2. RunningIsHeld'
    BY ArrivalLeaves DEF Arrive, RunningIsHeld
  <2>3. ArrivalsAreKnown'
    <3>1. running' = running /\ inFlight' = inFlight \ {Head(channel).id}
      BY DEF Arrive
    <3>2. channel' \in Seq(Message)
      BY <1>0
    <3>3. DOMAIN channel' \subseteq Int
      BY <3>2, LenProperties
    <3>4. ASSUME NEW i \in DOMAIN channel', NEW j \in DOMAIN channel',
                 channel'[i].id = channel'[j].id
          PROVE  i = j
      <4>1. i + 1 = j + 1
        BY <2>1, <3>4, ArrivalLeaves DEF ArrivalsAreKnown
      <4> QED
        BY <3>3, <4>1
    <3>5. \A i \in DOMAIN channel' : channel'[i].id \in inFlight' \ running'
      BY <2>1, <3>1, ArrivalLeaves DEF ArrivalsAreKnown
    <3> QED
      BY <3>1, <3>4, <3>5, ArrivalLeaves DEF ArrivalsAreKnown
  <2>4. BooksAgree'
    BY <2>1, ArrivalLeaves DEF Arrive, BooksAgree
  <2>5. \A q \in Prov \ {p} : disabled'[q] = disabled[q]
    BY DEF Fail
  <2>6. marker' = [marker EXCEPT ![p] = NoAttempt]
    BY DEF Arrive
  <2>7. DisabledIsSilent'
    BY <2>1, <2>5, <2>6 DEF DisabledIsSilent
  <2> QED
    BY <1>0, <2>2, <2>3, <2>4, <2>7
<1>5. CASE CancelNext \/ JoinWorker \/ Return
  <2>1. ~Looping'
    BY <1>5 DEF CancelNext, JoinWorker, Return, Looping, loopVars
  <2>3. CancelNext => RunningIsHeld'
    BY DEF CancelNext, RunningIsHeld, NoAttempt, AttemptId
  <2>4. JoinWorker => RunningIsHeld'
    BY DEF JoinWorker, RunningIsHeld, bookVars, runnerVars
  <2>5. Return => RunningIsHeld'
    BY DEF Return, RunningIsHeld, bookVars, endVars, runnerVars
  <2>2. RunningIsHeld'
    BY <1>5, <2>3, <2>4, <2>5
  <2> QED
    BY <1>0, <2>1, <2>2 DEF ArrivalsAreKnown, BooksAgree, DisabledIsSilent
<1>6. ASSUME NEW id \in AttemptId, NEW o \in Outcomes, Send(id, o)
      PROVE  BooksInv'
  <2>1. RunningIsHeld' /\ BooksAgree' /\ DisabledIsSilent'
    BY <1>6 DEF Send, RunningIsHeld, BooksAgree, DisabledIsSilent, Looping, loopVars,
       provVars, bookVars, endVars
  <2> DEFINE m == [id |-> id, outcome |-> o]
  <2>2. /\ DOMAIN channel' = 1..(Len(channel) + 1) /\ DOMAIN channel = 1..Len(channel)
        /\ \A i \in DOMAIN channel' :
             channel'[i] = IF i \in DOMAIN channel THEN channel[i] ELSE m
        /\ m.id = id
    BY <1>6 DEF Send
  <2>3. ArrivalsAreKnown'
    <3> HIDE DEF m
    <3> QED BY <1>6, <2>2 DEF Send, ArrivalsAreKnown, Looping, loopVars, bookVars
  <2> QED
    BY <1>0, <2>1, <2>3
<1>7. ASSUME NEW id \in AttemptId, EndCancelled(id)
      PROVE  BooksInv'
  BY <1>0, <1>7 DEF EndCancelled, RunningIsHeld, ArrivalsAreKnown, BooksAgree,
     DisabledIsSilent, Looping, loopVars, provVars, bookVars, endVars
<1> QED
  BY <1>1, <1>2, <1>3, <1>4, <1>5, <1>6, <1>7 DEF Next, Loop, LoopOnly, Returned

\* No arrival is ever of an unknown attempt, so the expect() of the loop holds.
THEOREM ArrivalsKnown == Spec => []ArrivalsAreKnown
<1>1. BooksInv => ArrivalsAreKnown
  BY DEF BooksInv
<1> QED
  BY <1>1, BooksInvInit, BooksInvStep, PTL DEF Spec

\* A provider never has two attempts out, and none in flight is forgotten.
THEOREM BooksAlwaysAgree == Spec => []BooksAgree
<1>1. BooksInv => BooksAgree
  BY DEF BooksInv
<1> QED
  BY <1>1, BooksInvInit, BooksInvStep, PTL DEF Spec

\* A disabled provider has nothing out that could still decide the run.
THEOREM DisabledStaysSilent == Spec => []DisabledIsSilent
<1>1. BooksInv => DisabledIsSilent
  BY DEF BooksInv
<1> QED
  BY <1>1, BooksInvInit, BooksInvStep, PTL DEF Spec

\* The loop does not return before every worker it started has ended.
THEOREM WorkersJoined == Spec => []WorkersAreJoined
<1>1. BooksInv => WorkersAreJoined
  BY DEF BooksInv, TypeInv, TypeOK, StageAgrees, RunningIsHeld, WorkersAreJoined,
     NoAttempt, AttemptId
<1> QED
  BY <1>1, BooksInvInit, BooksInvStep, PTL DEF Spec
-----------------------------------------------------------------------------
\* Position i of the channel holds the first verdict on it.
FirstOnChannel(i) ==
  /\ i \in DOMAIN channel
  /\ channel[i].outcome \in Verdicts
  /\ \A j \in 1..(i - 1) : channel[j].outcome \notin Verdicts

\* While the loop runs every verdict sent is still on the channel, the first one
\* in front: arrivals are taken in the order they were sent.
VerdictsWait ==
  Looping =>
    /\ \A i \in DOMAIN channel : FirstOnChannel(i) => channel[i].outcome = firstVerdict
    /\ firstVerdict # "none" => \E i \in DOMAIN channel : channel[i].outcome \in Verdicts

\* Giving up before the deadline, the loop leaves nothing out and heard nothing.
GaveUpIdle ==
  (pc \in {"cancel", "done"} /\ result = "exhausted" /\ ~DeadlineReached) =>
    inFlight = {} /\ joining = NoAttempt /\ firstVerdict = "none"

ResultIsFirst == result \in Verdicts => result = firstVerdict

VerdictInv == BooksInv /\ VerdictsWait /\ GaveUpIdle /\ ResultIsFirst

\* No verdict has been sent, and none is returned, when the loop starts.
THEOREM VerdictInvInit == Init => VerdictInv
<1> SUFFICES ASSUME Init PROVE VerdictInv
  OBVIOUS
<1>1. BooksInv
  BY BooksInvInit
<1>2. VerdictsWait /\ GaveUpIdle /\ ResultIsFirst
  BY DEF Init, VerdictsWait, GaveUpIdle, ResultIsFirst, Verdicts
<1> QED
  BY <1>1, <1>2 DEF VerdictInv

\* Every step keeps the first verdict sent the one that the loop can return.
THEOREM VerdictInvStep == VerdictInv /\ [Next]_vars => VerdictInv'
<1> SUFFICES ASSUME VerdictInv, [Next]_vars PROVE VerdictInv'
  OBVIOUS
<1>0. BooksInv'
  BY BooksInvStep DEF VerdictInv
<1> USE DEF VerdictInv, BooksInv, TypeInv, TypeOK
<1>1. CASE BeginPass \/ Launch \/ Skip \/ BeginWait \/ Wake
  <2>1. Looping /\ Looping' /\ UNCHANGED <<channel, firstVerdict, result>>
    BY <1>1 DEF BeginPass, Launch, Skip, BeginWait, Wake, Looping, endVars, runnerVars, histVars
  <2>2. VerdictsWait' /\ ResultIsFirst'
    BY <2>1 DEF VerdictsWait, FirstOnChannel, ResultIsFirst
  <2>3. GaveUpIdle'
    BY <2>1 DEF GaveUpIdle, Looping
  <2> QED
    BY <1>0, <2>2, <2>3
<1>2. CASE Exhaust
  <2>1. Looping /\ ~Looping'
    BY <1>2 DEF Exhaust, Looping
  <2>2. VerdictsWait'
    BY <2>1 DEF VerdictsWait
  <2>3. ResultIsFirst'
    BY <1>2 DEF Exhaust, ResultIsFirst, Verdicts
  <2>4. ASSUME ~DeadlineReached' PROVE inFlight' = {} /\ joining' = NoAttempt
    BY <1>2, <2>1, <2>4 DEF Exhaust, DeadlineReached, StageAgrees, bookVars
  <2>5. ASSUME ~DeadlineReached' PROVE firstVerdict' = "none"
    <3>1. inFlight = {}
      BY <1>2, <2>5 DEF Exhaust, DeadlineReached
    <3>2. DOMAIN channel = {}
      BY <2>1, <3>1 DEF ArrivalsAreKnown
    <3> QED
      BY <1>2, <2>1, <3>2 DEF Exhaust, VerdictsWait, histVars
  <2>6. GaveUpIdle'
    BY <2>4, <2>5 DEF GaveUpIdle
  <2> QED
    BY <1>0, <2>2, <2>3, <2>6
<1>3. CASE ArriveVerdict
  <2> PICK p \in Prov : Arrive(Head(channel).id, p)
    BY <1>3 DEF ArriveVerdict
  <2>1. Looping /\ ~Looping'
    BY <1>3 DEF ArriveVerdict, Arrive, Looping
  <2>2. 1 \in DOMAIN channel /\ Head(channel) = channel[1]
    BY DEF Arrive
  <2>3. FirstOnChannel(1)
    BY <1>3, <2>2 DEF ArriveVerdict, FirstOnChannel
  <2>4. ResultIsFirst'
    BY <1>3, <2>1, <2>2, <2>3 DEF ArriveVerdict, Arrive, ResultIsFirst, VerdictsWait
  <2>5. VerdictsWait' /\ GaveUpIdle'
    BY <1>3, <2>1 DEF ArriveVerdict, VerdictsWait, GaveUpIdle, Verdicts
  <2> QED
    BY <1>0, <2>4, <2>5
<1>4. CASE ArriveFailure
  <2> PICK p \in Prov : Arrive(Head(channel).id, p)
    BY <1>4 DEF ArriveFailure
  <2>1. Looping /\ Looping' /\ UNCHANGED <<firstVerdict, result>>
    BY <1>4 DEF ArriveFailure, Arrive, Looping
  <2>2. ResultIsFirst' /\ GaveUpIdle'
    BY <2>1 DEF ResultIsFirst, GaveUpIdle, Looping
  <2>3. /\ channel # <<>> /\ channel[1].outcome \notin Verdicts
        /\ DOMAIN channel = 1..Len(channel) /\ Len(channel) \in Nat
        /\ DOMAIN channel' = 1..(Len(channel) - 1)
        /\ \A i \in DOMAIN channel' : channel'[i] = channel[i + 1]
    BY <1>4, HeadTailProperties, LenProperties DEF ArriveFailure, Arrive
  <2>4. ASSUME NEW i \in DOMAIN channel', FirstOnChannel(i)'
        PROVE  channel'[i].outcome = firstVerdict'
    <3>1. i + 1 \in DOMAIN channel /\ channel[i + 1].outcome \in Verdicts
      BY <2>3, <2>4 DEF FirstOnChannel
    <3>2. ASSUME NEW j \in 1..i PROVE channel[j].outcome \notin Verdicts
      <4>1. CASE j = 1
        BY <2>3, <4>1
      <4>2. CASE j # 1
        <5>1. j - 1 \in 1..(i - 1) /\ j - 1 \in DOMAIN channel' /\ j = (j - 1) + 1
          BY <2>3, <4>2
        <5> QED
          BY <2>3, <2>4, <5>1 DEF FirstOnChannel
      <4> QED
        BY <4>1, <4>2
    <3>3. FirstOnChannel(i + 1)
      BY <2>3, <3>1, <3>2 DEF FirstOnChannel
    <3> QED
      BY <2>1, <2>3, <3>3 DEF VerdictsWait, FirstOnChannel
  <2>5. ASSUME firstVerdict' # "none"
        PROVE  \E i \in DOMAIN channel' : channel'[i].outcome \in Verdicts
    <3> PICK i \in DOMAIN channel : channel[i].outcome \in Verdicts
      BY <2>1, <2>5 DEF VerdictsWait
    <3>1. i - 1 \in DOMAIN channel' /\ channel'[i - 1] = channel[(i - 1) + 1] /\ (i - 1) + 1 = i
      BY <2>3
    <3> QED
      BY <3>1
  <2>6. VerdictsWait'
    BY <2>4, <2>5 DEF VerdictsWait
  <2> QED
    BY <1>0, <2>2, <2>6
<1>5. CASE CancelNext \/ JoinWorker \/ Return
  <2>1. /\ ~Looping' /\ UNCHANGED <<result, firstVerdict, now>>
        /\ inFlight = {} => inFlight' = {}
        /\ (inFlight = {} /\ joining = NoAttempt) => joining' = NoAttempt
        /\ pc = "cancel"
    BY <1>5 DEF CancelNext, JoinWorker, Return, Looping, loopVars, bookVars, endVars, histVars
  <2>2. VerdictsWait' /\ ResultIsFirst'
    BY <2>1 DEF VerdictsWait, ResultIsFirst
  <2>3. GaveUpIdle'
    BY <2>1 DEF GaveUpIdle, DeadlineReached
  <2> QED
    BY <1>0, <2>2, <2>3
<1>6. ASSUME NEW id \in AttemptId, NEW o \in Outcomes, Send(id, o)
      PROVE  VerdictInv'
  <2>1. UNCHANGED <<pc, now, inFlight, joining, result>> /\ id \in running
    BY <1>6 DEF Send, loopVars, bookVars, endVars
  <2>2. firstVerdict' = IF firstVerdict = "none" /\ o \in Verdicts THEN o ELSE firstVerdict
    BY <1>6 DEF Send
  <2>3. ResultIsFirst'
    BY <2>1, <2>2 DEF ResultIsFirst, Verdicts
  <2>4. GaveUpIdle'
    BY <2>1 DEF GaveUpIdle, DeadlineReached, RunningIsHeld, NoAttempt, AttemptId
  <2>5. /\ DOMAIN channel = 1..Len(channel) /\ Len(channel) \in Nat
        /\ DOMAIN channel' = 1..(Len(channel) + 1)
        /\ \A i \in DOMAIN channel : channel'[i] = channel[i]
        /\ channel'[Len(channel) + 1].outcome = o
    BY <1>6, LenProperties DEF Send
  <2>6. ASSUME Looping, NEW i \in DOMAIN channel', FirstOnChannel(i)'
        PROVE  channel'[i].outcome = firstVerdict'
    <3>1. CASE i \in DOMAIN channel
      <4>1. FirstOnChannel(i)
        BY <2>5, <2>6, <3>1 DEF FirstOnChannel
      <4>2. channel[i].outcome = firstVerdict /\ firstVerdict # "none"
        BY <2>6, <3>1, <4>1 DEF VerdictsWait, FirstOnChannel, Verdicts
      <4> QED
        BY <2>2, <2>5, <3>1, <4>2
    <3>2. CASE i \notin DOMAIN channel
      <4>1. i = Len(channel) + 1 /\ o \in Verdicts
        BY <2>5, <2>6, <3>2 DEF FirstOnChannel
      <4>2. \A j \in DOMAIN channel : channel[j].outcome \notin Verdicts
        BY <2>5, <2>6, <4>1 DEF FirstOnChannel
      <4> QED
        BY <2>2, <2>5, <2>6, <4>1, <4>2 DEF VerdictsWait
    <3> QED
      BY <3>1, <3>2
  <2>7. ASSUME Looping, firstVerdict' # "none"
        PROVE  \E i \in DOMAIN channel' : channel'[i].outcome \in Verdicts
    <3>1. CASE firstVerdict # "none"
      BY <2>5, <2>7, <3>1 DEF VerdictsWait
    <3>2. CASE firstVerdict = "none"
      <4>1. o \in Verdicts /\ Len(channel) + 1 \in DOMAIN channel'
        BY <2>2, <2>5, <2>7, <3>2
      <4> QED
        BY <2>5, <4>1
    <3> QED
      BY <3>1, <3>2
  <2>8. VerdictsWait'
    BY <2>1, <2>6, <2>7 DEF VerdictsWait, Looping
  <2> QED
    BY <1>0, <2>3, <2>4, <2>8
<1>7. ASSUME NEW id \in AttemptId, EndCancelled(id)
      PROVE  VerdictInv'
  BY <1>0, <1>7 DEF EndCancelled, VerdictsWait, FirstOnChannel, GaveUpIdle, DeadlineReached,
     ResultIsFirst, Looping, loopVars, bookVars, endVars, histVars
<1>8. CASE Tick \/ UNCHANGED vars
  <2>1. UNCHANGED <<pc, now, inFlight, joining, result, channel, firstVerdict>>
    BY <1>8 DEF Tick, vars, loopVars, bookVars, endVars, runnerVars, histVars
  <2>2. VerdictsWait' /\ ResultIsFirst' /\ GaveUpIdle'
    BY <2>1 DEF VerdictsWait, FirstOnChannel, GaveUpIdle, DeadlineReached, ResultIsFirst, Looping
  <2> QED
    BY <1>0, <2>2
<1> QED
  BY <1>1, <1>2, <1>3, <1>4, <1>5, <1>6, <1>7, <1>8 DEF Next, Loop, LoopOnly, Returned

\* The first verdict sent is the one the run returns, whatever raced with it.
THEOREM FirstVerdictAlwaysWins == Spec => []FirstVerdictWins
<1>1. VerdictInv => FirstVerdictWins
  BY DEF VerdictInv, GaveUpIdle, ResultIsFirst, FirstVerdictWins
<1> QED
  BY <1>1, VerdictInvInit, VerdictInvStep, PTL DEF Spec

-----------------------------------------------------------------------------
\* Every step of the loop is a step of the judge's contract or stutters there.
LEMMA ContractStep == VerdictInv /\ [Next]_vars => [Contract!Next]_(Contract!vars)
<1> SUFFICES ASSUME VerdictInv, [Next]_vars PROVE [Contract!Next]_(Contract!vars)
  OBVIOUS
<1> USE DEF Contract!Next, Contract!vars, Contract!Answer, Contract!Conclude, Contract!Answers
<1>1. CASE Return
  <2>1. pc = "cancel" /\ pc' = "done" /\ UNCHANGED <<result, firstVerdict>>
    BY <1>1 DEF Return, endVars, histVars
  <2>2. result = "exhausted" \/ (result \in Verdicts /\ result = firstVerdict)
    BY <2>1 DEF VerdictInv, BooksInv, TypeInv, StageAgrees, ResultIsFirst
  <2>3. JudgeVerdict' \in {"ask"} \cup ({firstVerdict} \ {"none"})
    BY <2>1, <2>2 DEF JudgeVerdict, Verdicts
  <2> QED
    BY <2>1, <2>3
<1>2. ASSUME NEW id \in AttemptId, NEW o \in Outcomes, Send(id, o)
      PROVE  [Contract!Next]_(Contract!vars)
  <2>1. UNCHANGED <<pc, result>>
    BY <1>2 DEF Send, loopVars, endVars
  <2>2. CASE o \in Verdicts
    BY <1>2, <2>1, <2>2 DEF Send, JudgeVerdict, Verdicts
  <2>3. CASE o \notin Verdicts
    BY <1>2, <2>1, <2>3 DEF Send, JudgeVerdict
  <2> QED
    BY <2>2, <2>3
<1>3. CASE \/ BeginPass \/ Launch \/ Skip \/ BeginWait \/ Exhaust \/ Wake
           \/ ArriveVerdict \/ ArriveFailure \/ CancelNext \/ JoinWorker
  <2>1. pc # "done" /\ pc' # "done"
    BY <1>3 DEF BeginPass, Launch, Skip, BeginWait, Exhaust, Wake, ArriveVerdict, ArriveFailure,
       Arrive, CancelNext, JoinWorker, loopVars
  <2>2. UNCHANGED firstVerdict
    BY <1>3 DEF BeginPass, Launch, Skip, BeginWait, Exhaust, Wake, ArriveVerdict, ArriveFailure,
       Arrive, CancelNext, JoinWorker, histVars
  <2> QED
    BY <2>1, <2>2
<1>4. CASE (\E id \in AttemptId : EndCancelled(id)) \/ Tick \/ UNCHANGED vars
  BY <1>4 DEF EndCancelled, Tick, vars, loopVars, endVars, histVars, JudgeVerdict
<1> QED
  BY <1>1, <1>2, <1>3, <1>4 DEF Next, Loop, LoopOnly, Returned

\* The loop implements the contract: it answers allow only if a provider did.
THEOREM ContractKept == Spec => KeepsContract
<1>1. Init => Contract!Init
  BY DEF Init, Contract!Init
<1> QED
  BY <1>1, VerdictInvInit, VerdictInvStep, ContractStep, PTL
     DEF Spec, KeepsContract, Contract!Spec
-----------------------------------------------------------------------------
\* A report row for every launch.  The count of what is in flight follows each
\* launch, arrival and cancellation.
LEMMA InFlightIsFinite == TypeOK => IsFiniteSet(inFlight)
<1> SUFFICES ASSUME TypeOK PROVE IsFiniteSet(inFlight)
  OBVIOUS
<1>1. IsFiniteSet(0..(MaxAttempts - 1))
  BY ParamsAssumption, FS_Interval
<1> QED
  BY <1>1, FS_Subset DEF TypeOK, AttemptId

ReportInv == BooksInv /\ EveryLaunchIsReported

\* Every step keeps the rows of the report and the attempts in flight in balance.
THEOREM ReportInvStep == ReportInv /\ [Next]_vars => ReportInv'
<1> SUFFICES ASSUME ReportInv, [Next]_vars PROVE EveryLaunchIsReported'
  BY BooksInvStep DEF ReportInv
<1>t. TypeOK /\ AttemptsExist /\ Len(records) + Cardinality(inFlight) = launched
  BY DEF ReportInv, BooksInv, TypeInv, EveryLaunchIsReported
<1>f. /\ IsFiniteSet(inFlight) /\ Cardinality(inFlight) \in Nat
      /\ records \in Seq(Record) /\ Len(records) \in Nat
  BY <1>t, InFlightIsFinite, FS_CardinalityType, LenProperties DEF TypeOK
<1>1. CASE Launch
  <2>1. launched \notin inFlight /\ UNCHANGED records
    BY <1>1, <1>t, ParamsAssumption DEF Launch, AttemptsExist, TypeOK
  <2>2. inFlight' = inFlight \cup {launched} /\ launched' = launched + 1
    BY <1>1 DEF Launch
  <2>3. Cardinality(inFlight') = Cardinality(inFlight) + 1
    BY <1>f, <2>1, <2>2, FS_AddElement
  <2> QED
    BY <1>t, <1>f, <2>1, <2>2, <2>3 DEF EveryLaunchIsReported
<1>2. CASE ArriveVerdict \/ ArriveFailure
  <2> PICK p \in Prov : Arrive(Head(channel).id, p)
    BY <1>2 DEF ArriveVerdict, ArriveFailure
  <2> DEFINE id == Head(channel).id
  <2>1. id \in inFlight /\ inFlight' = inFlight \ {id}
    BY DEF Arrive
  <2>2. Cardinality(inFlight') = Cardinality(inFlight) - 1
    <3> HIDE DEF id
    <3> QED BY <1>f, <2>1, FS_RemoveElement
  <2>3. Len(records') = Len(records) + 1 /\ UNCHANGED launched
    BY <1>f DEF Arrive
  <2> QED
    BY <1>t, <1>f, <2>2, <2>3 DEF EveryLaunchIsReported
<1>3. CASE CancelNext
  <2> PICK id \in inFlight :
         /\ inFlight' = inFlight \ {id}
         /\ records' = Append(records, [provider |-> owner[id], outcome |-> tag])
    BY <1>3 DEF CancelNext
  <2>1. Cardinality(inFlight') = Cardinality(inFlight) - 1
    BY <1>f, FS_RemoveElement
  <2>2. Len(records') = Len(records) + 1 /\ UNCHANGED launched
    BY <1>f, <1>3 DEF CancelNext
  <2> QED
    BY <1>t, <1>f, <2>1, <2>2 DEF EveryLaunchIsReported
<1>4. CASE \/ BeginPass \/ Skip \/ BeginWait \/ Exhaust \/ Wake \/ JoinWorker \/ Return
           \/ (\E id \in AttemptId : \E o \in Outcomes : Send(id, o))
           \/ (\E id \in AttemptId : EndCancelled(id)) \/ Tick \/ UNCHANGED vars
  <2>1. UNCHANGED <<records, inFlight, launched>>
    BY <1>4 DEF BeginPass, Skip, BeginWait, Exhaust, Wake, JoinWorker, Return, Send,
       EndCancelled, Tick, vars, bookVars
  <2> QED
    BY <1>t, <2>1 DEF EveryLaunchIsReported
<1> QED
  BY <1>1, <1>2, <1>3, <1>4 DEF Next, Loop, LoopOnly, Returned

\* The report never loses an attempt and never has one twice.
THEOREM LaunchesAreReported == Spec => []EveryLaunchIsReported
<1>1. Init => ReportInv
  BY BooksInvInit, FS_EmptySet DEF Init, ReportInv, EveryLaunchIsReported
<1>2. ReportInv => EveryLaunchIsReported
  BY DEF ReportInv
<1> QED
  BY <1>1, <1>2, ReportInvStep, PTL DEF Spec

-----------------------------------------------------------------------------
\* Why the loop gave up, as it stood when it did.
ReasonInv == VerdictInv /\ GivesUpForAReason

\* The loop gives up only on a termination check that had a reason to.
THEOREM ReasonInvStep == ReasonInv /\ [Next]_vars => ReasonInv'
<1> SUFFICES ASSUME ReasonInv, [Next]_vars PROVE ReasonInv'
  OBVIOUS
<1>0. VerdictInv'
  BY VerdictInvStep DEF ReasonInv
<1> USE DEF ReasonInv, VerdictInv, BooksInv, TypeInv, TypeOK
<1>1. CASE Exhaust
  <2> SUFFICES ASSUME ~DeadlineReached', NEW p \in Prov
               PROVE  \/ disabled'[p]
                      \/ launched' = MaxAttempts
                      \/ Greater(nextLaunchAt'[p], now') + MinLaunch > TotalBudget
                      \/ p = 1 /\ HedgeAfter >= TotalBudget
    BY <1>0 DEF GivesUpForAReason
  <2>1. UNCHANGED <<disabled, launched, nextLaunchAt, now>> /\ Looping
    BY <1>1 DEF Exhaust, Looping, provVars, bookVars
  <2>2. inFlight = {} /\ ~Launchable(p)
    BY <1>1, <2>1 DEF Exhaust, DeadlineReached, AnyLaunchable
  <2>3. marker[p] = NoAttempt
    BY <2>1, <2>2 DEF BooksAgree
  <2>4. Greater(nextLaunchAt[p], now) \in Nat /\ p \in {0, 1}
    BY ParamsAssumption DEF Greater, Prov
  <2>5. SaturatingSub(TotalBudget, Greater(nextLaunchAt[p], now)) < MinLaunch
           => Greater(nextLaunchAt[p], now) + MinLaunch > TotalBudget
    <3> DEFINE g == Greater(nextLaunchAt[p], now)
    <3>1. g \in Nat
      BY <2>4
    <3> HIDE DEF g
    <3>2. SaturatingSub(TotalBudget, g) < MinLaunch => g + MinLaunch > TotalBudget
      BY <3>1, ParamsAssumption DEF SaturatingSub, Greater, MinLaunch
    <3> QED
      BY <3>2 DEF g
  <2>6. SaturatingSub(TotalBudget, Greater(nextLaunchAt[p], now)) \in Int /\ MinLaunch \in Int
    BY <2>4, ParamsAssumption DEF SaturatingSub, Greater, MinLaunch
  <2> QED
    BY <2>1, <2>2, <2>3, <2>4, <2>5, <2>6, ParamsAssumption DEF Launchable
<1>2. CASE \/ BeginPass \/ Launch \/ Skip \/ BeginWait \/ Wake \/ ArriveVerdict \/ ArriveFailure
           \/ Return
  <2>1. ~(pc' = "cancel" /\ result' = "exhausted")
    BY <1>2, <1>0 DEF BeginPass, Launch, Skip, BeginWait, Wake, ArriveVerdict, ArriveFailure,
       Return, Verdicts
  <2> QED
    BY <1>0, <2>1 DEF GivesUpForAReason
<1>3. CASE \/ CancelNext \/ JoinWorker
           \/ (\E id \in AttemptId : \E o \in Outcomes : Send(id, o))
           \/ (\E id \in AttemptId : EndCancelled(id)) \/ Tick \/ UNCHANGED vars
  <2>1. UNCHANGED <<pc, result, now, disabled, launched, nextLaunchAt>>
    BY <1>3 DEF CancelNext, JoinWorker, Send, EndCancelled, Tick, vars, loopVars, provVars,
       bookVars, endVars
  <2> QED
    BY <1>0, <2>1 DEF GivesUpForAReason, DeadlineReached
<1> QED
  BY <1>1, <1>2, <1>3 DEF Next, Loop, LoopOnly, Returned

\* The loop never gives up early while a provider could still be launched.
THEOREM GivingUpHasAReason == Spec => []GivesUpForAReason
<1>1. Init => ReasonInv
  BY VerdictInvInit DEF Init, ReasonInv, GivesUpForAReason
<1>2. ReasonInv => GivesUpForAReason
  BY DEF ReasonInv
<1> QED
  BY <1>1, <1>2, ReasonInvStep, PTL DEF Spec

-----------------------------------------------------------------------------
\* What a provider waits for: the floor after its own failure, or, the hedge
\* alone, the end of the primary.
FloorInv ==
  /\ \A p \in Prov : failedAt[p] <= clock
  /\ \A p \in Prov : promoted[p] => 0 \in Prov /\ disabled[0]
  /\ \A p \in Prov :
       \/ failedAt[p] = -1
       \/ disabled[p]
       \/ nextLaunchAt[p] >= failedAt[p] + RelaunchFloor
       \/ p = 1 /\ promoted[1] /\ 0 \in Prov /\ failedAt[0] >= failedAt[1]

LaunchInv == TypeInv /\ now <= clock /\ FloorInv

\* No gap chosen for a retry, in either phase, is below the relaunch floor.
LEMMA GapsKeepTheFloor ==
  ASSUME TypeOK, NEW p \in Prov, NEW gap \in RetryGaps(p)
  PROVE  gap \in Nat /\ gap >= RelaunchFloor
<1>1. CASE gap = RelaunchFloor
  BY <1>1, ParamsAssumption
<1>2. failures[p] \in Nat
  BY DEF TypeOK
<1>3. CASE gap \in BackoffGaps(failures[p])
  <2> DEFINE base == BackoffBaseDelay(failures[p])
  <2>1. base \in Int
    BY <1>2, ParamsAssumption DEF BackoffBaseDelay, Lesser
  <2>2. PICK j \in 0..Greater(BackoffBase - 1, 0) :
                gap = Greater(base + j, RelaunchFloor)
    BY <1>3 DEF BackoffGaps
  <2> HIDE DEF base
  <2> QED
    BY <2>1, <2>2, ParamsAssumption DEF Greater
<1> QED
  BY <1>1, <1>3 DEF RetryGaps

\* What the handling of a failure does to the launch time of each provider: it waits
\* for the floor, or is promoted by the end of the primary.
LEMMA FailEffect ==
  ASSUME TypeOK, NEW p \in Prov, NEW o, NEW gap \in Nat, Fail(p, o, gap)
  PROVE  /\ failedAt' = [failedAt EXCEPT ![p] = clock]
         /\ \A q \in Prov : disabled[q] => disabled'[q]
         /\ disabled'[p] \/ nextLaunchAt'[p] = clock + gap
         /\ \A q \in Prov \ {p} :
              nextLaunchAt'[q] = nextLaunchAt[q] \/ (q = 1 /\ p = 0 /\ promoted'[1])
         /\ \A q \in Prov : promoted[q] => promoted'[q]
         /\ \A q \in Prov : promoted'[q] => promoted[q] \/ (p = 0 /\ disabled'[0])
<1> DEFINE dead  == disabled[p] \/ Disables(p, o)
           retry == IF dead THEN nextLaunchAt ELSE [nextLaunchAt EXCEPT ![p] = clock + gap]
           promotes == p = 0 /\ dead /\ NumProviders > 1 /\ ~promoted[1]
<1>1. /\ disabled' = [disabled EXCEPT ![p] = dead]
      /\ promoted' = IF promotes THEN [promoted EXCEPT ![1] = TRUE] ELSE promoted
      /\ nextLaunchAt' = IF promotes THEN [retry EXCEPT ![1] = Lesser(@, clock)] ELSE retry
      /\ failedAt' = [failedAt EXCEPT ![p] = clock]
  BY DEF Fail
<1>2. dead \in BOOLEAN /\ (disabled[p] => dead)
  BY Zenon
<1>3. promotes => p = 0 /\ dead
  OBVIOUS
<1>4. retry = IF dead THEN nextLaunchAt ELSE [nextLaunchAt EXCEPT ![p] = clock + gap]
  OBVIOUS
<1>5. promotes => 1 \in Prov
  BY ParamsAssumption DEF Prov
<1> HIDE DEF dead, retry, promotes
<1>6. disabled'[p] = dead /\ \A q \in Prov \ {p} : disabled'[q] = disabled[q]
  BY <1>1 DEF TypeOK
<1>7. disabled'[p] \/ nextLaunchAt'[p] = clock + gap
  BY <1>1, <1>2, <1>3, <1>4, <1>6 DEF TypeOK
<1>8. \A q \in Prov \ {p} :
        nextLaunchAt'[q] = nextLaunchAt[q] \/ (q = 1 /\ p = 0 /\ promoted'[1])
  BY <1>1, <1>3, <1>4, <1>5 DEF TypeOK
<1>9. \A q \in Prov : promoted[q] => promoted'[q]
  BY <1>1 DEF TypeOK
<1>10. \A q \in Prov : promoted'[q] => promoted[q] \/ (p = 0 /\ disabled'[0])
  BY <1>1, <1>3, <1>6 DEF TypeOK
<1>11. \A q \in Prov : disabled[q] => disabled'[q]
  <2> SUFFICES ASSUME NEW q \in Prov, disabled[q] PROVE disabled'[q]
    OBVIOUS
  <2>1. CASE q = p
    BY <1>2, <1>6, <2>1
  <2>2. CASE q # p
    BY <1>6, <2>2
  <2> QED
    BY <2>1, <2>2
<1>12. failedAt' = [failedAt EXCEPT ![p] = clock]
  BY <1>1
<1> QED
  BY <1>7, <1>8, <1>9, <1>10, <1>11, <1>12

\* Every step keeps the launch times consistent with the last failures.
THEOREM LaunchInvStep == LaunchInv /\ [Next]_vars => LaunchInv'
<1> SUFFICES ASSUME LaunchInv, [Next]_vars PROVE now' <= clock' /\ FloorInv'
  BY TypeInvStep DEF LaunchInv
<1>t. TypeOK /\ now <= clock /\ FloorInv /\ clock \in Nat /\ now \in Nat
  BY DEF LaunchInv, TypeInv, TypeOK
<1>1. CASE ArriveFailure
  <2> PICK p \in Prov : /\ Arrive(Head(channel).id, p)
                        /\ \E gap \in RetryGaps(p) : Fail(p, Head(channel).outcome, gap)
    BY <1>1 DEF ArriveFailure
  <2> PICK gap \in RetryGaps(p) : Fail(p, Head(channel).outcome, gap)
    OBVIOUS
  <2>1. gap \in Nat /\ gap >= RelaunchFloor /\ RelaunchFloor \in Nat
    BY <1>t, GapsKeepTheFloor, ParamsAssumption
  <2>2. UNCHANGED clock /\ now' = clock
    BY DEF Arrive
  <2>3. /\ failedAt' = [failedAt EXCEPT ![p] = clock]
        /\ \A q \in Prov : disabled[q] => disabled'[q]
        /\ disabled'[p] \/ nextLaunchAt'[p] = clock + gap
        /\ \A q \in Prov \ {p} :
             nextLaunchAt'[q] = nextLaunchAt[q] \/ (q = 1 /\ p = 0 /\ promoted'[1])
        /\ \A q \in Prov : promoted[q] => promoted'[q]
        /\ \A q \in Prov : promoted'[q] => promoted[q] \/ (p = 0 /\ disabled'[0])
    BY <1>t, <2>1, FailEffect
  <2>4. \A q \in Prov : failedAt'[q] <= clock'
    BY <1>t, <2>2, <2>3 DEF FloorInv, TypeOK
  <2>5. \A q \in Prov : promoted'[q] => 0 \in Prov /\ disabled'[0]
    BY <1>t, <2>3 DEF FloorInv
  <2>6. ASSUME NEW q \in Prov
        PROVE  \/ failedAt'[q] = -1
               \/ disabled'[q]
               \/ nextLaunchAt'[q] >= failedAt'[q] + RelaunchFloor
               \/ q = 1 /\ promoted'[1] /\ 0 \in Prov /\ failedAt'[0] >= failedAt'[1]
    <3>1. CASE q = p
      BY <1>t, <2>1, <2>3, <3>1 DEF TypeOK
    <3>2. CASE q = 1 /\ p = 0
      BY <1>t, <2>2, <2>3, <2>4, <3>2 DEF FloorInv, TypeOK
    <3>3. CASE q # p /\ ~(q = 1 /\ p = 0)
      <4>1. failedAt'[q] = failedAt[q] /\ nextLaunchAt'[q] = nextLaunchAt[q]
        BY <1>t, <2>3, <3>3 DEF TypeOK
      <4> QED
        BY <1>t, <2>3, <3>3, <4>1, ParamsAssumption DEF FloorInv, Prov
    <3> QED
      BY <3>1, <3>2, <3>3
  <2> QED
    BY <1>t, <2>2, <2>4, <2>5, <2>6 DEF FloorInv
<1>2. CASE Tick
  BY <1>t, <1>2 DEF Tick, FloorInv, TypeOK, loopVars, provVars, histVars
<1>3. CASE \/ BeginPass \/ Launch \/ Skip \/ BeginWait \/ Exhaust \/ Wake \/ ArriveVerdict
           \/ CancelNext \/ JoinWorker \/ Return
           \/ (\E id \in AttemptId : \E o \in Outcomes : Send(id, o))
           \/ (\E id \in AttemptId : EndCancelled(id)) \/ UNCHANGED vars
  <2>1. UNCHANGED <<clock, disabled, nextLaunchAt, promoted, failedAt>> /\ now' \in {now, clock}
    BY <1>3 DEF BeginPass, Launch, Skip, BeginWait, Exhaust, Wake, ArriveVerdict, Arrive,
       CancelNext, JoinWorker, Return, Send, EndCancelled, vars, loopVars, provVars, histVars
  <2> QED
    BY <1>t, <2>1 DEF FloorInv
<1> QED
  BY <1>1, <1>2, <1>3 DEF Next, Loop, LoopOnly, Returned

\* No provider has failed when the loop starts, so every launch time is free.
LEMMA LaunchInvInit == Init => LaunchInv
BY TypeInvInit DEF Init, LaunchInv, FloorInv

\* Only the action Launch launches.
LEMMA OnlyLaunchLaunches ==
  ASSUME TypeInv, [Next]_vars, launched' > launched
  PROVE  Launch /\ cursor \in Prov /\ owner'[launched] = cursor
<1> USE DEF TypeInv, TypeOK
<1>1. CASE Launch
  <2>1. launched \in AttemptId
    BY <1>1, ParamsAssumption DEF Launch, CanLaunch, AttemptId
  <2> QED
    BY <1>1, <2>1 DEF Launch
<1>2. CASE ~Launch
  <2>1. UNCHANGED launched
    BY <1>2 DEF Next, Loop, LoopOnly, Returned, BeginPass, Skip, BeginWait, Exhaust, Wake,
       ArriveVerdict, ArriveFailure, Arrive, CancelNext, JoinWorker, Return, Send, EndCancelled,
       Tick, vars, bookVars
  <2> QED
    BY <2>1, ParamsAssumption
<1> QED
  BY <1>1, <1>2

\* The hedge is not launched before its boundary while the primary can still run.
THEOREM HedgeAlwaysWaits == Spec => HedgeWaitsItsTurn
<1>1. LaunchInv /\ [Next]_vars =>
        [(launched' > launched /\ owner'[launched] = 1)
            => now >= HedgeAfter \/ disabled[0]]_vars
  <2> SUFFICES ASSUME LaunchInv, [Next]_vars, launched' > launched, owner'[launched] = 1
               PROVE  now >= HedgeAfter \/ disabled[0]
    OBVIOUS
  <2>1. Launch /\ cursor \in Prov /\ cursor = 1
    BY OnlyLaunchLaunches DEF LaunchInv
  <2> QED
    BY <2>1 DEF Launch, CanLaunch, ProviderEligible, LaunchInv, FloorInv
<1> QED
  BY <1>1, LaunchInvInit, LaunchInvStep, PTL DEF Spec, HedgeWaitsItsTurn

\* A provider that failed is not relaunched sooner than the floor, except the
\* hedge that the end of the primary promotes.
THEOREM RetriesAlwaysKeepTheFloor == Spec => RetriesKeepTheFloor
<1> DEFINE Kept ==
      launched' > launched =>
        LET p == owner'[launched]
        IN \/ failedAt[p] = -1
           \/ now - failedAt[p] >= RelaunchFloor
           \/ p = 1 /\ promoted[1] /\ failedAt[0] >= failedAt[1]
<1>1. LaunchInv /\ [Next]_vars => Kept
  <2> SUFFICES ASSUME LaunchInv, [Next]_vars, launched' > launched
               PROVE  Kept
    OBVIOUS
  <2>1. Launch /\ cursor \in Prov /\ owner'[launched] = cursor
    BY OnlyLaunchLaunches DEF LaunchInv
  <2>2. ~disabled[cursor] /\ nextLaunchAt[cursor] <= now
    BY <2>1 DEF Launch, CanLaunch
  <2> QED
    BY <2>1, <2>2, ParamsAssumption DEF LaunchInv, TypeInv, TypeOK, FloorInv
<1> QED
  BY <1>1, LaunchInvInit, LaunchInvStep, PTL DEF Spec, RetriesKeepTheFloor

-----------------------------------------------------------------------------
(* Worker threads, processes and files. *)

\* Where a thread stands tells whether the loop counts it as running, and what
\* child and files it may own.
AtWork == {"create_out", "create_err", "spawn", "poll"}

WorkerTypes ==
  /\ worker \in [AttemptId -> {"none", "ended"} \cup AtWork]
  /\ child \in [AttemptId -> {"none", "alive", "exited", "reaped"}]
  /\ exit \in [AttemptId -> {NoExit} \cup [out : Stdout, status : Status]]
  /\ files \in [AttemptId -> SUBSET {"out", "err"}]
  /\ startedAt \in [AttemptId -> Nat]

WorkersOwn(id) ==
  /\ id \in running <=> worker[id] \in AtWork
  /\ id >= launched => worker[id] = "none"
  /\ child[id] \in {"alive", "exited"} <=> worker[id] = "poll"
  /\ child[id] = "exited" => exit[id] \in [out : Stdout, status : Status]
  /\ worker[id] \in {"none", "create_out", "ended"} => files[id] = {}

RunInv == WorkerTypes /\ \A id \in AttemptId : WorkersOwn(id)

\* Whatever a child leaves behind, classify gives one of the outcomes of the loop.
LEMMA ClassifyTotal ==
  ASSUME NEW e \in [out : Stdout, status : Status]
  PROVE  Classify(e) \in Outcomes
<1> DEFINE R == {"allow", "ask", "exit_error", "empty_output", "nonconforming"}
<1>1. R \subseteq Outcomes
  BY DEF Outcomes, Verdicts, Retryable, Disabling
<1>2. e.out \in Stdout /\ e.status \in Status
  OBVIOUS
<1>3. Classify(e) \in R
  BY <1>2 DEF Classify, Stdout, Status, Verdicts
<1> QED
  BY <1>1, <1>3

\* A step of the threads is a step of the loop's abstract process layer.
LEMMA RunStep == RunInv /\ [RunNext]_runVars => [Next]_vars
<1> SUFFICES ASSUME RunInv, [RunNext]_runVars PROVE [Next]_vars
  OBVIOUS
<1> USE DEF Next, Loop, Returned, orchVars
<1>1. CASE LaunchWorker
  BY <1>1 DEF LaunchWorker
<1>2. CASE LoopStep
  BY <1>2 DEF LoopStep
<1>3. ASSUME NEW id \in AttemptId, WorkerStep(id) \/ PollBroken(id) \/ ChildExits(id)
      PROVE  [Next]_vars
  <2>1. {"timeout", "spawn_error"} \subseteq Outcomes
    BY DEF Outcomes, Verdicts, Retryable, Disabling
  <2>2. CASE CreateOut(id)
    BY <2>1, <2>2 DEF CreateOut, Report
  <2>3. CASE CreateErr(id)
    BY <2>1, <2>3 DEF CreateErr, Report
  <2>4. CASE SpawnChild(id)
    BY <2>1, <2>4 DEF SpawnChild, Report
  <2>5. CASE PollExited(id)
    <3>1. Classify(exit[id]) \in Outcomes
      BY <2>5, ClassifyTotal DEF PollExited, RunInv, WorkersOwn
    <3>2. Send(id, Classify(exit[id]))
      BY <2>5 DEF PollExited, Report
    <3> QED
      BY <3>1, <3>2
  <2>6. CASE PollCancelled(id)
    BY <2>6 DEF PollCancelled
  <2>7. CASE PollTimeout(id)
    BY <2>1, <2>7 DEF PollTimeout, Report
  <2>8. CASE PollBroken(id)
    BY <2>1, <2>8 DEF PollBroken, Report
  <2>9. CASE ChildExits(id)
    BY <2>9 DEF ChildExits
  <2> QED
    BY <1>3, <2>2, <2>3, <2>4, <2>5, <2>6, <2>7, <2>8, <2>9 DEF WorkerStep
<1>4. CASE (Tick /\ UNCHANGED workerVars) \/ (Returned /\ UNCHANGED workerVars)
  BY <1>4
<1>5. CASE UNCHANGED runVars
  BY <1>5 DEF runVars
<1> QED
  BY <1>1, <1>2, <1>3, <1>4, <1>5 DEF RunNext

-----------------------------------------------------------------------------
\* No worker, child or capture file exists when the run starts.
LEMMA RunInvInit == RunInit => VerdictInv /\ RunInv
<1> SUFFICES ASSUME RunInit PROVE VerdictInv /\ RunInv
  OBVIOUS
<1>1. VerdictInv
  BY VerdictInvInit DEF RunInit
<1>2. WorkerTypes
  BY DEF RunInit, WorkerTypes
<1>3. \A id \in AttemptId : WorkersOwn(id)
  BY DEF RunInit, Init, WorkersOwn, AtWork
<1> QED
  BY <1>1, <1>2, <1>3 DEF RunInv

\* A step of one thread leaves the others as they are.
LEMMA WorkerKeepsInv ==
  ASSUME TypeOK, RunInv, NEW id \in AttemptId,
         WorkerStep(id) \/ PollBroken(id) \/ ChildExits(id)
  PROVE  RunInv'
<1> USE DEF RunInv, WorkerTypes, AtWork
<1>0. UNCHANGED launched
  BY DEF WorkerStep, CreateOut, CreateErr, SpawnChild, PollExited, PollCancelled, PollTimeout,
     PollBroken, ChildExits, Report, Send, EndCancelled, bookVars, orchVars, vars
<1> DEFINE Others == \A other \in AttemptId \ {id} :
      /\ worker'[other] = worker[other] /\ child'[other] = child[other]
      /\ exit'[other] = exit[other] /\ files'[other] = files[other]
      /\ other \in running' <=> other \in running
<1>1. Others => \A other \in AttemptId \ {id} : WorkersOwn(other)'
  BY <1>0 DEF WorkersOwn
<1> SUFFICES WorkerTypes' /\ Others /\ WorkersOwn(id)'
  BY <1>1
<1>2. CASE CreateOut(id)
  <2>1. WorkerTypes'
    BY <1>2 DEF CreateOut, Report
  <2>2. Others
    BY <1>2 DEF CreateOut, Report, Send, orchVars, vars, runnerVars
  <2>3. WorkersOwn(id)'
    <3>1. CASE Report(id, "spawn_error")
      <4>1. worker'[id] = "ended" /\ running' = running \ {id}
        BY <3>1 DEF Report, Send
      <4>2. files'[id] = {} /\ child'[id] \notin {"alive", "exited"}
        BY <1>2, <2>1, <3>1, <4>1 DEF CreateOut, Report, WorkersOwn
      <4> QED
        BY <1>0, <1>2, <4>1, <4>2 DEF CreateOut, WorkersOwn, TypeOK
    <3>2. CASE UNCHANGED orchVars /\ worker' = [worker EXCEPT ![id] = "create_err"] /\ child' = child
      <4>1. running' = running /\ exit' = exit /\ worker'[id] = "create_err"
        BY <1>2, <3>2 DEF CreateOut, orchVars, vars, runnerVars
      <4>2. worker[id] \in AtWork /\ child[id] \notin {"alive", "exited"}
        BY <1>2 DEF CreateOut, WorkersOwn
      <4> QED
        BY <1>0, <3>2, <4>1, <4>2 DEF WorkersOwn
    <3> QED
      BY <1>2, <3>1, <3>2 DEF CreateOut
  <2> QED
    BY <2>1, <2>2, <2>3
<1>3. CASE CreateErr(id)
  <2>1. WorkerTypes'
    BY <1>3 DEF CreateErr, Report
  <2>2. Others
    BY <1>3 DEF CreateErr, Report, Send, orchVars, vars, runnerVars
  <2>3. WorkersOwn(id)'
    BY <1>0, <1>3 DEF CreateErr, Report, Send, WorkersOwn, orchVars, vars, runnerVars
  <2> QED
    BY <2>1, <2>2, <2>3
<1>4. CASE SpawnChild(id)
  <2>1. WorkerTypes'
    <3>1. clock \in Nat
      BY DEF TypeOK
    <3>2. startedAt' \in [AttemptId -> Nat] /\ child' \in [AttemptId -> {"none", "alive", "exited", "reaped"}]
      BY <1>4, <3>1 DEF SpawnChild
    <3> QED
      BY <1>4, <3>2 DEF SpawnChild, Report
  <2>2. Others
    BY <1>4 DEF SpawnChild, Report, Send, orchVars, vars, runnerVars
  <2>3. WorkersOwn(id)'
    <3>1. CASE Report(id, "spawn_error")
      <4>1. worker'[id] = "ended" /\ running' = running \ {id}
        BY <3>1 DEF Report, Send
      <4>2. files'[id] = {} /\ child'[id] \notin {"alive", "exited"}
        BY <1>4, <2>1, <3>1, <4>1 DEF SpawnChild, Report, WorkersOwn
      <4> QED
        BY <1>0, <1>4, <4>1, <4>2 DEF SpawnChild, WorkersOwn, TypeOK
    <3>2. CASE UNCHANGED orchVars /\ worker' = [worker EXCEPT ![id] = "poll"] /\ child'[id] = "alive"
      <4>1. running' = running /\ exit' = exit /\ worker'[id] = "poll"
        BY <1>4, <3>2 DEF SpawnChild, orchVars, vars, runnerVars
      <4>2. worker[id] \in AtWork /\ child[id] \notin {"alive", "exited"}
        BY <1>4 DEF SpawnChild, WorkersOwn
      <4> QED
        BY <1>0, <3>2, <4>1, <4>2 DEF WorkersOwn
    <3> QED
      BY <1>4, <3>1, <3>2 DEF SpawnChild
  <2> QED
    BY <2>1, <2>2, <2>3
<1>5. CASE PollExited(id)
  BY <1>0, <1>5 DEF PollExited, CleanUp, Report, Send, WorkersOwn
<1>6. CASE PollCancelled(id)
  BY <1>0, <1>6 DEF PollCancelled, CleanUp, EndCancelled, WorkersOwn
<1>7. CASE PollTimeout(id)
  BY <1>0, <1>7 DEF PollTimeout, CleanUp, Report, Send, WorkersOwn
<1>8. CASE PollBroken(id)
  BY <1>0, <1>8 DEF PollBroken, CleanUp, Report, Send, WorkersOwn
<1>9. CASE ChildExits(id)
  BY <1>0, <1>9 DEF ChildExits, WorkersOwn, orchVars, vars, runnerVars
<1> QED
  BY <1>2, <1>3, <1>4, <1>5, <1>6, <1>7, <1>8, <1>9 DEF WorkerStep

\* Every step of the run keeps the workers, their children and their files in line
\* with what the loop believes of them.
THEOREM RunInvStep == VerdictInv /\ RunInv /\ [RunNext]_runVars => VerdictInv' /\ RunInv'
<1> SUFFICES ASSUME VerdictInv, RunInv, [RunNext]_runVars PROVE RunInv'
  BY RunStep, VerdictInvStep
<1>t. TypeOK
  BY DEF VerdictInv, BooksInv, TypeInv
<1>1. CASE LaunchWorker
  <2>1. launched \in AttemptId /\ running' = running \cup {launched} /\ launched' = launched + 1
    BY <1>1, <1>t, ParamsAssumption DEF LaunchWorker, Launch, CanLaunch, AttemptId, TypeOK
  <2>2. WorkerTypes'
    BY <1>1, <2>1 DEF LaunchWorker, RunInv, WorkerTypes, AtWork
  <2>3. \A id \in AttemptId : WorkersOwn(id)'
    BY <1>1, <1>t, <2>1 DEF LaunchWorker, RunInv, WorkersOwn, WorkerTypes, AtWork, AttemptId, TypeOK
  <2> QED
    BY <2>2, <2>3 DEF RunInv
<1>2. CASE \/ LoopStep \/ (Tick /\ UNCHANGED workerVars) \/ (Returned /\ UNCHANGED workerVars)
           \/ UNCHANGED runVars
  <2>1. UNCHANGED <<workerVars, running, launched>>
    BY <1>2 DEF LoopStep, LoopOnly, BeginPass, Skip, BeginWait, Exhaust, Wake, ArriveVerdict,
       ArriveFailure, Arrive, CancelNext, JoinWorker, Return, Tick, Returned, runVars, vars,
       bookVars, runnerVars
  <2> QED
    BY <2>1 DEF RunInv, WorkerTypes, WorkersOwn, workerVars
<1>3. CASE \E id \in AttemptId : WorkerStep(id) \/ PollBroken(id) \/ ChildExits(id)
  BY <1>t, <1>3, WorkerKeepsInv
<1> QED
  BY <1>1, <1>2, <1>3 DEF RunNext

\* The judge as it runs is a behaviour of the loop's specification.
THEOREM RunImplementsLoop == RunSpec => RunsTheLoop
<1>1. RunInit => Init
  BY DEF RunInit
<1> QED
  BY <1>1, RunInvInit, RunInvStep, RunStep, PTL DEF RunSpec, RunsTheLoop, Spec

\* When the judge has returned, every thread has ended, every child is reaped
\* and every capture file removed.
THEOREM NothingLeft == RunSpec => []NothingIsLeftBehind
<1>1. VerdictInv /\ RunInv => NothingIsLeftBehind
  <2> SUFFICES ASSUME VerdictInv, RunInv, pc = "done", NEW id \in AttemptId
               PROVE  /\ worker[id] \in {"none", "ended"}
                      /\ child[id] \in {"none", "reaped"}
                      /\ files[id] = {}
    BY DEF NothingIsLeftBehind
  <2>1. running = {}
    BY DEF VerdictInv, BooksInv, TypeInv, TypeOK, StageAgrees, RunningIsHeld, NoAttempt, AttemptId
  <2>2. worker[id] \in {"none", "ended"}
    BY <2>1 DEF RunInv, WorkerTypes, WorkersOwn
  <2> QED
    BY <2>2 DEF RunInv, WorkerTypes, WorkersOwn
<1> QED
  BY <1>1, RunInvInit, RunInvStep, PTL DEF RunSpec

\* The hook's decision is the judge's contract, threads and processes included.
THEOREM RunKeepsContract == RunSpec => KeepsContract
BY RunImplementsLoop, ContractKept, PTL DEF RunsTheLoop

-----------------------------------------------------------------------------
\* A worker has no child before it polls, a child that is still running has left
\* nothing, and the first verdict on the channel is what some child has printed.
ChildIsLate == \A id \in AttemptId :
  worker[id] \notin {"poll", "ended"} => child[id] = "none"
PrintedInv ==
  /\ ChildIsLate
  /\ \A id \in AttemptId : child[id] \in {"none", "alive"} => exit[id].out = "none"
  /\ firstVerdict # "none" =>
       \E id \in 0..(launched - 1) : exit[id].out = firstVerdict

LEMMA PrintedInvInit == RunInit => PrintedInv
BY DEF RunInit, Init, NoExit, PrintedInv, ChildIsLate

LEMMA PrintedInvStep ==
  VerdictInv /\ RunInv /\ PrintedInv /\ [RunNext]_runVars => PrintedInv'
<1> SUFFICES ASSUME VerdictInv, RunInv, PrintedInv, [RunNext]_runVars PROVE PrintedInv'
  OBVIOUS
<1>1. /\ launched \in 0..MaxAttempts
      /\ worker \in [AttemptId -> {"none", "ended"} \cup AtWork]
      /\ child \in [AttemptId -> {"none", "alive", "exited", "reaped"}]
      /\ exit \in [AttemptId -> {NoExit} \cup [out : Stdout, status : Status]]
      /\ ChildIsLate
  BY DEF PrintedInv, VerdictInv, BooksInv, TypeInv, TypeOK, RunInv, WorkerTypes
<1> DEFINE Kept == /\ UNCHANGED <<exit, launched, firstVerdict>>
                   /\ \A id \in AttemptId : child'[id] \in {"none", "alive"} =>
                        child[id] \in {"none", "alive"}
<1>2. Kept /\ ChildIsLate' => PrintedInv'
  BY DEF PrintedInv
<1>3. ASSUME NEW id \in AttemptId, NEW o \in Outcomes \ Verdicts, Send(id, o)
      PROVE  UNCHANGED <<launched, firstVerdict>>
  BY <1>3 DEF Send, bookVars
<1>4. {"timeout", "spawn_error"} \subseteq Outcomes \ Verdicts
  BY DEF Outcomes, Verdicts, Retryable, Disabling
<1>5. CASE LaunchWorker
  <2>1. launched' = launched + 1 /\ UNCHANGED <<exit, child, firstVerdict>>
    BY <1>5 DEF LaunchWorker, Launch, histVars
  <2>2. 0..(launched - 1) \subseteq 0..(launched' - 1)
    BY <1>1, <2>1
  <2>3. ChildIsLate'
    <3>1. launched \in AttemptId
      BY <1>1, <1>5, ParamsAssumption DEF LaunchWorker, Launch, CanLaunch, AttemptId
    <3>2. worker[launched] = "none"
      BY <1>1, <3>1 DEF RunInv, WorkersOwn
    <3>3. child[launched] = "none"
      BY <1>1, <3>1, <3>2 DEF ChildIsLate
    <3>4. worker' = [worker EXCEPT ![launched] = "create_out"]
      BY <1>5 DEF LaunchWorker
    <3> QED
      BY <1>1, <2>1, <3>3, <3>4 DEF ChildIsLate
  <2> QED
    BY <2>1, <2>2, <2>3 DEF PrintedInv
<1>6. CASE \/ LoopStep \/ (Tick /\ UNCHANGED workerVars) \/ (Returned /\ UNCHANGED workerVars)
           \/ UNCHANGED runVars
  <2>1. UNCHANGED <<workerVars, firstVerdict, launched>>
    BY <1>6 DEF LoopStep, LoopOnly, BeginPass, Skip, BeginWait, Exhaust, Wake, ArriveVerdict,
       ArriveFailure, Arrive, CancelNext, JoinWorker, Return, Tick, Returned, runVars, vars,
       bookVars, runnerVars, histVars
  <2> QED
    BY <1>1, <1>2, <2>1 DEF workerVars, ChildIsLate
<1>7. ASSUME NEW id \in AttemptId, CreateOut(id) \/ CreateErr(id) PROVE PrintedInv'
  <2>1. Kept /\ UNCHANGED child
    BY <1>3, <1>4, <1>7 DEF CreateOut, CreateErr, Report, orchVars, vars, bookVars, histVars
  <2>2. PICK where \in {"create_err", "spawn", "ended"} : worker' = [worker EXCEPT ![id] = where]
    BY <1>7 DEF CreateOut, CreateErr, Report
  <2>3. worker[id] \in {"create_out", "create_err"}
    BY <1>7 DEF CreateOut, CreateErr
  <2>4. ChildIsLate'
    BY <1>1, <2>1, <2>2, <2>3 DEF ChildIsLate
  <2> QED
    BY <1>2, <2>1, <2>4
<1>8. ASSUME NEW id \in AttemptId, SpawnChild(id) PROVE PrintedInv'
  <2>1. worker[id] = "spawn" /\ child[id] = "none"
    BY <1>1, <1>8 DEF SpawnChild, ChildIsLate
  <2>2. UNCHANGED <<exit, launched, firstVerdict>>
    BY <1>3, <1>4, <1>8 DEF SpawnChild, Report, orchVars, vars, bookVars, histVars
  <2>3. child' = child \/ child' = [child EXCEPT ![id] = "alive"]
    BY <1>8 DEF SpawnChild
  <2>4. PICK where \in {"poll", "ended"} : worker' = [worker EXCEPT ![id] = where]
    BY <1>8 DEF SpawnChild, Report
  <2>5. Kept /\ ChildIsLate'
    BY <1>1, <2>1, <2>2, <2>3, <2>4 DEF ChildIsLate
  <2> QED
    BY <1>2, <2>5
<1>9. ASSUME NEW id \in AttemptId, PollCancelled(id) \/ PollTimeout(id) \/ PollBroken(id)
      PROVE  PrintedInv'
  <2>1. UNCHANGED <<exit, launched, firstVerdict>>
    BY <1>3, <1>4, <1>9 DEF PollCancelled, PollTimeout, PollBroken, CleanUp, Report,
                            EndCancelled, bookVars, histVars
  <2>2. /\ child' = [child EXCEPT ![id] = "reaped"]
        /\ worker' = [worker EXCEPT ![id] = "ended"]
    BY <1>9 DEF PollCancelled, PollTimeout, PollBroken, CleanUp, Report
  <2>3. Kept /\ ChildIsLate'
    BY <1>1, <2>1, <2>2 DEF ChildIsLate
  <2> QED
    BY <1>2, <2>3
<1>10. ASSUME NEW id \in AttemptId, PollExited(id) PROVE PrintedInv'
  <2>1. /\ UNCHANGED exit /\ child' = [child EXCEPT ![id] = "reaped"]
        /\ worker' = [worker EXCEPT ![id] = "ended"]
    BY <1>10 DEF PollExited, CleanUp, Report
  <2>2. /\ launched' = launched
        /\ firstVerdict' = IF firstVerdict = "none" /\ Classify(exit[id]) \in Verdicts
                           THEN Classify(exit[id]) ELSE firstVerdict
    BY <1>10 DEF PollExited, Report, Send, bookVars
  <2>3. id \in 0..(launched - 1)
    BY <1>1, <1>10 DEF PollExited, CleanUp, RunInv, WorkersOwn, AttemptId
  <2>4. Classify(exit[id]) \in Verdicts => exit[id].out = Classify(exit[id])
    <3>1. exit[id] \in [out : Stdout, status : Status]
      BY <1>10 DEF PollExited, RunInv, WorkersOwn
    <3> QED
      BY <3>1 DEF Classify, Stdout, Status, Verdicts
  <2>5. ChildIsLate'
    BY <1>1, <2>1 DEF ChildIsLate
  <2> QED
    BY <1>1, <2>1, <2>2, <2>3, <2>4, <2>5 DEF PrintedInv
<1>11. ASSUME NEW id \in AttemptId, ChildExits(id) PROVE PrintedInv'
  <2>1. PICK o \in Stdout, s \in Status :
          exit' = [exit EXCEPT ![id] = [out |-> o, status |-> s]]
    BY <1>11 DEF ChildExits
  <2>2. /\ UNCHANGED <<launched, firstVerdict>>
        /\ child' = [child EXCEPT ![id] = "exited"] /\ child[id] = "alive"
        /\ UNCHANGED worker
    BY <1>11 DEF ChildExits, orchVars, vars, bookVars, histVars
  <2>3. 0..(launched - 1) \subseteq AttemptId
    BY <1>1, ParamsAssumption DEF AttemptId
  <2>4. exit[id].out = "none"
    BY <2>2 DEF PrintedInv
  <2>5. \A other \in AttemptId \ {id} : exit'[other] = exit[other] /\ child'[other] = child[other]
    BY <1>1, <2>1, <2>2
  <2>6. child'[id] = "exited"
    BY <1>1, <2>2
  <2>7. ChildIsLate'
    BY <1>1, <2>2, <2>5, <2>6 DEF ChildIsLate
  <2> QED
    BY <2>2, <2>3, <2>4, <2>5, <2>6, <2>7 DEF PrintedInv
<1> QED
  BY <1>2, <1>5, <1>6, <1>7, <1>8, <1>9, <1>10, <1>11 DEF RunNext, WorkerStep

\* The verdict that the judge returns was printed by a provider: no kill, timeout or
\* failed start makes one.
THEOREM VerdictsArePrinted == RunSpec => []VerdictWasPrinted
<1>1. VerdictInv /\ PrintedInv => VerdictWasPrinted
  BY DEF VerdictInv, ResultIsFirst, PrintedInv, VerdictWasPrinted, Verdicts
<1> QED
  BY <1>1, RunInvInit, RunInvStep, PrintedInvInit, PrintedInvStep, PTL DEF RunSpec

-----------------------------------------------------------------------------
(* What the judge is sent: files of its own. *)

\* What is typed.
Joints == {"first", "&&", ";", "|", "$("}
Tokens == {"$()", "$d", "%s", "--", "--command=x", "-W", "-c", "-e", "-m", "-n", "-v",
           "../a.py", "/etc", "/etc/a.py", "/tmp", "/tmp/a.py", "5", "a.py", "cat", "cd", "d", "echo",
           "manage.py", "mod", "node", "printf", "python", "run", "shell",
           "timeout", "uv"}
Redirects == {"", "<a.py", "<<", "<<<", ">a.py<<", ">data.py<<"}

\* Every command is begun as one of Beginnings; a cd gets no words but its target.
Typed == {c \in [joint : Joints, words : Seq(Tokens), redirect : Redirects] :
            /\ c.words # << >>
            /\ \E b \in Beginnings : IsPrefix(b, c.words)
            /\ c.words[1] = "cd" => c.words \in Changes}

LineInv == /\ world \in Worlds
           /\ line \in Seq(Typed) \ {<< >>}

\* What begins with a sequence begins with its first element.
LEMMA FirstOfPrefix ==
  ASSUME NEW S, NEW b \in Seq(S), NEW s \in Seq(S), b # << >>, IsPrefix(b, s)
  PROVE  s # << >> /\ s[1] = b[1]
<1>1. /\ Len(b) <= Len(s) /\ Len(b) >= 1
      /\ SubSeq(b, 1, Len(b)) = SubSeq(s, 1, Len(b))
  BY DEF IsPrefix
<1>2. SubSeq(b, 1, Len(b))[1] = b[1] /\ SubSeq(s, 1, Len(b))[1] = s[1]
  BY <1>1
<1> QED
  BY <1>1, <1>2

LEMMA PrefixGrows ==
  ASSUME NEW S, NEW b \in Seq(S), NEW s \in Seq(S), NEW w \in S, IsPrefix(b, s)
  PROVE  IsPrefix(b, Append(s, w))
<1>1. /\ Len(b) <= Len(s) /\ SubSeq(b, 1, Len(b)) = SubSeq(s, 1, Len(b))
  BY DEF IsPrefix
<1>2. SubSeq(Append(s, w), 1, Len(b)) = SubSeq(s, 1, Len(b))
  BY <1>1
<1>3. Len(Append(s, w)) = Len(s) + 1
  BY AppendProperties
<1> QED
  BY <1>1, <1>2, <1>3 DEF IsPrefix

LEMMA BeginningsAreWords == Beginnings \subseteq Seq(Tokens) \ {<< >>}
<1>0. {"python", "uv", "run", "--", "timeout", "5", "manage.py", "cd", "d", "/etc",
       "/tmp", "$d", "node", "echo", "printf", "cat"} \subseteq Tokens
  BY DEF Tokens
<1>1. \A x, y, z, w \in Tokens : /\ <<x>> \in Seq(Tokens) /\ <<x, y>> \in Seq(Tokens)
                                /\ <<x, y, z>> \in Seq(Tokens)
                                /\ <<x, y, z, w>> \in Seq(Tokens)
  OBVIOUS
<1>2. Pythons \subseteq Seq(Tokens) \ {<< >>}
  BY <1>0, <1>1 DEF Pythons
<1>3. Changes \subseteq Seq(Tokens) \ {<< >>}
  BY <1>0, <1>1 DEF Changes
<1>4. {<<"node">>, <<"echo">>, <<"printf">>, <<"cat">>} \subseteq Seq(Tokens) \ {<< >>}
  BY <1>0, <1>1
<1> QED
  BY <1>2, <1>3, <1>4 DEF Beginnings

LEMMA BeginningsAreTyped ==
  ASSUME NEW joint \in Joints, NEW b \in Beginnings
  PROVE  Command(joint, b) \in Typed
<1>1. b \in Seq(Tokens) \ {<< >>}
  BY BeginningsAreWords
<1>2. IsPrefix(b, b)
  BY <1>1 DEF IsPrefix
<1>3. b[1] = "cd" => b \in Changes
  BY DEF Beginnings, Pythons
<1> QED
  BY <1>1, <1>2, <1>3 DEF Command, Typed, Redirects

LEMMA ExtractInit ==
  ASSUME LineInit PROVE LineInv
<1>1. PICK b \in Beginnings : line = <<Command("first", b)>>
  BY DEF LineInit
<1> DEFINE c == Command("first", b)
<1>2. c \in Typed
  BY BeginningsAreTyped DEF Joints
<1>3. line = <<c>>
  BY <1>1
<1> HIDE DEF c
<1>4. line \in Seq(Typed) \ {<< >>}
  BY <1>2, <1>3
<1> QED
  BY <1>4 DEF LineInv, LineInit

LEMMA ExtractNext ==
  ASSUME LineInv, [LineNext]_lineVars
  PROVE  LineInv'
<1> USE DEF LineInv
<1>1. CASE UNCHANGED lineVars
  BY <1>1 DEF lineVars
<1>2. CASE LineNext
  <2>0. world' \in Worlds
    BY <1>2 DEF LineNext, Worlds
  <2>1. DOMAIN line = 1..Len(line) /\ Len(line) \in Nat \ {0} /\ Last(line) = line[Len(line)] /\ Last(line) \in Typed
    BY DEF Last
  <2>2. \A c \in Typed, w \in Tokens :
          c.words[1] # "cd" => [c EXCEPT !.words = Append(@, w)] \in Typed
    <3> SUFFICES ASSUME NEW c \in Typed, NEW w \in Tokens, c.words[1] # "cd"
                 PROVE  [c EXCEPT !.words = Append(@, w)] \in Typed
      OBVIOUS
    <3>1. c \in [joint : Joints, words : Seq(Tokens), redirect : Redirects] /\ c.words # << >>
      BY DEF Typed
    <3> DEFINE new == Append(c.words, w)
    <3>2. new \in Seq(Tokens) /\ new # << >> /\ new[1] = c.words[1]
      BY <3>1
    <3>3. \E b \in Beginnings : IsPrefix(b, new)
      <4>1. PICK b \in Beginnings : IsPrefix(b, c.words)
        BY DEF Typed
      <4>2. b \in Seq(Tokens)
        BY BeginningsAreWords
      <4> QED
        BY <3>1, <4>1, <4>2, PrefixGrows
    <3> HIDE DEF Tokens, Joints, Redirects
    <3>4. [c EXCEPT !.words = Append(@, w)] = [c EXCEPT !.words = new]
      BY <3>1
    <3> HIDE DEF new
    <3> QED
      BY <3>1, <3>2, <3>3, <3>4 DEF Typed
  <2>3. ASSUME NEW joint \in {"&&", ";", "|", "$("}, NEW b \in Beginnings,
               Begin(joint, b)
        PROVE  line' \in Seq(Typed) \ {<< >>}
    <3> DEFINE at == Before(Len(line) + 1)
               c == Command(joint, b)
               before == IF joint = "$("
                         THEN [line EXCEPT ![at].words = Append(@, "$()")] ELSE line
    <3>1. c \in Typed
      BY BeginningsAreTyped DEF Joints
    <3>2. before \in Seq(Typed)
      <4>1. CASE joint # "$("
        BY <4>1
      <4>2. CASE joint = "$("
        <5>1. Words(at)[1] = "echo"
          BY <2>3, <4>2 DEF Begin
        <5>2. at \in DOMAIN line => line[at] \in Typed /\ line[at].words[1] # "cd"
          <6>1. line[at].words[1] = "echo"
            BY <5>1, Zenon DEF Words
          <6> HIDE DEF at
          <6>2. at \in DOMAIN line => line[at] \in Typed
            BY <2>1, ElementOfSeq
          <6> QED
            BY <6>1, <6>2
        <5>3. "$()" \in Tokens
          BY DEF Tokens
        <5>4. before = [line EXCEPT ![at].words = Append(@, "$()")]
          BY <4>2
        <5> HIDE DEF at, before
        <5>5. at \in DOMAIN line => [line[at] EXCEPT !.words = Append(@, "$()")] \in Typed
          BY <2>2, <5>2, <5>3
        <5>6. CASE at \in DOMAIN line
          <6>1. before = [line EXCEPT ![at] = [line[at] EXCEPT !.words = Append(@, "$()")]]
            BY <5>4
          <6> QED
            BY <2>1, <5>5, <5>6, <6>1, ExceptSeq, ZenonT(30)
        <5>7. CASE at \notin DOMAIN line
          <6>0. line \in [1..Len(line) -> Typed]
            BY <2>1, LenProperties
          <6>1. line = [k \in DOMAIN line |-> line[k]]
            BY <6>0
          <6>2. before = [k \in DOMAIN line |-> IF k = at THEN before[k] ELSE line[k]]
            BY <5>4
          <6>3. before = line
            BY <5>7, <6>1, <6>2
          <6> QED
            BY <6>3
        <5> QED
          BY <5>6, <5>7
      <4> QED
        BY <4>1, <4>2
    <3>3. line' = Append(before, c)
      BY <2>3 DEF Begin
    <3> HIDE DEF before, c
    <3>4. Append(before, c) \in Seq(Typed) /\ Append(before, c) # << >>
      BY <3>1, <3>2, AppendProperties, ZenonT(30)
    <3> QED
      BY <3>3, <3>4, Zenon
  <2>4. ASSUME NEW w \in WordsFor(Last(line).words), Type(w)
        PROVE  line' \in Seq(Typed) \ {<< >>}
    <3>1. line' = [line EXCEPT ![Len(line)].words = Append(@, w)]
      BY <2>4 DEF Type
    <3>2. Last(line).words[1] # "cd" /\ w \in Tokens
      <4> DEFINE words == Last(line).words
      <4>1. words \in Seq(Tokens) \ {<< >>} /\ (words[1] = "cd" => words \in Changes)
        BY <2>1 DEF Typed
      <4>2. w \in WordsFor(words)
        BY <2>4
      <4> HIDE DEF words
      <4>3. PICK b \in Beginnings : IsPrefix(b, words)
        <5>1. \A c \in Typed : \E b \in Beginnings : IsPrefix(b, c.words)
          BY DEF Typed
        <5> QED
          BY <2>1, <5>1 DEF words
      <4>4. words[1] = b[1]
        BY <4>1, <4>3, BeginningsAreWords, FirstOfPrefix
      <4>5. CASE b \in Pythons
        <5>1. IsPython(words)
          BY <4>3, <4>5 DEF IsPython
        <5>2. words[1] \in {"python", "uv", "timeout"}
          BY <4>4, <4>5 DEF Pythons
        <5> QED
          BY <4>2, <5>1, <5>2 DEF WordsFor, Tokens
      <4>6. ASSUME IsPython(words)
            PROVE  words[1] \in {"python", "uv", "timeout"}
        <5>1. PICK p \in Pythons : IsPrefix(p, words)
          BY <4>6 DEF IsPython
        <5>2. p \in Beginnings
          BY DEF Beginnings
        <5>3. words[1] = p[1]
          BY <4>1, <5>1, <5>2, BeginningsAreWords, FirstOfPrefix
        <5> QED
          BY <5>3 DEF Pythons
      <4>7. CASE b \notin Pythons
        <5>1. words[1] \in {"node", "echo", "printf", "cat", "cd"}
          BY <4>4, <4>7 DEF Beginnings, Changes
        <5>2. ~IsPython(words)
          BY <4>6, <5>1
        <5> QED
          BY <4>2, <5>1, <5>2 DEF WordsFor, Tokens
      <4> QED
        BY <4>5, <4>7 DEF words
    <3>3. [line[Len(line)] EXCEPT !.words = Append(@, w)] \in Typed
      BY <2>1, <2>2, <3>2
    <3> QED
      BY <2>1, <3>1, <3>3
  <2>5. ASSUME NEW r \in RedirectsFor(Last(line).words), Redirect(r)
        PROVE  line' \in Seq(Typed) \ {<< >>}
    <3>1. r \in Redirects
      BY DEF RedirectsFor, Redirects
    <3>2. line' = [line EXCEPT ![Len(line)].redirect = r]
      BY <2>5 DEF Redirect
    <3>3. [line[Len(line)] EXCEPT !.redirect = r] \in Typed
      BY <2>1, <3>1 DEF Typed
    <3> QED
      BY <2>1, <3>2, <3>3
  <2> QED
    BY <1>2, <2>0, <2>3, <2>4, <2>5 DEF LineNext
<1> QED
  BY <1>1, <1>2

-----------------------------------------------------------------------------

Names == {"home", "repo", "srv", "d", "etc", "tmp", "a.py", "unknown"}

\* Code that is no file, or one that may be sent.
MayBeSent(code) ==
  code.kind = "file" =>
    \E root \in {world.cwd, Home, Temp} : IsPrefix(root, code.path)

\* A directory below which everything may be sent.
IsOwn(dir) == /\ dir \in Seq(Names)
              /\ dir = world.cwd \/ \E root \in {Home, Temp} : IsPrefix(root, dir)

\* Among numbers up to one there is a greatest, and a least.
LEMMA MostAndLeast ==
  ASSUME NEW n \in Nat, NEW T, T \subseteq 1..n, T # {}
  PROVE  Max(T) \in T /\ Min(T) \in T
<1>1. PICK i \in T : \A j \in T : j <= i
  BY GreatestNumber
<1>2. T \subseteq Nat
  OBVIOUS
<1>3. PICK l \in T : \A j \in T : l <= j
  BY <1>2, LeastNumber
<1>4. \A j \in T : i >= j /\ l =< j
  BY <1>1, <1>3
<1> QED
  BY <1>4 DEF Max, Min

LEMMA PrefixOfPrefix ==
  ASSUME NEW S, NEW a \in Seq(S), NEW b \in Seq(S), NEW c \in Seq(S),
         IsPrefix(a, b), IsPrefix(b, c)
  PROVE  IsPrefix(a, c)
<1>1. /\ Len(a) <= Len(b) /\ SubSeq(a, 1, Len(a)) = SubSeq(b, 1, Len(a))
      /\ Len(b) <= Len(c) /\ SubSeq(b, 1, Len(b)) = SubSeq(c, 1, Len(b))
  BY DEF IsPrefix
<1>2. \A i \in 1..Len(b) : b[i] = c[i]
  BY <1>1
<1>3. SubSeq(b, 1, Len(a)) = SubSeq(c, 1, Len(a))
  BY <1>1, <1>2
<1> QED
  BY <1>1, <1>3 DEF IsPrefix

\* What may be read below a directory of its own may be sent.
LEMMA ReadFilesMayBeSent ==
  ASSUME LineInv, NEW cwd, IsOwn(cwd), NEW word
  PROVE  MayBeSent(ReadSafeCodeFile(word, cwd))
<1> DEFINE path == PathOf(word, cwd)
           readable == IsFile(word) /\ \E root \in {cwd, Temp} : IsPrefix(root, path)
<1>1. CASE readable
  <2>1. ReadSafeCodeFile(word, cwd) = File(path)
    BY <1>1 DEF ReadSafeCodeFile
  <2>2. cwd \in Seq(Names) /\ Home \in Seq(Names) /\ Temp \in Seq(Names)
    BY DEF IsOwn, Home, Temp, Names
  <2>3. path \in Seq(Names)
    <3>0. "a.py" \in Names /\ "etc" \in Names
      BY DEF Names
    <3>1. /\ Append(cwd, "a.py") \in Seq(Names) /\ <<"etc", "a.py">> \in Seq(Names)
          /\ Append(Temp, "a.py") \in Seq(Names)
      BY <2>2, <3>0, AppendProperties
    <3>2. Front(cwd) \in Seq(Names)
      BY <2>2 DEF Front
    <3>3. Append(Front(cwd), "a.py") \in Seq(Names)
      BY <3>0, <3>2, AppendProperties
    <3>4. word \in {"a.py", "../a.py", "/etc/a.py", "/tmp/a.py"}
      BY <1>1 DEF IsFile
    <3> QED
      BY <3>1, <3>3, <3>4 DEF PathOf
  <2>4. ASSUME NEW root \in {world.cwd, Home, Temp}, IsPrefix(root, path)
        PROVE  MayBeSent(File(path))
    BY <2>4 DEF MayBeSent, File, Code
  <2>5. IsPrefix(cwd, path) \/ IsPrefix(Temp, path)
    BY <1>1
  <2> HIDE DEF path, readable
  <2>6. CASE IsPrefix(Temp, path)
    BY <2>1, <2>4, <2>6
  <2>7. CASE IsPrefix(cwd, path) /\ cwd = world.cwd
    BY <2>1, <2>4, <2>7
  <2>8. CASE IsPrefix(cwd, path) /\ \E root \in {Home, Temp} : IsPrefix(root, cwd)
    <3>1. PICK root \in {Home, Temp} : IsPrefix(root, cwd)
      BY <2>8
    <3>2. IsPrefix(root, path)
      BY <2>2, <2>3, <2>8, <3>1, PrefixOfPrefix
    <3> QED
      BY <2>1, <2>4, <3>2
  <2> QED
    BY <2>5, <2>6, <2>7, <2>8 DEF IsOwn
<1>2. CASE ~readable
  BY <1>2 DEF ReadSafeCodeFile, MayBeSent, None, Code
<1> QED
  BY <1>1, <1>2

\* The one of several that is taken is one of them.
LEMMA FirstMayBeSent ==
  ASSUME NEW codes, NEW n \in Nat, DOMAIN codes = 1..n,
         \A i \in 1..n : MayBeSent(codes[i])
  PROVE  MayBeSent(FirstOf(codes))
<1> DEFINE found == {i \in DOMAIN codes : codes[i] # None}
<1>1. CASE found = {}
  BY <1>1 DEF FirstOf, MayBeSent, None, Code
<1>2. CASE found # {}
  <2>1. found \subseteq 1..n
    OBVIOUS
  <2>2. FirstOf(codes) = codes[Min(found)]
    BY <1>2 DEF FirstOf
  <2> HIDE DEF found
  <2>3. Min(found) \in 1..n
    BY <1>2, <2>1, MostAndLeast
  <2> QED
    BY <2>2, <2>3
<1> QED
  BY <1>1, <1>2

\* Texts and bodies are no files.
LEMMA TextsMayBeSent ==
  /\ MayBeSent(None)
  /\ \A words : MayBeSent(Text(words))
  /\ \A k : MayBeSent(Body(k))
BY DEF MayBeSent, None, Text, Body, Code

LEMMA InlineMayBeSent ==
  ASSUME NEW words
  PROVE  MayBeSent(Inline(words))
<1> DEFINE w == UnwrapRunner(words)
           two == <<DjangoInline(w), InterpreterInline(w)>>
<1>1. MayBeSent(DjangoInline(w))
  <2> HIDE DEF w
  <2> QED
    BY TextsMayBeSent DEF DjangoInline
<1>2. MayBeSent(InterpreterInline(w))
  <2> HIDE DEF w
  <2> QED
    BY TextsMayBeSent DEF InterpreterInline
<1>3. Inline(words) = FirstOf(two)
  BY DEF Inline
<1>4. DOMAIN two = 1..2 /\ two[1] = DjangoInline(w) /\ two[2] = InterpreterInline(w)
  OBVIOUS
<1> HIDE DEF two
<1>5. \A i \in 1..2 : MayBeSent(two[i])
  BY <1>1, <1>2, <1>4
<1> QED
  BY <1>3, <1>4, <1>5, FirstMayBeSent

LEMMA HeredocsMayBeSent ==
  /\ MayBeSent(ExtractHeredoc)
  /\ \A path : MayBeSent(HeredocWrittenScript(path))
<1>1. MayBeSent(ExtractHeredoc)
  BY TextsMayBeSent DEF ExtractHeredoc
<1>2. \A path : MayBeSent(HeredocWrittenScript(path))
  BY TextsMayBeSent DEF HeredocWrittenScript
<1> QED
  BY <1>1, <1>2

LEMMA ModulesMayBeSent ==
  ASSUME LineInv, NEW cwd, IsOwn(cwd)
  PROVE  MayBeSent(ResolveModule(cwd))
<1> DEFINE code(i) == IF /\ ModuleCandidates[i] \in world.modules /\ cwd = world.cwd
                      THEN File(cwd \o ModuleCandidates[i])
                      ELSE None
           codes == [i \in DOMAIN ModuleCandidates |-> code(i)]
           T == Names \cup {"mod.py", "mod", "__main__.py", "src"}
<1>1. ResolveModule(cwd) = FirstOf(codes)
  BY DEF ResolveModule
<1>2. DOMAIN ModuleCandidates = 1..4
  BY DEF ModuleCandidates
<1>3. \A i \in 1..4 : ModuleCandidates[i] \in Seq(T)
  <2>0. {"mod.py", "mod", "__main__.py", "src"} \subseteq T
    OBVIOUS
  <2> HIDE DEF T
  <2>1. \A x, y, z \in T : /\ <<x>> \in Seq(T) /\ <<x, y>> \in Seq(T)
                          /\ <<x, y, z>> \in Seq(T)
    OBVIOUS
  <2>2. /\ <<"mod.py">> \in Seq(T) /\ <<"mod", "__main__.py">> \in Seq(T)
        /\ <<"src", "mod.py">> \in Seq(T) /\ <<"src", "mod", "__main__.py">> \in Seq(T)
    BY <2>0, <2>1
  <2>3. /\ ModuleCandidates[1] = <<"mod.py">>
        /\ ModuleCandidates[2] = <<"mod", "__main__.py">>
        /\ ModuleCandidates[3] = <<"src", "mod.py">>
        /\ ModuleCandidates[4] = <<"src", "mod", "__main__.py">>
    BY DEF ModuleCandidates
  <2>4. \A i \in 1..4 : i = 1 \/ i = 2 \/ i = 3 \/ i = 4
    OBVIOUS
  <2> QED
    BY <2>2, <2>3, <2>4
<1>4. cwd \in Seq(T)
  BY DEF IsOwn
<1>5. ASSUME NEW m \in Seq(T), cwd = world.cwd
      PROVE  MayBeSent(File(cwd \o m))
  <2> HIDE DEF T
  <2>1. /\ Len(cwd) \in Nat /\ Len(cwd) <= Len(cwd \o m)
        /\ SubSeq(cwd \o m, 1, Len(cwd)) = SubSeq(cwd, 1, Len(cwd))
    BY <1>4
  <2>2. IsPrefix(world.cwd, cwd \o m)
    BY <1>5, <2>1 DEF IsPrefix
  <2> QED
    BY <2>2 DEF MayBeSent, File, Code
<1>6. \A i \in 1..4 : MayBeSent(code(i))
  <2> HIDE DEF T
  <2> QED
    BY <1>3, <1>5, TextsMayBeSent
<1>7. DOMAIN codes = 1..4 /\ \A i \in 1..4 : codes[i] = code(i)
  BY <1>2
<1> HIDE DEF code, codes
<1>8. \A i \in 1..4 : MayBeSent(codes[i])
  BY <1>6, <1>7
<1> QED
  BY <1>1, <1>7, <1>8, FirstMayBeSent

LEMMA ScriptsMayBeSent ==
  ASSUME LineInv, NEW cwd, IsOwn(cwd), NEW words, NEW redirect
  PROVE  MayBeSent(ScriptCode(words, redirect, cwd))
<1> DEFINE script == ScriptPath(words)
           written == HeredocWrittenScript(script)
<1>1. MayBeSent(written) /\ MayBeSent(None)
  BY HeredocsMayBeSent, TextsMayBeSent
<1>2. \A word : MayBeSent(ReadSafeCodeFile(word, cwd))
  BY ReadFilesMayBeSent
<1>3. MayBeSent(ResolveModule(cwd))
  BY ModulesMayBeSent
<1> QED
  BY <1>1, <1>2, <1>3 DEF ScriptCode

\* What a command of a pipeline is fed.
LEMMA SourcesMayBeSent ==
  ASSUME LineInv, NEW cwd, IsOwn(cwd), NEW words, words[1] \in {"echo", "printf", "cat"}
  PROVE  MayBeSent(SourceOutput(words, cwd))
<1>1. MayBeSent(EchoOutput(words))
  BY TextsMayBeSent DEF EchoOutput
<1>2. MayBeSent(PrintfOutput(words))
  BY TextsMayBeSent DEF PrintfOutput
<1>3. \A word : MayBeSent(ReadSafeCodeFile(word, cwd))
  BY ReadFilesMayBeSent
<1> QED
  BY <1>1, <1>2, <1>3 DEF SourceOutput

LEMMA PipelinesMayBeSent ==
  ASSUME LineInv, NEW cwd, IsOwn(cwd), NEW consumers
  PROVE  MayBeSent(PipelineCode(consumers, cwd))
<1> DEFINE Starts == {k \in Levels : ~IsFed(k)}
           Stages(s) == {k \in Levels :
                           k >= s /\ \A i \in Levels : i \in (s + 1)..k => IsFed(i)}
           Fed(s) == {k \in Stages(s) :
                        /\ k \in consumers
                        /\ Words(Before(k))[1] \in {"echo", "printf", "cat"}}
           Of(s) == IF Fed(s) = {} THEN None
                    ELSE SourceOutput(Words(Before(Min(Fed(s)))), cwd)
           codes == [k \in Commands |-> IF k \in Starts THEN Of(k) ELSE None]
<1>1. PipelineCode(consumers, cwd) = FirstOf(codes)
  BY DEF PipelineCode
<1>2. Len(line) \in Nat /\ Commands = 1..Len(line)
  BY LenProperties DEF LineInv, Commands
<1>3. ASSUME NEW s PROVE MayBeSent(Of(s))
  <2>1. CASE Fed(s) = {}
    BY <2>1, TextsMayBeSent
  <2>2. CASE Fed(s) # {}
    <3> DEFINE fed == Fed(s)
    <3>1. fed \subseteq 1..Len(line)
      BY <1>2 DEF Levels
    <3>2. \A k \in fed : Words(Before(k))[1] \in {"echo", "printf", "cat"}
      OBVIOUS
    <3>3. Of(s) = SourceOutput(Words(Before(Min(fed))), cwd)
      BY <2>2
    <3>4. fed # {}
      BY <2>2
    <3> HIDE DEF fed, Of
    <3>5. Min(fed) \in fed
      BY <1>2, <3>1, <3>4, MostAndLeast
    <3> QED
      BY <3>2, <3>3, <3>5, SourcesMayBeSent
  <2> QED
    BY <2>1, <2>2
<1>4. DOMAIN codes = 1..Len(line)
  BY <1>2
<1>5. \A k \in 1..Len(line) : MayBeSent(codes[k])
  <2> SUFFICES ASSUME NEW k \in 1..Len(line) PROVE MayBeSent(codes[k])
    OBVIOUS
  <2>1. codes[k] = IF k \in Starts THEN Of(k) ELSE None
    BY <1>2
  <2> HIDE DEF Starts, Of, codes
  <2> QED
    BY <1>3, <2>1, TextsMayBeSent
<1> HIDE DEF codes
<1> QED
  BY <1>1, <1>2, <1>4, <1>5, FirstMayBeSent

\* Whichever command is visited first.
LEMMA VisitedMayBeSent ==
  ASSUME LineInv, NEW code, \A k \in Commands : MayBeSent(code[k])
  PROVE  MayBeSent(Visit(code))
<1> DEFINE found == {k \in Commands : code[k] # None}
           visited == {VisitedWith(k) : k \in found}
           first == Min(visited)
           final == {k \in found : VisitedWith(k) = first}
<1>1. CASE found = {}
  BY <1>1, TextsMayBeSent DEF Visit
<1>2. CASE found # {}
  <2>1. Len(line) \in Nat /\ Commands = 1..Len(line)
    BY LenProperties DEF LineInv, Commands
  <2>2. ASSUME NEW k \in 1..Len(line) PROVE VisitedWith(k) \in 1..Len(line)
    <3> DEFINE group == {j \in Commands :
                           j >= k /\ \A i \in (k + 1)..j : IsSubstitution(i)}
    <3>1. CASE IsSubstitution(k)
      BY <3>1 DEF VisitedWith
    <3>2. CASE ~IsSubstitution(k)
      <4>1. VisitedWith(k) = Max(group)
        BY <3>2 DEF VisitedWith
      <4>2. k \in group /\ group \subseteq 1..Len(line)
        BY <2>1
      <4> HIDE DEF group
      <4> QED
        BY <2>1, <4>1, <4>2, MostAndLeast
    <3> QED
      BY <3>1, <3>2
  <2>3. visited \subseteq 1..Len(line) /\ visited # {}
    BY <1>2, <2>1, <2>2
  <2>4. first \in visited
    <3> HIDE DEF visited
    <3> QED
      BY <2>1, <2>3, MostAndLeast
  <2>5. final # {} /\ final \subseteq 1..Len(line)
    <3> HIDE DEF first
    <3> QED
      BY <2>1, <2>4
  <2>6. Visit(code) = code[Max(final)]
    BY <1>2 DEF Visit
  <2> HIDE DEF final
  <2>7. Max(final) \in 1..Len(line)
    BY <2>1, <2>5, MostAndLeast
  <2> QED
    BY <2>1, <2>6, <2>7
<1> QED
  BY <1>1, <1>2

LEMMA ExtractedMayBeSent ==
  ASSUME LineInv, NEW cwd, IsOwn(cwd)
  PROVE  MayBeSent(ExtractCode(cwd))
<1> DEFINE unwrapped == [k \in Commands |-> UnwrapRunner(Words(k))]
           inlines == [k \in Commands |-> Inline(Words(k))]
           scripts == [k \in Commands |->
                         ScriptCode(unwrapped[k], line[k].redirect, cwd)]
           django == {k \in Commands :
                        IsFed(k) /\ ReadsDjangoStdin(unwrapped[k])}
           python == {k \in Commands :
                        IsFed(k) /\ ReadsPythonStdin(unwrapped[k])}
           codes == <<Visit(inlines), ExtractHeredoc,
                      PipelineCode(django, cwd), PipelineCode(python, cwd),
                      Visit(scripts)>>
<1>1. ExtractCode(cwd) = FirstOf(codes)
  BY DEF ExtractCode
<1>2. MayBeSent(Visit(inlines))
  <2>1. \A k \in Commands : MayBeSent(inlines[k])
    BY InlineMayBeSent
  <2> HIDE DEF inlines
  <2> QED
    BY <2>1, VisitedMayBeSent
<1>3. MayBeSent(Visit(scripts))
  <2> HIDE DEF unwrapped
  <2>1. \A k \in Commands : MayBeSent(scripts[k])
    BY ScriptsMayBeSent
  <2> HIDE DEF scripts
  <2> QED
    BY <2>1, VisitedMayBeSent
<1>4. MayBeSent(PipelineCode(django, cwd)) /\ MayBeSent(PipelineCode(python, cwd))
  <2> HIDE DEF django, python
  <2> QED
    BY PipelinesMayBeSent
<1> HIDE DEF inlines, scripts, django, python
<1>5. MayBeSent(ExtractHeredoc)
  BY HeredocsMayBeSent
<1>6. /\ DOMAIN codes = 1..5
      /\ codes[1] = Visit(inlines) /\ codes[2] = ExtractHeredoc
      /\ codes[3] = PipelineCode(django, cwd)
      /\ codes[4] = PipelineCode(python, cwd)
      /\ codes[5] = Visit(scripts)
  OBVIOUS
<1> HIDE DEF codes
<1>7. \A i \in 1..5 : i = 1 \/ i = 2 \/ i = 3 \/ i = 4 \/ i = 5
  OBVIOUS
<1>8. \A i \in 1..5 : MayBeSent(codes[i])
  BY <1>2, <1>3, <1>4, <1>5, <1>6, <1>7, Zenon
<1> QED
  BY <1>1, <1>6, <1>8, FirstMayBeSent

LEMMA InnerMayBeSent ==
  ASSUME LineInv, NEW cwd, IsOwn(cwd)
  PROVE  MayBeSent(InnerCode(cwd))
<1> DEFINE inner(k) == SubSeq(Words(k), 3, Len(Words(k)))
           three(k) == <<Inline(inner(k)), ExtractHeredoc,
                         ScriptCode(inner(k), line[k].redirect, cwd)>>
           codes == [k \in Commands |->
                       IF Words(k)[1] # "timeout" THEN None
                       ELSE FirstOf(three(k))]
<1>1. InnerCode(cwd) = FirstOf(codes)
  BY DEF InnerCode
<1>2. Len(line) \in Nat /\ Commands = 1..Len(line)
  BY LenProperties DEF LineInv, Commands
<1>3. ASSUME NEW k PROVE MayBeSent(FirstOf(three(k)))
  <2> HIDE DEF inner
  <2>1. /\ DOMAIN three(k) = 1..3
        /\ three(k)[1] = Inline(inner(k))
        /\ three(k)[2] = ExtractHeredoc
        /\ three(k)[3] = ScriptCode(inner(k), line[k].redirect, cwd)
    OBVIOUS
  <2>2. /\ MayBeSent(Inline(inner(k))) /\ MayBeSent(ExtractHeredoc)
        /\ MayBeSent(ScriptCode(inner(k), line[k].redirect, cwd))
    BY InlineMayBeSent, HeredocsMayBeSent, ScriptsMayBeSent
  <2>3. \A i \in 1..3 : i = 1 \/ i = 2 \/ i = 3
    OBVIOUS
  <2> HIDE DEF three
  <2>4. \A i \in 1..3 : MayBeSent(three(k)[i])
    BY <2>1, <2>2, <2>3, Zenon
  <2> QED
    BY <2>1, <2>4, FirstMayBeSent
<1>4. DOMAIN codes = 1..Len(line)
  BY <1>2
<1>5. \A k \in 1..Len(line) : MayBeSent(codes[k])
  <2> HIDE DEF three
  <2> QED
    BY <1>2, <1>3, TextsMayBeSent
<1> HIDE DEF codes
<1> QED
  BY <1>1, <1>2, <1>4, <1>5, FirstMayBeSent

\* The directory that is followed is the hook's own, or below the home directory.
LEMMA FollowedIsOwn ==
  ASSUME LineInv
  PROVE  IsOwn(EffectiveCwd)
<1>0. {"home", "repo", "srv", "d", "etc", "tmp", "unknown"} \subseteq Names
  BY DEF Names
<1>1. world.cwd \in Seq(Names)
  <2>1. <<"home", "repo">> \in Seq(Names) /\ <<"srv">> \in Seq(Names)
    BY <1>0
  <2>2. world.cwd = <<"home", "repo">> \/ world.cwd = <<"srv">>
    BY DEF LineInv, Worlds
  <2> QED
    BY <2>1, <2>2
<1> DEFINE target == Enter(world.cwd, Words(1)[2])
<1>2. ASSUME Words(1)[1] = "cd" PROVE target \in Seq(Names)
  <2>1. line[1] \in Typed
    <3>1. line \in Seq(Typed) /\ 1 \in 1..Len(line)
      BY DEF LineInv
    <3> QED
      BY <3>1, ElementOfSeq
  <2>2. Words(1) \in Changes
    BY <1>2, <2>1 DEF Words, Typed
  <2>3. Words(1)[2] \in {"d", "/etc", "/tmp", "$d"}
    BY <2>2 DEF Changes
  <2>4. Append(world.cwd, "d") \in Seq(Names) /\ <<"etc">> \in Seq(Names)
        /\ <<"tmp">> \in Seq(Names) /\ <<"unknown">> \in Seq(Names)
    BY <1>0, <1>1, AppendProperties
  <2> QED
    BY <2>3, <2>4 DEF Enter, Temp, Unknown
<1>3. \/ EffectiveCwd = world.cwd
      \/ /\ EffectiveCwd = target
         /\ Words(1)[1] = "cd"
         /\ \E root \in {Home, Temp} : IsPrefix(root, target)
  BY DEF EffectiveCwd, IsUnderSafeRoot
<1> HIDE DEF target
<1> QED
  BY <1>1, <1>2, <1>3 DEF IsOwn

LEMMA JudgedMayBeSent ==
  ASSUME LineInv PROVE OnlyOwnFilesAreSent
<1> DEFINE cwd == EffectiveCwd
           two == <<ExtractCode(cwd), InnerCode(cwd)>>
<1>1. MayBeSent(ExtractCode(cwd)) /\ MayBeSent(InnerCode(cwd))
  BY FollowedIsOwn, ExtractedMayBeSent, InnerMayBeSent
<1>2. Judged = FirstOf(two)
  BY DEF Judged
<1> HIDE DEF cwd
<1>3. DOMAIN two = 1..2 /\ two[1] = ExtractCode(cwd) /\ two[2] = InnerCode(cwd)
  OBVIOUS
<1> HIDE DEF two
<1>4. \A i \in 1..2 : MayBeSent(two[i])
  BY <1>1, <1>3
<1>5. MayBeSent(Judged)
  BY <1>2, <1>3, <1>4, FirstMayBeSent
<1> QED
  BY <1>5 DEF MayBeSent, OnlyOwnFilesAreSent

\* However long the line is, the judge is sent no file but those below the
\* hook's cwd, the home directory or a temporary one (read_safe_code_file).
THEOREM OwnFilesAreSent == LineSpec => []OnlyOwnFilesAreSent
<1>1. LineInit => LineInv
  BY ExtractInit
<1>2. LineInv /\ [LineNext]_lineVars => LineInv'
  BY ExtractNext
<1>3. LineInv => OnlyOwnFilesAreSent
  BY JudgedMayBeSent
<1> QED
  BY <1>1, <1>2, <1>3, PTL DEF LineSpec

\* A line has at most MaxTokens tokens, and each of its commands has words.
THEOREM LineType == LineSpec => []LineTypeOK
<1> DEFINE Count == tokens \in 1..(MaxTokens + 1)
<1>1. LineInit => LineInv /\ Count
  BY ExtractInit, TokensAssumption DEF LineInit
<1>2. LineInv /\ Count /\ [LineNext]_lineVars => (LineInv /\ Count)'
  <2>1. LineInv /\ [LineNext]_lineVars => LineInv'
    BY ExtractNext
  <2>2. Count /\ [LineNext]_lineVars => Count'
    <3>1. LineNext => tokens < MaxTokens /\ tokens' = tokens + 1
      BY DEF LineNext
    <3>2. UNCHANGED lineVars => tokens' = tokens
      BY DEF lineVars
    <3> QED
      BY <3>1, <3>2, TokensAssumption
  <2> QED
    BY <2>1, <2>2
<1>3. LineInv /\ Count => LineTypeOK
  <2> SUFFICES ASSUME LineInv, Count PROVE LineTypeOK
    OBVIOUS
  <2>1. ASSUME NEW k \in Commands
        PROVE  Words(k) # << >> /\ line[k].redirect \in Heredocs \cup {"", "<a.py", "<<<"}
    <3>1. line \in Seq(Typed)
      BY DEF LineInv
    <3>2. k \in 1..Len(line)
      BY <3>1, LenProperties DEF Commands
    <3>3. line[k] \in Typed
      BY <3>1, <3>2, ElementOfSeq
    <3> QED
      BY <3>3 DEF Typed, Words, Redirects, Heredocs
  <2> QED
    BY <2>1 DEF LineTypeOK, LineInv
<1> HIDE DEF Count
<1> QED
  BY <1>1, <1>2, <1>3, PTL DEF LineSpec

-----------------------------------------------------------------------------
(* The installed files. *)

FileContents == [from : SUBSET Versions, whole : BOOLEAN]
InitRuns == [pc : {"idle", "refused", "open", "write", "interrupted", "done"},
             force : BOOLEAN, at : 0..SettingsFile, held : BOOLEAN, alone : BOOLEAN]
Loads == [pc : {"idle", "embedded", "manifest", "includes", "loaded", "failed"},
          listed : 0..NumIncludes, got : Seq(FileContents), clean : BOOLEAN]
JudgeRuns == [pc : {"idle", "create", "fill", "rename", "ready", "unavailable", "killed"},
              tmp : {"absent", "unsafe", "safe"}, launches : 0..MaxLaunches,
              touched : BOOLEAN, read : Settings \cup {"none"}]

FileTypes == file \in [RulesFiles -> FileContents]
InitTypes == init \in [Inits -> InitRuns] /\ last \in Versions
LoadTypes == hook \in [Hooks -> Loads]
JudgeTypes == settings \in Settings /\ judge \in [Judges -> JudgeRuns]

InstallTypeInv == FileTypes /\ InitTypes /\ LoadTypes /\ JudgeTypes

-----------------------------------------------------------------------------
LEMMA InstallTypeInit == InstallInit => InstallTypeInv
<1> SUFFICES ASSUME InstallInit PROVE InstallTypeInv
  OBVIOUS
<1> USE InstallationAssumption DEF InstallInit, Manifest, RulesFiles, SettingsFile, Versions
<1>1. FileTypes
  BY DEF FileTypes, FileContents, Whole, Absent
<1>2. InitTypes
  BY DEF InitTypes, InitRuns
<1>3. LoadTypes
  <2>1. << >> \in Seq(FileContents)
    OBVIOUS
  <2> QED
    BY <2>1 DEF LoadTypes, Loads
<1>4. JudgeTypes
  BY DEF JudgeTypes, JudgeRuns, Settings
<1> QED
  BY <1>1, <1>2, <1>3, <1>4 DEF InstallTypeInv

LEMMA DisturbedTypes == LoadTypes => Disturbed \in [Hooks -> Loads]
<1> SUFFICES ASSUME LoadTypes, NEW h \in Hooks
             PROVE  [hook[h] EXCEPT !.clean = @ /\ ~Loading(h)] \in Loads
  BY DEF Disturbed
<1> DEFINE clean == hook[h].clean /\ ~Loading(h)
<1>1. clean \in BOOLEAN
  OBVIOUS
<1>2. hook[h] \in Loads
  BY DEF LoadTypes
<1> HIDE DEF clean
<1>3. [hook[h] EXCEPT !.clean = clean] \in Loads
  BY <1>1, <1>2 DEF Loads
<1> QED
  BY <1>3 DEF clean

LEMMA InstallTypeStep == InstallTypeInv /\ [InstallNext]_installVars => InstallTypeInv'
<1> SUFFICES ASSUME InstallTypeInv, [InstallNext]_installVars PROVE InstallTypeInv'
  OBVIOUS
<1> USE InstallationAssumption
<1>0. FileTypes /\ InitTypes /\ LoadTypes /\ JudgeTypes
  BY DEF InstallTypeInv
<1>a. UNCHANGED file => FileTypes'
  BY <1>0 DEF FileTypes
<1>b. UNCHANGED <<init, last>> => InitTypes'
  BY <1>0 DEF InitTypes
<1>c. UNCHANGED hook \/ hook' = Disturbed => LoadTypes'
  BY <1>0, DisturbedTypes DEF LoadTypes
<1>d. UNCHANGED <<settings, judge>> => JudgeTypes'
  BY <1>0 DEF JudgeTypes
<1>1. ASSUME NEW i \in Inits, NEW force \in BOOLEAN, BeginInit(i, force)
      PROVE  InitTypes'
  <2>1. CASE init' = [init EXCEPT ![i].pc = "refused"] /\ UNCHANGED last
    BY <1>0, <2>1 DEF InitTypes, InitRuns
  <2>2. CASE /\ init' = [k \in Inits |->
                  CASE k = i -> [init[i] EXCEPT !.pc = "open", !.force = force,
                                                !.alone = ~\E m \in Inits : Writing(m)]
                    [] k # i -> [init[k] EXCEPT !.alone = @ /\ ~Writing(k)]]
             /\ last' = i
    <3> DEFINE none == ~\E m \in Inits : Writing(m)
               apart(k) == init[k].alone /\ ~Writing(k)
    <3>1. none \in BOOLEAN /\ \A k \in Inits : apart(k) \in BOOLEAN
      OBVIOUS
    <3>2. \A k \in Inits : init'[k] =
            IF k = i THEN [init[i] EXCEPT !.pc = "open", !.force = force, !.alone = none]
            ELSE [init[k] EXCEPT !.alone = apart(k)]
      BY <2>2
    <3>3. init' = [k \in Inits |-> init'[k]]
      BY <2>2
    <3> HIDE DEF none, apart
    <3>4. ASSUME NEW k \in Inits PROVE init'[k] \in InitRuns
      <4>1. init[k] \in InitRuns
        BY <1>0 DEF InitTypes
      <4>2. CASE k = i
        BY <3>1, <3>2, <4>1, <4>2 DEF InitRuns
      <4>3. CASE k # i
        BY <3>1, <3>2, <4>1, <4>3 DEF InitRuns
      <4> QED
        BY <4>2, <4>3
    <3> QED
      BY <2>2, <3>3, <3>4 DEF InitTypes, Versions
  <2> QED
    BY <1>1, <2>1, <2>2 DEF BeginInit
<1>2. ASSUME NEW i \in Inits, OpenRules(i) PROVE InstallTypeInv'
  <2>1. Empty \in FileContents
    BY DEF Empty, FileContents
  <2>2. FileTypes'
    BY <1>0, <1>2, <2>1 DEF OpenRules, FileTypes
  <2>3. InitTypes'
    BY <1>0, <1>2 DEF OpenRules, InitTypes, InitRuns
  <2> QED
    BY <1>2, <1>c, <1>d, <2>2, <2>3 DEF OpenRules, InstallTypeInv
<1>3. ASSUME NEW i \in Inits, WriteRules(i) PROVE InstallTypeInv'
  <2>1. init[i].at \in RulesFiles /\ init[i].at + 1 \in 0..SettingsFile
    BY <1>3 DEF WriteRules, RulesFiles, SettingsFile
  <2>2. file[init[i].at] \in FileContents /\ {i} \in SUBSET Versions
    BY <1>0, <2>1 DEF FileTypes, Versions
  <2>3. FileTypes'
    <3>1. ASSUME NEW c, file' = [file EXCEPT ![init[i].at] = c], c \in FileContents
          PROVE  FileTypes'
      BY <1>0, <3>1 DEF FileTypes
    <3>2. Whole(i) \in FileContents
      BY <2>2 DEF Whole, FileContents
    <3>3. [file[init[i].at] EXCEPT !.from = {i}] \in FileContents
      BY <2>2 DEF FileContents
    <3>4. [from |-> file[init[i].at].from \cup {i}, whole |-> FALSE] \in FileContents
      BY <2>2 DEF FileContents
    <3> QED
      BY <1>3, <3>1, <3>2, <3>3, <3>4 DEF WriteRules
  <2>4. InitTypes'
    BY <1>0, <1>3, <2>1 DEF WriteRules, InitTypes, InitRuns
  <2> QED
    BY <1>3, <1>c, <1>d, <2>3, <2>4 DEF WriteRules, InstallTypeInv
<1>4. ASSUME NEW i \in Inits, OpenSettings(i) PROVE InstallTypeInv'
  <2>1. InitTypes'
    BY <1>0, <1>4 DEF OpenSettings, InitTypes, InitRuns
  <2>2. JudgeTypes'
    <3>1. [j \in Judges |-> [judge[j] EXCEPT !.touched = TRUE]] \in [Judges -> JudgeRuns]
      BY <1>0 DEF JudgeTypes, JudgeRuns
    <3>2. "unsafe" \in Settings
      BY DEF Settings
    <3> QED
      BY <1>0, <1>4, <3>1, <3>2 DEF OpenSettings, JudgeTypes
  <2> QED
    BY <1>4, <1>a, <1>c, <2>1, <2>2 DEF OpenSettings, InstallTypeInv
<1>5. ASSUME NEW i \in Inits, WriteSettings(i) \/ InterruptInit(i) PROVE InstallTypeInv'
  <2>1. InitTypes'
    BY <1>0, <1>5 DEF WriteSettings, InterruptInit, InitTypes, InitRuns
  <2>2. JudgeTypes'
    BY <1>0, <1>5 DEF WriteSettings, InterruptInit, JudgeTypes, Settings
  <2> QED
    BY <1>5, <1>a, <1>c, <2>1, <2>2 DEF WriteSettings, InterruptInit, InstallTypeInv
<1>6. ASSUME NEW h \in Hooks, BeginLoad(h) \/ ReadManifest(h) \/ EndLoad(h)
      PROVE  InstallTypeInv'
  <2>1. ASSUME BeginLoad(h) PROVE LoadTypes'
    <3> DEFINE clean == \A f \in RulesFiles : file[f].whole
    <3>1. clean \in BOOLEAN
      OBVIOUS
    <3>2. PICK where \in {"embedded", "manifest"} :
            hook' = [hook EXCEPT ![h].pc = where, ![h].clean = clean]
      BY <2>1 DEF BeginLoad
    <3> HIDE DEF clean
    <3>3. hook[h] \in Loads
      BY <1>0 DEF LoadTypes
    <3>4. [hook[h] EXCEPT !.pc = where, !.clean = clean] \in Loads
      BY <3>1, <3>3 DEF Loads
    <3>5. hook' = [hook EXCEPT ![h] = [hook[h] EXCEPT !.pc = where, !.clean = clean]]
      BY <1>0, <3>2 DEF LoadTypes
    <3> QED
      BY <1>0, <3>4, <3>5 DEF LoadTypes
  <2>2. ASSUME ReadManifest(h) PROVE LoadTypes'
    <3>1. CASE hook' = [hook EXCEPT ![h].pc = "failed"]
      BY <1>0, <3>1 DEF LoadTypes, Loads
    <3>2. ASSUME NEW n \in 0..NumIncludes,
                 hook' = [hook EXCEPT ![h].pc = "includes", ![h].listed = n]
          PROVE  LoadTypes'
      BY <1>0, <3>2 DEF LoadTypes, Loads
    <3> QED
      BY <2>2, <3>1, <3>2 DEF ReadManifest
  <2>3. ASSUME EndLoad(h) PROVE LoadTypes'
    BY <1>0, <2>3 DEF EndLoad, LoadTypes, Loads
  <2>4. LoadTypes'
    BY <1>6, <2>1, <2>2, <2>3
  <2> QED
    BY <1>6, <1>a, <1>b, <1>d, <2>4 DEF BeginLoad, ReadManifest, EndLoad, InstallTypeInv
<1>7. ASSUME NEW h \in Hooks, ReadInclude(h) PROVE InstallTypeInv'
  <2>1. hook[h] \in Loads
    BY <1>0 DEF LoadTypes
  <2>2. NextInclude(h) \in RulesFiles
    BY <1>7, <2>1 DEF ReadInclude, NextInclude, RulesFiles, Loads
  <2>3. Append(hook[h].got, file[NextInclude(h)]) \in Seq(FileContents)
    BY <1>0, <2>1, <2>2 DEF Loads, FileTypes
  <2>4. LoadTypes'
    BY <1>0, <1>7, <2>3 DEF ReadInclude, LoadTypes, Loads
  <2> QED
    BY <1>7, <1>a, <1>b, <1>d, <2>4 DEF ReadInclude, InstallTypeInv
<1>8. ASSUME NEW j \in Judges,
             \/ CheckSettings(j) \/ CreateTemp(j) \/ FillTemp(j) \/ GiveUpSettings(j)
             \/ KillJudge(j)
      PROVE  InstallTypeInv'
  <2>1. JudgeTypes'
    BY <1>0, <1>8 DEF CheckSettings, CreateTemp, FillTemp, GiveUpSettings, KillJudge,
                      JudgeTypes, JudgeRuns
  <2> QED
    BY <1>8, <1>a, <1>b, <1>c, <2>1 DEF CheckSettings, CreateTemp, FillTemp,
                                        GiveUpSettings, KillJudge, InstallTypeInv
<1>9. ASSUME NEW j \in Judges, Rename(j) PROVE InstallTypeInv'
  <2>1. InitTypes'
    <3>1. init \in [Inits -> InitRuns] /\ last \in Versions
      BY <1>0 DEF InitTypes
    <3>2. init' = [i \in Inits |-> [init[i] EXCEPT !.held = FALSE]] /\ last' = last
      BY <1>9 DEF Rename
    <3>3. ASSUME NEW i \in Inits PROVE [init[i] EXCEPT !.held = FALSE] \in InitRuns
      <4> DEFINE Pcs == {"idle", "refused", "open", "write", "interrupted", "done"}
                 Places == 0..SettingsFile
      <4>1. InitRuns = [pc : Pcs, force : BOOLEAN, at : Places, held : BOOLEAN, alone : BOOLEAN]
        BY DEF InitRuns
      <4> HIDE DEF Pcs, Places
      <4>2. init[i] \in InitRuns
        BY <3>1
      <4> QED
        BY <4>1, <4>2
    <3> QED
      BY <3>1, <3>2, <3>3 DEF InitTypes
  <2>2. JudgeTypes'
    <3>1. judge \in [Judges -> JudgeRuns]
      BY <1>0 DEF JudgeTypes
    <3>2. judge[j] \in JudgeRuns
      BY <3>1
    <3>3. [judge[j] EXCEPT !.pc = "ready", !.tmp = "absent", !.touched = FALSE] \in JudgeRuns
      <4> DEFINE Pcs == {"idle", "create", "fill", "rename", "ready", "unavailable", "killed"}
                 Temps == {"absent", "unsafe", "safe"}
                 Counts == 0..MaxLaunches
                 Found == Settings \cup {"none"}
      <4>1. JudgeRuns = [pc : Pcs, tmp : Temps, launches : Counts, touched : BOOLEAN, read : Found]
        BY DEF JudgeRuns
      <4>2. "ready" \in Pcs /\ "absent" \in Temps
        OBVIOUS
      <4> HIDE DEF Pcs, Temps, Counts, Found
      <4> QED
        BY <3>2, <4>1, <4>2
    <3>4. judge' = [judge EXCEPT ![j].pc = "ready", ![j].tmp = "absent", ![j].touched = FALSE]
          /\ settings' = judge[j].tmp
      BY <1>9 DEF Rename
    <3>5. judge' = [judge EXCEPT ![j] =
                      [judge[j] EXCEPT !.pc = "ready", !.tmp = "absent", !.touched = FALSE]]
      BY <3>1, <3>4
    <3>6. judge' \in [Judges -> JudgeRuns]
      BY <3>1, <3>3, <3>5
    <3>7. settings' \in Settings
      BY <3>2, <3>4 DEF JudgeRuns, Settings
    <3> QED
      BY <3>6, <3>7 DEF JudgeTypes
  <2> QED
    BY <1>9, <1>a, <1>c, <2>1, <2>2 DEF Rename, InstallTypeInv
<1>10. ASSUME NEW j \in Judges, LaunchClaude(j) PROVE InstallTypeInv'
  <2>1. judge[j] \in JudgeRuns /\ settings \in Settings
    BY <1>0 DEF JudgeTypes
  <2>2. judge[j].launches + 1 \in 0..MaxLaunches
    BY <1>10, <2>1 DEF LaunchClaude, JudgeRuns
  <2>3. JudgeTypes'
    <3> DEFINE read == IF judge[j].pc = "ready" THEN settings ELSE "none"
    <3>1. read \in Settings \cup {"none"}
      BY <2>1
    <3>2. judge' = [judge EXCEPT ![j].launches = @ + 1, ![j].read = read]
      BY <1>10 DEF LaunchClaude
    <3> HIDE DEF read
    <3> QED
      <4>1. [judge[j] EXCEPT !.launches = @ + 1, !.read = read] \in JudgeRuns
        BY <2>1, <2>2, <3>1 DEF JudgeRuns
      <4>2. settings' = settings
        BY <1>10 DEF LaunchClaude
      <4> QED
        BY <1>0, <3>2, <4>1, <4>2 DEF JudgeTypes
  <2> QED
    BY <1>10, <1>a, <1>b, <1>c, <2>3 DEF LaunchClaude, InstallTypeInv
<1>11. ASSUME NEW content \in Settings, EditSettings(content) PROVE InstallTypeInv'
  <2>1. InitTypes'
    BY <1>0, <1>11 DEF EditSettings, InitTypes, InitRuns
  <2>2. JudgeTypes'
    BY <1>0, <1>11 DEF EditSettings, JudgeTypes, JudgeRuns
  <2> QED
    BY <1>11, <1>a, <1>c, <2>1, <2>2 DEF EditSettings, InstallTypeInv
<1>12. CASE UNCHANGED installVars
  BY <1>12, <1>a, <1>b, <1>c, <1>d DEF installVars, InstallTypeInv
<1>13. ASSUME NEW i \in Inits, NEW force \in BOOLEAN, BeginInit(i, force) PROVE InstallTypeInv'
  BY <1>1, <1>13, <1>a, <1>c, <1>d DEF BeginInit, InstallTypeInv
<1> QED
  BY <1>2, <1>3, <1>4, <1>5, <1>6, <1>7, <1>8, <1>9, <1>10, <1>11, <1>12, <1>13 DEF InstallNext
-----------------------------------------------------------------------------
(* The judge's settings.                                                   *)

\* What a judge has checked or made stays good until somebody touches it.
Settled(j) ==
  /\ judge[j].pc \notin {"ready", "unavailable", "killed"} => judge[j].read = "none"
  /\ judge[j].pc = "rename" => judge[j].tmp = "safe"
  /\ judge[j].pc = "ready" => judge[j].touched \/ settings = "safe"
  /\ judge[j].read = "none" \/ judge[j].touched \/ judge[j].read = "safe"
SettingsInv == \A j \in Judges : Settled(j)

LEMMA SettingsInvInit == InstallInit => SettingsInv
BY DEF InstallInit, SettingsInv, Settled

LEMMA SettingsInvStep == InstallTypeInv /\ SettingsInv /\ [InstallNext]_installVars => SettingsInv'
<1> SUFFICES ASSUME InstallTypeInv, SettingsInv, [InstallNext]_installVars, NEW k \in Judges PROVE Settled(k)'
  BY DEF SettingsInv
<1>1. judge \in [Judges -> JudgeRuns] /\ judge[k] \in JudgeRuns
  BY DEF InstallTypeInv, JudgeTypes
<1>2. Settled(k)
  BY DEF SettingsInv
<1>3. UNCHANGED <<settings, judge>> => Settled(k)'
  BY <1>2 DEF Settled
<1>4. ASSUME NEW i \in Inits, OpenSettings(i) PROVE Settled(k)'
  BY <1>1, <1>2, <1>4 DEF OpenSettings, Settled, JudgeRuns
<1>5. ASSUME NEW i \in Inits, WriteSettings(i) PROVE Settled(k)'
  BY <1>2, <1>5 DEF WriteSettings, Settled
<1>6. ASSUME NEW j \in Judges, CheckSettings(j) PROVE Settled(k)'
  BY <1>1, <1>2, <1>6 DEF CheckSettings, Settled, JudgeRuns, ContentIsSafe
<1>7. ASSUME NEW j \in Judges,
             CreateTemp(j) \/ FillTemp(j) \/ GiveUpSettings(j) \/ KillJudge(j)
      PROVE  Settled(k)'
  BY <1>1, <1>2, <1>7 DEF CreateTemp, FillTemp, GiveUpSettings, KillJudge, Settled,
                          JudgeRuns
<1>8. ASSUME NEW j \in Judges, Rename(j) PROVE Settled(k)'
  <2>1. Settled(j)
    BY DEF SettingsInv
  <2> QED
    BY <1>1, <1>2, <1>8, <2>1 DEF Rename, Settled, JudgeRuns
<1>9. ASSUME NEW j \in Judges, LaunchClaude(j) PROVE Settled(k)'
  BY <1>1, <1>2, <1>9 DEF LaunchClaude, Settled, JudgeRuns
<1>10. ASSUME NEW content \in Settings, EditSettings(content) PROVE Settled(k)'
  BY <1>1, <1>2, <1>10 DEF EditSettings, Settled, JudgeRuns
<1>11. CASE UNCHANGED installVars
  BY <1>3, <1>11 DEF installVars
<1>12. ASSUME NEW i \in Inits,
              \/ \E force \in BOOLEAN : BeginInit(i, force)
              \/ OpenRules(i) \/ WriteRules(i) \/ InterruptInit(i)
       PROVE  Settled(k)'
  BY <1>3, <1>12 DEF BeginInit, OpenRules, WriteRules, InterruptInit
<1>13. ASSUME NEW h \in Hooks,
              BeginLoad(h) \/ ReadManifest(h) \/ ReadInclude(h) \/ EndLoad(h)
       PROVE  Settled(k)'
  BY <1>3, <1>13 DEF BeginLoad, ReadManifest, ReadInclude, EndLoad
<1> QED
  BY <1>4, <1>5, <1>6, <1>7, <1>8, <1>9, <1>10, <1>11, <1>12, <1>13 DEF InstallNext

\* Claude is given no settings file but one that the judge has found to be good or
\* has put there, unless it was touched afterwards (ensure_settings_file).
THEOREM SettingsStaySafe == InstallSpec => []SettingsAreSafe
<1>1. InstallTypeInv /\ SettingsInv => SettingsAreSafe
  BY DEF SettingsInv, Settled, SettingsAreSafe, ContentIsSafe
<1> QED
  BY <1>1, InstallTypeInit, InstallTypeStep, SettingsInvInit, SettingsInvStep, PTL DEF InstallSpec

-----------------------------------------------------------------------------
(* The hooks' loads.                                                       *)

\* What a hook that no init has disturbed has read so far.
LoadIsClean(h) ==
  /\ hook[h].pc \in {"idle", "manifest"} => hook[h].got = << >>
  /\ Loading(h) => \A f \in RulesFiles : file[f].whole
  /\ hook[h].pc \in {"includes", "loaded"} =>
       /\ hook[h].listed = NumIncludes
       /\ Len(hook[h].got) <= NumIncludes
       /\ \A n \in 1..Len(hook[h].got) : hook[h].got[n].whole /\ hook[h].got[n] # Absent
  /\ hook[h].pc = "loaded" => Len(hook[h].got) = NumIncludes
LoadKept(h) == IF hook[h].clean THEN LoadIsClean(h) ELSE hook[h].pc # "idle"
LoadInv == \A h \in Hooks : LoadKept(h)

LEMMA LoadInvInit == InstallInit => LoadInv
BY DEF InstallInit, LoadInv, LoadKept, LoadIsClean, Loading

LEMMA LoadInvStep == InstallTypeInv /\ LoadInv /\ [InstallNext]_installVars => LoadInv'
<1> SUFFICES ASSUME InstallTypeInv, LoadInv, [InstallNext]_installVars, NEW k \in Hooks PROVE LoadKept(k)'
  BY DEF LoadInv
<1> USE InstallationAssumption
<1>1. /\ hook \in [Hooks -> Loads] /\ hook[k] \in Loads
      /\ Len(hook[k].got) \in Nat
  BY DEF InstallTypeInv, LoadTypes, Loads
<1>2. LoadKept(k)
  BY DEF LoadInv
<1>3. UNCHANGED <<file, hook>> => LoadKept(k)'
  BY <1>2 DEF LoadKept, LoadIsClean, Loading
<1>4. ASSUME NEW i \in Inits, OpenRules(i) \/ WriteRules(i) PROVE LoadKept(k)'
  <2>1. hook'[k] = [hook[k] EXCEPT !.clean = @ /\ ~Loading(k)]
    BY <1>4 DEF OpenRules, WriteRules, Disturbed
  <2>2. hook'[k].clean <=> hook[k].clean /\ ~Loading(k)
    BY <1>1, <2>1 DEF Loads
  <2>3. /\ hook'[k].pc = hook[k].pc /\ hook'[k].got = hook[k].got
        /\ hook'[k].listed = hook[k].listed
    BY <1>1, <2>1 DEF Loads
  <2> QED
    BY <1>2, <2>2, <2>3 DEF LoadKept, LoadIsClean, Loading
<1>5. ASSUME NEW h \in Hooks,
             BeginLoad(h) \/ ReadManifest(h) \/ ReadInclude(h) \/ EndLoad(h)
      PROVE  LoadKept(k)'
  <2>1. UNCHANGED file
    BY <1>5 DEF BeginLoad, ReadManifest, ReadInclude, EndLoad
  <2>2. CASE h # k
    <3>1. hook'[k] = hook[k]
      BY <1>1, <1>5, <2>2 DEF BeginLoad, ReadManifest, ReadInclude, EndLoad
    <3> QED
      BY <1>2, <2>1, <3>1 DEF LoadKept, LoadIsClean, Loading
  <2>3. ASSUME h = k, BeginLoad(k) PROVE LoadKept(k)'
    <3> DEFINE clean == \A f \in RulesFiles : file[f].whole
    <3>1. PICK where \in {"embedded", "manifest"} :
            hook' = [hook EXCEPT ![k].pc = where, ![k].clean = clean]
      BY <2>3 DEF BeginLoad
    <3>2. hook[k].pc = "idle"
      BY <2>3 DEF BeginLoad
    <3> HIDE DEF clean
    <3>3. /\ hook'[k].pc = where /\ hook'[k].got = hook[k].got
          /\ hook'[k].clean = clean
      BY <1>1, <3>1 DEF Loads
    <3>4. clean => \A f \in RulesFiles : file'[f].whole
      BY <2>1 DEF clean
    <3> QED
      BY <1>2, <3>2, <3>3, <3>4 DEF LoadKept, LoadIsClean, Loading
  <2>4. ASSUME h = k, ReadManifest(k) PROVE LoadKept(k)'
    <3>1. hook'[k].clean = hook[k].clean /\ hook'[k].got = hook[k].got
      BY <1>1, <2>4 DEF ReadManifest, Loads
    <3>2. hook[k].pc = "manifest"
      BY <2>4 DEF ReadManifest
    <3>3. CASE hook'[k].pc = "failed"
      BY <1>2, <3>1, <3>2, <3>3 DEF LoadKept, LoadIsClean, Loading
    <3>4. ASSUME NEW n \in 0..NumIncludes,
                 IF Torn(Manifest) THEN file[Manifest] # Empty ELSE n = NumIncludes,
                 hook' = [hook EXCEPT ![k].pc = "includes", ![k].listed = n]
          PROVE  LoadKept(k)'
      <4>1. hook'[k].pc = "includes" /\ hook'[k].listed = n
        BY <1>1, <3>4 DEF Loads
      <4>2. hook[k].clean => n = NumIncludes
        <5>1. Manifest \in RulesFiles
          BY DEF Manifest, RulesFiles
        <5> QED
          BY <1>2, <3>2, <3>4, <5>1 DEF LoadKept, LoadIsClean, Loading, Torn
      <4>3. hook[k].clean => hook[k].got = << >>
        BY <1>2, <3>2 DEF LoadKept, LoadIsClean
      <4> QED
        BY <1>2, <2>1, <3>1, <3>2, <4>1, <4>2, <4>3 DEF LoadKept, LoadIsClean, Loading
    <3>5. hook' = [hook EXCEPT ![k].pc = "failed"] => hook'[k].pc = "failed"
      BY <1>1 DEF Loads
    <3> QED
      BY <2>4, <3>3, <3>4, <3>5 DEF ReadManifest
  <2>5. ASSUME h = k, ReadInclude(k) PROVE LoadKept(k)'
    <3> DEFINE f == NextInclude(k)
    <3>1. hook[k].pc = "includes" /\ f \in 1..NumIncludes /\ f \in RulesFiles
          /\ f <= hook[k].listed /\ f = Len(hook[k].got) + 1
      BY <1>1, <2>5 DEF ReadInclude, NextInclude, RulesFiles, Loads
    <3>2. CASE hook' = [hook EXCEPT ![k].pc = "failed"]
      <4>1. hook'[k].pc = "failed" /\ hook'[k].clean = hook[k].clean
        BY <1>1, <3>2 DEF Loads
      <4> QED
        BY <4>1 DEF LoadKept, LoadIsClean, Loading
    <3>3. CASE file[f] # Absent /\ hook' = [hook EXCEPT ![k].got = Append(@, file[f])]
      <4>1. /\ hook'[k].pc = hook[k].pc /\ hook'[k].clean = hook[k].clean
            /\ hook'[k].listed = hook[k].listed
            /\ hook'[k].got = Append(hook[k].got, file[f])
        BY <1>1, <3>3 DEF Loads
      <4>2. hook[k].got \in Seq(FileContents) /\ file[f] \in FileContents
        BY <1>1, <3>1 DEF Loads, InstallTypeInv, FileTypes
      <4>3. /\ Len(hook'[k].got) = f
            /\ \A n \in 1..Len(hook[k].got) : hook'[k].got[n] = hook[k].got[n]
            /\ hook'[k].got[f] = file[f]
        BY <3>1, <4>1, <4>2
      <4>4. CASE hook[k].clean
        <5>1. \A n \in 1..f : hook'[k].got[n].whole /\ hook'[k].got[n] # Absent
          BY <1>1, <1>2, <3>1, <3>3, <4>3, <4>4 DEF LoadKept, LoadIsClean, Loading
        <5>2. hook[k].listed = NumIncludes
          BY <1>2, <3>1, <4>4 DEF LoadKept, LoadIsClean
        <5>3. \A g \in RulesFiles : file'[g].whole
          BY <1>2, <2>1, <3>1, <4>4 DEF LoadKept, LoadIsClean, Loading
        <5> QED
          BY <3>1, <4>1, <4>3, <5>1, <5>2, <5>3 DEF LoadKept, LoadIsClean, Loading
      <4>5. CASE ~hook[k].clean
        BY <3>1, <4>1, <4>5 DEF LoadKept
      <4> QED
        BY <4>4, <4>5
    <3> QED
      BY <2>5, <3>2, <3>3 DEF ReadInclude
  <2>6. ASSUME h = k, EndLoad(k) PROVE LoadKept(k)'
    <3>1. /\ hook'[k].pc = "loaded" /\ hook'[k].clean = hook[k].clean
          /\ hook'[k].got = hook[k].got /\ hook'[k].listed = hook[k].listed
      BY <1>1, <2>6 DEF EndLoad, Loads
    <3>2. hook[k].pc = "includes" /\ Len(hook[k].got) + 1 > hook[k].listed
      BY <2>6 DEF EndLoad, NextInclude
    <3>3. Len(hook[k].got) \in Nat
      BY <1>1 DEF Loads
    <3> QED
      BY <1>2, <3>1, <3>2, <3>3 DEF LoadKept, LoadIsClean, Loading
  <2> QED
    BY <1>5, <2>2, <2>3, <2>4, <2>5, <2>6
<1>6. ASSUME NEW i \in Inits,
             \/ \E force \in BOOLEAN : BeginInit(i, force)
             \/ OpenSettings(i) \/ WriteSettings(i) \/ InterruptInit(i)
      PROVE  LoadKept(k)'
  BY <1>3, <1>6 DEF BeginInit, OpenSettings, WriteSettings, InterruptInit
<1>7. ASSUME NEW j \in Judges,
             \/ CheckSettings(j) \/ CreateTemp(j) \/ FillTemp(j) \/ Rename(j)
             \/ GiveUpSettings(j) \/ LaunchClaude(j) \/ KillJudge(j)
      PROVE  LoadKept(k)'
  BY <1>3, <1>7 DEF CheckSettings, CreateTemp, FillTemp, Rename, GiveUpSettings,
                    LaunchClaude, KillJudge
<1>8. ASSUME NEW content \in Settings, EditSettings(content) PROVE LoadKept(k)'
  BY <1>3, <1>8 DEF EditSettings
<1>9. CASE UNCHANGED installVars
  BY <1>3, <1>9 DEF installVars
<1> QED
  BY <1>4, <1>5, <1>6, <1>7, <1>8, <1>9 DEF InstallNext

\* A hook that no init disturbs loads every include of the manifest, each one whole,
\* or fails (load_rules_manifest).
THEOREM LoadsStayWhole == InstallSpec => []LoadsAreWhole
<1>1. InstallTypeInv /\ LoadInv => LoadsAreWhole
  BY DEF LoadInv, LoadKept, LoadIsClean, LoadsAreWhole
<1> QED
  BY <1>1, InstallTypeInit, InstallTypeStep, LoadInvInit, LoadInvStep, PTL DEF InstallSpec
-----------------------------------------------------------------------------
(* The inits.                                                              *)

\* What is known of the init that was the last to begin writing, if no other one
\* was writing then: nobody disturbs it, and it has written all files before `at`.
InitKept(i) ==
  /\ init[i].pc = "idle" => init[i].at = Manifest
  /\ init[i].pc = "done" => init[i].at = SettingsFile
  /\ last = i => init[i].pc \notin {"idle", "refused"}
  /\ last = i /\ init[i].alone =>
       /\ \A m \in Inits \ {i} : ~Writing(m)
       /\ \A f \in RulesFiles : f < init[i].at => file[f] = Whole(i)
       /\ init[i].pc = "write" /\ init[i].at \in RulesFiles =>
            file[init[i].at].from \subseteq {i}
InitInv == \A i \in Inits : InitKept(i)

LEMMA InitInvInit == InstallInit => InitInv
BY InstallationAssumption DEF InstallInit, InitInv, InitKept

LEMMA InitInvStep == InstallTypeInv /\ InitInv /\ [InstallNext]_installVars => InitInv'
<1> SUFFICES ASSUME InstallTypeInv, InitInv, [InstallNext]_installVars, NEW k \in Inits PROVE InitKept(k)'
  BY DEF InitInv
<1> USE InstallationAssumption
<1>1. init \in [Inits -> InitRuns] /\ init[k] \in InitRuns
  BY DEF InstallTypeInv, InitTypes
<1>2. InitKept(k)
  BY DEF InitInv
<1>3. ASSUME UNCHANGED <<file, last>>,
             \A i \in Inits : /\ init'[i].pc = init[i].pc /\ init'[i].at = init[i].at
                              /\ init'[i].alone = init[i].alone
      PROVE  InitKept(k)'
  BY <1>2, <1>3 DEF InitKept, Writing
<1>4. ASSUME NEW i \in Inits, NEW force \in BOOLEAN, BeginInit(i, force)
      PROVE  InitKept(k)'
  <2>1. init[i].pc = "idle" /\ last # i /\ UNCHANGED file
    BY <1>4 DEF BeginInit, InitInv, InitKept
  <2>2. CASE init' = [init EXCEPT ![i].pc = "refused"] /\ UNCHANGED last
    BY <1>1, <1>2, <2>1, <2>2 DEF InitKept, InitRuns, Writing
  <2>3. CASE /\ init' = [m \in Inits |->
                  CASE m = i -> [init[i] EXCEPT !.pc = "open", !.force = force,
                                                !.alone = ~\E n \in Inits : Writing(n)]
                    [] m # i -> [init[m] EXCEPT !.alone = @ /\ ~Writing(m)]]
             /\ last' = i
    <3> DEFINE none == ~\E n \in Inits : Writing(n)
               apart(m) == init[m].alone /\ ~Writing(m)
    <3>1. \A m \in Inits : init'[m] =
            IF m = i THEN [init[i] EXCEPT !.pc = "open", !.force = force, !.alone = none]
            ELSE [init[m] EXCEPT !.alone = apart(m)]
      BY <2>3
    <3>2. none \in BOOLEAN /\ (none => \A m \in Inits : ~Writing(m))
      OBVIOUS
    <3> HIDE DEF none, apart
    <3>3. ASSUME NEW m \in Inits \ {i}
          PROVE  init'[m].pc = init[m].pc /\ init'[m].at = init[m].at
      <4>1. init[m] \in InitRuns
        BY <1>1
      <4>2. init'[m] = [init[m] EXCEPT !.alone = apart(m)]
        BY <3>1
      <4> QED
        BY <4>1, <4>2 DEF InitRuns
    <3>4. /\ init'[i].pc = "open" /\ init'[i].at = init[i].at
          /\ init'[i].alone => none
      <4>1. init[i] \in InitRuns
        BY <1>1
      <4>2. init'[i] = [init[i] EXCEPT !.pc = "open", !.force = force, !.alone = none]
        BY <3>1
      <4> QED
        BY <4>1, <4>2 DEF InitRuns
    <3>5. CASE k = i
      <4>1. init'[k].at = 0
        BY <1>2, <2>1, <3>4, <3>5 DEF InitKept, Manifest
      <4>2. none => \A m \in Inits \ {k} : ~(init'[m].pc \in {"open", "write"})
        BY <3>2, <3>3, <3>5 DEF Writing
      <4>3. \A f \in RulesFiles : ~(f < 0)
        BY DEF RulesFiles
      <4> QED
        BY <3>4, <3>5, <4>1, <4>2, <4>3 DEF InitKept, Writing
    <3>6. CASE k # i
      BY <1>2, <2>3, <3>3, <3>6 DEF InitKept
    <3> QED
      BY <3>5, <3>6
  <2> QED
    BY <1>4, <2>2, <2>3 DEF BeginInit
<1>5. ASSUME NEW i \in Inits, OpenRules(i) \/ WriteRules(i) PROVE InitKept(k)'
  <2>1. Writing(i) /\ init[i].at \in RulesFiles /\ last' = last
    BY <1>5 DEF OpenRules, WriteRules, Writing
  <2>2. CASE k # i
    <3>1. init'[k] = init[k]
      BY <1>1, <1>5, <2>2 DEF OpenRules, WriteRules
    <3>2. ~(last = k /\ init[k].alone)
      BY <1>2, <2>1, <2>2 DEF InitKept
    <3> QED
      BY <1>2, <2>1, <3>1, <3>2 DEF InitKept
  <2>3. \A m \in Inits \ {i} : init'[m] = init[m]
    BY <1>1, <1>5 DEF OpenRules, WriteRules
  <2>4. file \in [RulesFiles -> FileContents]
    BY DEF InstallTypeInv, FileTypes
  <2>5. ASSUME k = i, OpenRules(k) PROVE InitKept(k)'
    <3>1. /\ init'[k].pc = "write" /\ init'[k].at = init[k].at
          /\ init'[k].alone = init[k].alone /\ init[k].pc = "open"
      BY <1>1, <2>5 DEF OpenRules, InitRuns
    <3>2. /\ file'[init[k].at].from = {}
          /\ \A f \in RulesFiles : f < init[k].at => file'[f] = file[f]
      BY <2>1, <2>4, <2>5 DEF OpenRules, Empty, RulesFiles
    <3> QED
      BY <1>2, <2>1, <2>3, <2>5, <3>1, <3>2 DEF InitKept, Writing
  <2>6. ASSUME k = i, WriteRules(k) PROVE InitKept(k)'
    <3> DEFINE f == init[k].at
    <3>1. f \in RulesFiles /\ init[k].pc = "write" /\ f \in Int
      BY <2>6 DEF WriteRules, RulesFiles
    <3>2. \A g \in RulesFiles : g # f => file'[g] = file[g]
      BY <2>4, <2>6, <3>1 DEF WriteRules
    <3>3. CASE UNCHANGED init /\ file' = [file EXCEPT ![f].from = {k}]
      <4>1. file'[f].from = {k}
        BY <2>4, <3>1, <3>3 DEF FileContents
      <4> QED
        BY <1>2, <2>1, <3>1, <3>2, <3>3, <4>1 DEF InitKept, Writing
    <3>4. CASE init' = [init EXCEPT ![k].pc = "open", ![k].at = f + 1]
      <4>1. /\ init'[k].pc = "open" /\ init'[k].at = f + 1
            /\ init'[k].alone = init[k].alone
        BY <1>1, <3>4 DEF InitRuns
      <4>2. last = k /\ init[k].alone => file'[f] = Whole(k)
        BY <1>2, <2>4, <2>6, <3>1, <3>4, <4>1 DEF WriteRules, InitKept
      <4>3. \A g \in RulesFiles : g < f + 1 => g = f \/ g < f
        BY <3>1 DEF RulesFiles
      <4> QED
        BY <1>2, <2>1, <2>3, <2>6, <3>1, <3>2, <4>1, <4>2, <4>3 DEF InitKept, Writing
    <3> QED
      BY <2>6, <3>3, <3>4 DEF WriteRules
  <2> QED
    BY <1>5, <2>2, <2>5, <2>6
<1>6. ASSUME NEW i \in Inits, OpenSettings(i) \/ WriteSettings(i) \/ InterruptInit(i)
      PROVE  InitKept(k)'
  <2>1. UNCHANGED <<file, last>> /\ Writing(i)
    BY <1>6 DEF OpenSettings, WriteSettings, InterruptInit, Writing
  <2>2. \A m \in Inits \ {i} : init'[m] = init[m]
    BY <1>1, <1>6 DEF OpenSettings, WriteSettings, InterruptInit
  <2>3. /\ init'[i].at = init[i].at /\ init'[i].alone = init[i].alone
        /\ init'[i].pc \in {"write", "done", "interrupted"}
        /\ init'[i].pc \in {"write", "done"} => init[i].at = SettingsFile
    BY <1>1, <1>6 DEF OpenSettings, WriteSettings, InterruptInit, InitRuns
  <2>4. SettingsFile \notin RulesFiles
    BY DEF SettingsFile, RulesFiles
  <2>5. CASE k = i
    BY <1>2, <2>1, <2>2, <2>3, <2>4, <2>5 DEF InitKept, Writing
  <2>6. CASE k # i
    BY <1>2, <2>1, <2>2, <2>6 DEF InitKept, Writing
  <2> QED
    BY <2>5, <2>6
<1>7. ASSUME NEW j \in Judges, Rename(j) PROVE InitKept(k)'
  BY <1>1, <1>3, <1>7 DEF Rename, InitRuns
<1>8. ASSUME NEW content \in Settings, EditSettings(content) PROVE InitKept(k)'
  BY <1>1, <1>3, <1>8 DEF EditSettings, InitRuns
<1>9. ASSUME NEW j \in Judges,
             \/ CheckSettings(j) \/ CreateTemp(j) \/ FillTemp(j)
             \/ GiveUpSettings(j) \/ LaunchClaude(j) \/ KillJudge(j)
      PROVE  InitKept(k)'
  BY <1>3, <1>9 DEF CheckSettings, CreateTemp, FillTemp, GiveUpSettings, LaunchClaude,
                    KillJudge
<1>10. ASSUME NEW h \in Hooks,
              BeginLoad(h) \/ ReadManifest(h) \/ ReadInclude(h) \/ EndLoad(h)
       PROVE  InitKept(k)'
  BY <1>3, <1>10 DEF BeginLoad, ReadManifest, ReadInclude, EndLoad
<1>11. CASE UNCHANGED installVars
  BY <1>3, <1>11 DEF installVars
<1> QED
  BY <1>4, <1>5, <1>6, <1>7, <1>8, <1>9, <1>10, <1>11 DEF InstallNext

\* An init that completes undisturbed has installed its own version of every rules
\* file, whatever was there before (run_init).
THEOREM InitStaysWhole == InstallSpec => []InitIsWhole
<1>1. InstallTypeInv /\ InitInv => InitIsWhole
  BY InstallationAssumption DEF InitInv, InitKept, InitIsWhole, RulesFiles, SettingsFile
<1> QED
  BY <1>1, InstallTypeInit, InstallTypeStep, InitInvInit, InitInvStep, PTL DEF InstallSpec

-----------------------------------------------------------------------------
(* The types of the installed files and of those who read them.           *)

\* A hook has read no more than what it found listed, and nothing before it read a list.
ListKept(h) ==
  /\ hook[h].pc \in {"idle", "manifest"} => hook[h].got = << >>
  /\ Len(hook[h].got) <= hook[h].listed
ListInv == \A h \in Hooks : ListKept(h)

LEMMA ListInvInit == InstallInit => ListInv
<1> SUFFICES ASSUME InstallInit, NEW h \in Hooks PROVE ListKept(h)
  BY DEF ListInv
<1>1. hook[h].got = << >> /\ hook[h].listed = NumIncludes
  BY DEF InstallInit
<1> QED
  BY <1>1, InstallationAssumption DEF ListKept

LEMMA ListInvStep == InstallTypeInv /\ ListInv /\ [InstallNext]_installVars => ListInv'
<1> SUFFICES ASSUME InstallTypeInv, ListInv, [InstallNext]_installVars, NEW k \in Hooks
             PROVE  ListKept(k)'
  BY DEF ListInv
<1>1. /\ hook \in [Hooks -> Loads] /\ hook[k] \in Loads
      /\ Len(hook[k].got) \in Nat /\ hook[k].listed \in Nat
  BY InstallationAssumption DEF InstallTypeInv, LoadTypes, Loads
<1>2. ListKept(k)
  BY DEF ListInv
<1>3. UNCHANGED hook => ListKept(k)'
  BY <1>2 DEF ListKept
<1>4. ASSUME NEW i \in Inits, OpenRules(i) \/ WriteRules(i) PROVE ListKept(k)'
  <2>1. hook'[k] = [hook[k] EXCEPT !.clean = @ /\ ~Loading(k)]
    BY <1>4 DEF OpenRules, WriteRules, Disturbed
  <2>2. /\ hook'[k].pc = hook[k].pc /\ hook'[k].got = hook[k].got
        /\ hook'[k].listed = hook[k].listed
    BY <1>1, <2>1 DEF Loads
  <2> QED
    BY <1>2, <2>2 DEF ListKept
<1>5. ASSUME NEW h \in Hooks,
             BeginLoad(h) \/ ReadManifest(h) \/ ReadInclude(h) \/ EndLoad(h)
      PROVE  ListKept(k)'
  <2>1. CASE h # k
    <3>1. hook'[k] = hook[k]
      BY <1>1, <1>5, <2>1 DEF BeginLoad, ReadManifest, ReadInclude, EndLoad
    <3> QED
      BY <1>2, <3>1 DEF ListKept
  <2>2. ASSUME h = k, BeginLoad(k) PROVE ListKept(k)'
    <3> DEFINE clean == \A f \in RulesFiles : file[f].whole
    <3>1. PICK where \in {"embedded", "manifest"} :
            hook' = [hook EXCEPT ![k].pc = where, ![k].clean = clean]
      BY <2>2 DEF BeginLoad
    <3>2. hook[k].pc = "idle"
      BY <2>2 DEF BeginLoad
    <3> HIDE DEF clean
    <3>3. hook'[k].got = hook[k].got /\ hook'[k].listed = hook[k].listed
      BY <1>1, <3>1 DEF Loads
    <3> QED
      BY <1>2, <3>2, <3>3 DEF ListKept
  <2>3. ASSUME h = k, ReadManifest(k) PROVE ListKept(k)'
    <3>1. hook[k].got = << >>
      BY <1>2, <2>3 DEF ReadManifest, ListKept
    <3>2. CASE hook' = [hook EXCEPT ![k].pc = "failed"]
      BY <1>1, <1>2, <3>2 DEF ListKept, Loads
    <3>3. ASSUME NEW n \in 0..NumIncludes,
                 hook' = [hook EXCEPT ![k].pc = "includes", ![k].listed = n]
          PROVE  ListKept(k)'
      <4>1. hook'[k].got = << >> /\ hook'[k].listed = n
        BY <1>1, <3>1, <3>3 DEF Loads
      <4> QED
        BY <4>1 DEF ListKept
    <3> QED
      BY <2>3, <3>2, <3>3 DEF ReadManifest
  <2>4. ASSUME h = k, ReadInclude(k) PROVE ListKept(k)'
    <3>1. hook[k].pc = "includes" /\ Len(hook[k].got) + 1 <= hook[k].listed
      BY <2>4 DEF ReadInclude, NextInclude
    <3>2. CASE hook' = [hook EXCEPT ![k].pc = "failed"]
      BY <1>1, <1>2, <3>2 DEF ListKept, Loads
    <3>3. CASE hook' = [hook EXCEPT ![k].got = Append(@, file[NextInclude(k)])]
      <4>1. /\ hook'[k].pc = hook[k].pc /\ hook'[k].listed = hook[k].listed
            /\ hook'[k].got = Append(hook[k].got, file[NextInclude(k)])
        BY <1>1, <3>3 DEF Loads
      <4>2. hook[k].got \in Seq(FileContents)
        BY <1>1 DEF Loads
      <4>3. Len(Append(hook[k].got, file[NextInclude(k)])) = Len(hook[k].got) + 1
        BY <4>2
      <4> QED
        BY <3>1, <4>1, <4>3 DEF ListKept
    <3> QED
      BY <2>4, <3>2, <3>3 DEF ReadInclude
  <2>5. ASSUME h = k, EndLoad(k) PROVE ListKept(k)'
    <3>1. hook' = [hook EXCEPT ![k].pc = "loaded"]
      BY <2>5 DEF EndLoad
    <3> QED
      BY <1>1, <1>2, <3>1 DEF ListKept, Loads
  <2> QED
    BY <1>5, <2>1, <2>2, <2>3, <2>4, <2>5
<1>6. ASSUME NEW i \in Inits,
             \/ \E force \in BOOLEAN : BeginInit(i, force)
             \/ OpenSettings(i) \/ WriteSettings(i) \/ InterruptInit(i)
      PROVE  ListKept(k)'
  BY <1>3, <1>6 DEF BeginInit, OpenSettings, WriteSettings, InterruptInit
<1>7. ASSUME NEW j \in Judges,
             \/ CheckSettings(j) \/ CreateTemp(j) \/ FillTemp(j) \/ Rename(j)
             \/ GiveUpSettings(j) \/ LaunchClaude(j) \/ KillJudge(j)
      PROVE  ListKept(k)'
  BY <1>3, <1>7 DEF CheckSettings, CreateTemp, FillTemp, Rename, GiveUpSettings, LaunchClaude,
                    KillJudge
<1>8. ASSUME NEW content \in Settings, EditSettings(content) PROVE ListKept(k)'
  BY <1>3, <1>8 DEF EditSettings
<1>9. CASE UNCHANGED installVars
  BY <1>3, <1>9 DEF installVars
<1> QED
  BY <1>4, <1>5, <1>6, <1>7, <1>8, <1>9 DEF InstallNext

\* The types of the files and of those who read and write them: a hook has read no
\* more includes than the manifest listed (load_rules_manifest).
THEOREM InstallType == InstallSpec => []InstallTypeOK
<1> DEFINE Counted == edits \in 0..MaxEdits
<1>1. InstallInit => Counted
  BY InstallationAssumption DEF InstallInit
<1>2. Counted /\ [InstallNext]_installVars => Counted'
  <2> SUFFICES ASSUME Counted, [InstallNext]_installVars PROVE Counted'
    OBVIOUS
  <2>1. UNCHANGED edits => Counted'
    OBVIOUS
  <2>2. ASSUME NEW content \in Settings, EditSettings(content) PROVE Counted'
    BY <2>2, InstallationAssumption DEF EditSettings
  <2>3. ASSUME NEW i \in Inits,
               \/ \E force \in BOOLEAN : BeginInit(i, force)
               \/ OpenRules(i) \/ WriteRules(i) \/ OpenSettings(i) \/ WriteSettings(i)
               \/ InterruptInit(i)
        PROVE  UNCHANGED edits
    BY <2>3 DEF BeginInit, OpenRules, WriteRules, OpenSettings, WriteSettings, InterruptInit
  <2>4. ASSUME NEW h \in Hooks,
               BeginLoad(h) \/ ReadManifest(h) \/ ReadInclude(h) \/ EndLoad(h)
        PROVE  UNCHANGED edits
    BY <2>4 DEF BeginLoad, ReadManifest, ReadInclude, EndLoad
  <2>5. ASSUME NEW j \in Judges,
               \/ CheckSettings(j) \/ CreateTemp(j) \/ FillTemp(j) \/ Rename(j)
               \/ GiveUpSettings(j) \/ LaunchClaude(j) \/ KillJudge(j)
        PROVE  UNCHANGED edits
    BY <2>5 DEF CheckSettings, CreateTemp, FillTemp, Rename, GiveUpSettings, LaunchClaude,
                KillJudge
  <2>6. CASE UNCHANGED installVars
    BY <2>1, <2>6 DEF installVars
  <2> QED
    BY <2>1, <2>2, <2>3, <2>4, <2>5, <2>6 DEF InstallNext
<1>3. InstallTypeInv /\ ListInv /\ Counted => InstallTypeOK
  <2> SUFFICES ASSUME InstallTypeInv, ListInv, Counted PROVE InstallTypeOK
    OBVIOUS
  <2>1. \A h \in Hooks :
          /\ hook[h].pc \in {"idle", "embedded", "manifest", "includes", "loaded", "failed"}
          /\ hook[h].listed \in 0..NumIncludes /\ hook[h].clean \in BOOLEAN
    BY DEF InstallTypeInv, LoadTypes, Loads
  <2>2. \A h \in Hooks : Len(hook[h].got) <= hook[h].listed
    BY DEF ListInv, ListKept
  <2>3. \A h \in Hooks :
          /\ hook[h].pc \in {"idle", "embedded", "manifest", "includes", "loaded", "failed"}
          /\ Len(hook[h].got) <= hook[h].listed /\ hook[h].listed \in 0..NumIncludes
          /\ hook[h].clean \in BOOLEAN
    BY <2>1, <2>2
  <2>4. file \in [RulesFiles -> [from : SUBSET Versions, whole : BOOLEAN]]
    BY DEF InstallTypeInv, FileTypes, FileContents
  <2>5. /\ init \in [Inits -> [pc : {"idle", "refused", "open", "write", "interrupted", "done"},
                              force : BOOLEAN, at : 0..SettingsFile, held : BOOLEAN,
                              alone : BOOLEAN]]
        /\ last \in Versions
    BY Zenon DEF InstallTypeInv, InitTypes, InitRuns
  <2>6. /\ settings \in Settings
        /\ judge \in [Judges -> [pc : {"idle", "create", "fill", "rename", "ready",
                                       "unavailable", "killed"},
                                 tmp : {"absent", "unsafe", "safe"}, launches : 0..MaxLaunches,
                                 touched : BOOLEAN, read : Settings \cup {"none"}]]
    BY Zenon DEF InstallTypeInv, JudgeTypes, JudgeRuns
  <2> QED
    BY <2>3, <2>4, <2>5, <2>6, Zenon DEF InstallTypeOK
<1> HIDE DEF Counted
<1> QED
  BY <1>1, <1>2, <1>3, InstallTypeInit, InstallTypeStep, ListInvInit, ListInvStep,
     PTL DEF InstallSpec
================================================================================
