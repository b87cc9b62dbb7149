---------------------------- MODULE JudgeContract ----------------------------
(***************************************************************************)
(* What a run of the AI judge promises to the evaluator, and nothing of    *)
(* how it keeps the promise.  Providers answer ALLOW or ASK in some order, *)
(* any number of times, or never.  The run ends once, with the first       *)
(* answer or with the fallback ask: no failure, timeout, retry or race can *)
(* make it say allow unless a provider said so first.                      *)
(***************************************************************************)

VARIABLES first,    \* the first answer any provider gave, "none" before it
          verdict   \* what the run told the evaluator, "pending" before it

vars == <<first, verdict>>

\* The two answers a provider can give; there is deliberately no deny.
Answers == {"allow", "ask"}

TypeOK ==
  /\ first \in Answers \cup {"none"}
  /\ verdict \in Answers \cup {"pending"}

Init ==
  /\ first = "none"
  /\ verdict = "pending"

\* A provider answers; only the first answer can count.
Answer(v) ==
  /\ first' = IF first = "none" THEN v ELSE first
  /\ UNCHANGED verdict

\* The run ends with the first answer, if there is one, or falls back to ask.
Conclude ==
  /\ verdict = "pending"
  /\ verdict' \in {"ask"} \cup ({first} \ {"none"})
  /\ UNCHANGED first

Next ==
  \/ \E v \in Answers : Answer(v)
  \/ Conclude

Spec == Init /\ [][Next]_vars
=============================================================================
