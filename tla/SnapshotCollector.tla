--------------------------- MODULE SnapshotCollector ---------------------------
(***************************************************************************)
(* How the market gateway collects the parts of a stock snapshot: one      *)
(* provider operation per source, each in a thread of its own, gathered in *)
(* order by the request's thread under a timeout for each source and a     *)
(* deadline for all (_collect_snapshot_v3_batches).                        *)
(*                                                                         *)
(* The executor belongs to one request and has a worker for each of its    *)
(* operations, so requests do not meet here.  The clock is monotonic() and *)
(* starts at requested_at.                                                 *)
(***************************************************************************)
EXTENDS Integers

CONSTANTS
  NSources,       \* the operations, in the order they are submitted
  SourceTimeout,  \* source_timeout_seconds
  Overall,        \* snapshot_deadline_seconds
  MaxLag,         \* BOUND on the ticks that find the collector with work to do
  MaxTime         \* BOUND on the clock

ASSUME CollectorAssumption ==
  /\ NSources \in Nat \ {0}
  /\ SourceTimeout \in Nat \ {0} /\ Overall \in Nat \ {0}
  /\ MaxLag \in Nat /\ MaxTime \in Nat

Sources == 1 .. NSources
Times == 0 .. MaxTime

VARIABLES
  clock,
  lag,          \* history: ticks in which the collector was ready and did not run
  pc, at,       \* the collector and the source it deals with
  submittedAt,  \* submitted_at of each source
  op,           \* its operation and its future
  outcome,      \* what the operation came to
  finishedAt,   \* completion_times
  settledAt,    \* history: when its future was done
  remaining,    \* what was left to wait when the collector looked
  until,        \* end of the wait under way
  answer        \* batches and failures

sourceVars == <<op, outcome, finishedAt, settledAt>>
waitVars == <<remaining, until>>
vars == <<clock, lag, pc, at, submittedAt, sourceVars, waitVars, answer>>

TypeOK ==
  /\ clock \in Times /\ lag \in 0 .. MaxLag
  /\ pc \in {"submit", "handover", "look", "examine", "waiting",
             "closing", "failing", "answered", "raised"}
  /\ at \in Sources
  /\ submittedAt \in [Sources -> Times]
  /\ op \in [Sources -> {"unborn", "queued", "running", "stamped", "done", "cancelled"}]
  /\ outcome \in [Sources -> {"batch", "error"}]
  /\ finishedAt \in [Sources -> Times]
  /\ settledAt \in [Sources -> Times]
  /\ remaining \in Int /\ remaining <= SourceTimeout
  /\ until \in Nat
  /\ answer \in [Sources -> {"none", "batch", "error", "late"}]

Init ==
  /\ clock = 0 /\ lag = 0
  /\ pc = "submit" /\ at = 1
  /\ submittedAt = [i \in Sources |-> 0]
  /\ op = [i \in Sources |-> "unborn"]
  /\ outcome = [i \in Sources |-> "error"]
  /\ finishedAt = [i \in Sources |-> 0]
  /\ settledAt = [i \in Sources |-> 0]
  /\ remaining = 0 /\ until = 0
  /\ answer = [i \in Sources |-> "none"]

-----------------------------------------------------------------------------
(* Time.  A tick that does not find the collector asleep or gone is lag: its
   thread was not scheduled, or executor.submit was slow.                    *)

Ended == pc \in {"answered", "raised"}
Asleep == pc = "waiting" /\ op[at] # "done" /\ clock < until

Tick ==
  /\ clock < MaxTime
  /\ IF Asleep \/ Ended THEN lag' = lag ELSE lag < MaxLag /\ lag' = lag + 1
  /\ clock' = clock + 1
  /\ UNCHANGED <<pc, at, submittedAt, sourceVars, waitVars, answer>>

-----------------------------------------------------------------------------
(* Submitting.                                                               *)

Forward(last) == IF at < NSources THEN at' = at + 1 ELSE at' = last

\* submitted_at is read before the operation is handed over.
BeginSubmit ==
  /\ pc = "submit"
  /\ submittedAt' = [submittedAt EXCEPT ![at] = clock]
  /\ pc' = "handover"
  /\ UNCHANGED <<clock, lag, at, sourceVars, waitVars, answer>>

Submit ==
  /\ pc = "handover"
  /\ op' = [op EXCEPT ![at] = "queued"]
  /\ Forward(1)
  /\ pc' = IF at < NSources THEN "submit" ELSE "look"
  /\ UNCHANGED <<clock, lag, submittedAt, outcome, finishedAt, settledAt, waitVars, answer>>

\* No thread can be started; the operation may have been queued by then.
SubmitRaises ==
  /\ pc = "handover"
  /\ \/ op' = [op EXCEPT ![at] = "queued"]
     \/ op' = op
  /\ pc' = "failing"
  /\ UNCHANGED <<clock, lag, at, submittedAt, outcome, finishedAt, settledAt, waitVars, answer>>

-----------------------------------------------------------------------------
(* The operations, each in a worker of its own.                              *)

Start(i) ==
  /\ op[i] = "queued"
  /\ op' = [op EXCEPT ![i] = "running"]
  /\ UNCHANGED <<clock, lag, pc, at, submittedAt, outcome, finishedAt, settledAt, waitVars, answer>>

\* External: the provider returns or raises, and the `finally' takes the time.
Finish(i) ==
  /\ op[i] = "running"
  /\ op' = [op EXCEPT ![i] = "stamped"]
  /\ \E o \in {"batch", "error"} : outcome' = [outcome EXCEPT ![i] = o]
  /\ finishedAt' = [finishedAt EXCEPT ![i] = clock]
  /\ UNCHANGED <<clock, lag, pc, at, submittedAt, settledAt, waitVars, answer>>

\* The worker hands the result to the future, some time later.
Settle(i) ==
  /\ op[i] = "stamped"
  /\ op' = [op EXCEPT ![i] = "done"]
  /\ settledAt' = [settledAt EXCEPT ![i] = clock]
  /\ UNCHANGED <<clock, lag, pc, at, submittedAt, outcome, finishedAt, waitVars, answer>>

-----------------------------------------------------------------------------
(* Gathering.                                                                *)

\* min(source_deadline, overall_deadline)
Deadline(i) ==
  IF submittedAt[i] + SourceTimeout < Overall THEN submittedAt[i] + SourceTimeout ELSE Overall

\* Mutant: every source is waited for as if it had just been submitted.
Look_FreshBudget ==
  /\ pc = "look"
  /\ remaining' = SourceTimeout
  /\ pc' = "examine"
  /\ UNCHANGED <<clock, lag, at, submittedAt, sourceVars, until, answer>>

Look ==
  /\ pc = "look"
  /\ remaining' = Deadline(at) - clock
  /\ pc' = "examine"
  /\ UNCHANGED <<clock, lag, at, submittedAt, sourceVars, until, answer>>

\* An answer for the source at hand; the last one ends the gathering.
Conclude(verdict) ==
  /\ answer' = [answer EXCEPT ![at] = verdict]
  /\ Forward(NSources)
  /\ pc' = IF at < NSources THEN "look" ELSE "closing"
  /\ UNCHANGED <<clock, lag, submittedAt, sourceVars, waitVars>>

\* Mutant: past the deadline the future is not looked at.
GiveUp_Unseen ==
  /\ pc = "examine"
  /\ remaining <= 0
  /\ Conclude("late")

\* Out of time, and nothing there.
GiveUp ==
  /\ pc = "examine"
  /\ remaining <= 0 /\ op[at] # "done"
  /\ Conclude("late")

\* future.result(timeout=max(0.0, remaining)): counted from now, not from the look.
Wait ==
  /\ pc = "examine"
  /\ remaining > 0 \/ op[at] = "done"
  /\ until' = clock + (IF remaining > 0 THEN remaining ELSE 0)
  /\ pc' = "waiting"
  /\ UNCHANGED <<clock, lag, at, submittedAt, sourceVars, remaining, answer>>

\* Mutant: a wait that was in vain is begun again.
TimesOut_WaitsAgain ==
  /\ pc = "waiting"
  /\ clock >= until /\ op[at] # "done"
  /\ until' = clock + SourceTimeout
  /\ UNCHANGED <<clock, lag, pc, at, submittedAt, sourceVars, remaining, answer>>

TimesOut ==
  /\ pc = "waiting"
  /\ clock >= until /\ op[at] # "done"
  /\ Conclude("late")

\* Mutant: a result that is there is taken, whenever it was completed.
Verdict_Trusting(i) == outcome[i]

\* What completed after its deadline is late, an error as well as a batch.
Verdict(i) == IF finishedAt[i] > Deadline(i) THEN "late" ELSE outcome[i]

\* The future is done, perhaps only just as the wait ran out.
Take ==
  /\ pc = "waiting"
  /\ op[at] = "done"
  /\ Conclude(Verdict(at))

\* Mutant: the executor is left to finish its queue.
Withdrawn_Nothing == op

\* cancel() and cancel_futures reach what no worker has begun.
Withdrawn == [i \in Sources |-> IF op[i] = "queued" THEN "cancelled" ELSE op[i]]

\* The `finally': nobody waits for the operations that are still running.
Close ==
  /\ pc \in {"closing", "failing"}
  /\ op' = Withdrawn
  /\ pc' = IF pc = "closing" THEN "answered" ELSE "raised"
  /\ UNCHANGED <<clock, lag, at, submittedAt, outcome, finishedAt, settledAt, waitVars, answer>>

-----------------------------------------------------------------------------
Collect ==
  \/ BeginSubmit \/ Submit \/ SubmitRaises
  \/ Look \/ GiveUp \/ Wait \/ TimesOut \/ Take \/ Close

Next ==
  \/ Tick
  \/ Collect
  \/ \E i \in Sources : Start(i) \/ Finish(i) \/ Settle(i)

(* The request's thread is scheduled and time passes.  Nothing is asked of the
   provider: an operation may never return.                                  *)
Spec == Init /\ [][Next]_vars /\ WF_vars(Collect) /\ WF_vars(Tick)

-----------------------------------------------------------------------------
(* Properties.                                                               *)

(* A source that was done before its deadline is in the answer with what it
   brought, however long the collector was busy with slower ones before it.  *)
TimelyIsKept ==
  pc = "answered" =>
    \A i \in Sources : op[i] = "done" /\ settledAt[i] < Deadline(i) => answer[i] = outcome[i]

(* What is reported as a source's batch or as its own error was completed
   within the source's timeout and the snapshot's deadline, even when the
   collector's wait overran them.                                            *)
OnlyTimelyIsReported ==
  \A i \in Sources : answer[i] \in {"batch", "error"} =>
    /\ op[i] = "done" /\ answer[i] = outcome[i]
    /\ finishedAt[i] <= submittedAt[i] + SourceTimeout /\ finishedAt[i] <= Overall

(* The waits for the sources do not add up: but for its own lag the collector
   is through after one source timeout, and after the snapshot's deadline.   *)
AnswersInTime ==
  ~Ended => clock <= SourceTimeout + lag /\ clock <= Overall + lag

(* Once the request was answered, or has failed, no further operation is begun
   for it: the provider is not asked for what nobody reads.                  *)
NothingStartsAfterwards ==
  [][\A i \in Sources : Ended => ~(op[i] # "running" /\ op'[i] = "running")]_vars

(* The request is answered although operations may hang for ever.            *)
AnswerComes == <>Ended
=============================================================================
