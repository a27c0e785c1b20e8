--------------------------- MODULE SnapshotProofs ----------------------------
(***************************************************************************)
(* The two halves of a gateway snapshot: how it is gathered and the chart  *)
(* it carries.                                                             *)
(*                                                                         *)
(* The snapshot collector keeps its promises for any number of sources and *)
(* any pair of deadlines, however its threads are scheduled.               *)
(*                                                                         *)
(* The charts are never repainted and their two counters agree, for every  *)
(* series of bars.  Each reading is computed from all the bars there are,  *)
(* so the proof compares the readings of a series with those of the same   *)
(* series and one bar more.                                                *)
(***************************************************************************)
EXTENDS SnapshotCollector, ChartShapes, FiniteSetTheorems, WellFoundedInduction, TLAPS

-----------------------------------------------------------------------------
(* The collector                                                           *)

Submitting == {"submit", "handover", "failing"}
Gathering == {"look", "examine", "waiting"}

(* Instants lie in the past; and what the collector still means to wait ends
   neither before the deadline of its source nor later than promised.        *)
Stamps ==
  \A i \in Sources :
    /\ submittedAt[i] <= clock /\ submittedAt[i] <= lag
    /\ op[i] \in {"stamped", "done"} => finishedAt[i] <= clock
    /\ op[i] = "done" => finishedAt[i] <= settledAt[i]

Waits ==
  /\ pc \in Submitting => clock <= lag
  /\ pc = "examine" =>
       /\ clock + remaining <= SourceTimeout + lag
       /\ clock + remaining <= Overall + lag
       /\ Deadline(at) <= clock + remaining
  /\ pc = "waiting" =>
       /\ until <= SourceTimeout + lag
       /\ until <= Overall + lag
       /\ Deadline(at) <= until

(* Which sources have an answer, and what it means.                          *)
Gathered ==
  /\ pc \in Submitting => \A i \in Sources : answer[i] = "none"
  /\ pc \in Gathering => \A i \in Sources : i < at => answer[i] # "none"
  /\ pc \in {"closing", "answered"} => \A i \in Sources : answer[i] # "none"

LateIsLate ==
  \A i \in Sources : answer[i] = "late" =>
    /\ Deadline(i) <= clock
    /\ op[i] = "done" => Deadline(i) <= settledAt[i]

ReportIsTimely ==
  \A i \in Sources : answer[i] \in {"batch", "error"} =>
    op[i] = "done" /\ answer[i] = outcome[i] /\ finishedAt[i] <= Deadline(i)

NoneQueued == Ended => \A i \in Sources : op[i] # "queued"

CollectorInv ==
  TypeOK /\ Stamps /\ AnswersInTime /\ Waits
  /\ Gathered /\ LateIsLate /\ ReportIsTimely /\ NoneQueued

(* The two ends of the list of sources.                                      *)
LEMMA Ends == 1 \in Sources /\ NSources \in Sources
  BY CollectorAssumption DEF Sources

(* The smaller of the two deadlines.                                         *)
LEMMA DeadlineType ==
  ASSUME TypeOK, NEW i \in Sources
  PROVE  /\ Deadline(i) \in Nat
         /\ Deadline(i) <= submittedAt[i] + SourceTimeout
         /\ Deadline(i) <= Overall
  BY CollectorAssumption DEF TypeOK, Deadline, Times

(* The initial state satisfies the invariant.                                *)
LEMMA InitCollectorInv == Init => CollectorInv
  BY CollectorAssumption, Ends
  DEF Init, CollectorInv, TypeOK, Stamps, AnswersInTime, Waits, Gathered, LateIsLate,
      ReportIsTimely, NoneQueued, Ended, Times, Submitting, Gathering

(* Time: a tick is lag, or a wait that is not over, or nobody's business.    *)
LEMMA TickKeepsInv ==
  ASSUME CollectorInv, Tick
  PROVE  CollectorInv'
<1> USE CollectorAssumption
    DEF CollectorInv, Tick, sourceVars, waitVars, Asleep, Ended
<1>1. /\ clock' = clock + 1 /\ clock \in Nat /\ lag \in Nat /\ lag' \in {lag, lag + 1}
      /\ lag' = lag => Asleep \/ Ended
      /\ \A i \in Sources : submittedAt[i] \in Nat /\ finishedAt[i] \in Nat
      /\ \A i \in Sources : Deadline(i)' = Deadline(i) /\ Deadline(i) \in Nat
      /\ at \in Sources /\ remaining \in Int /\ until \in Nat
  BY DeadlineType DEF TypeOK, Times, Deadline
<1>2. TypeOK'
  BY DEF TypeOK, Times
<1>3. Stamps'
  BY <1>1 DEF Stamps
<1>4. AnswersInTime' /\ Waits'
  <2>1. CASE lag' = lag + 1
    <3>1. AnswersInTime'
      BY <1>1, <2>1 DEF AnswersInTime
    <3>2. Waits'
      BY <1>1, <2>1 DEF Waits
    <3> QED BY <3>1, <3>2
  <2>2. CASE Asleep /\ lag' = lag
    <3>1. pc = "waiting" /\ clock + 1 <= until
      BY <1>1, <2>2
    <3>2. until <= SourceTimeout + lag /\ until <= Overall + lag /\ Deadline(at) <= until
      BY <3>1 DEF Waits
    <3>3. AnswersInTime'
      BY <1>1, <2>2, <3>1, <3>2 DEF AnswersInTime
    <3>4. Waits'
      BY <1>1, <2>2, <3>1, <3>2 DEF Waits, Submitting
    <3> QED BY <3>3, <3>4
  <2>3. CASE Ended /\ lag' = lag
    BY <1>1, <2>3 DEF AnswersInTime, Waits, Submitting
  <2> QED BY <1>1, <2>1, <2>2, <2>3
<1>5. LateIsLate'
  BY <1>1 DEF LateIsLate
<1>6. ReportIsTimely' /\ Gathered' /\ NoneQueued'
  BY <1>1 DEF ReportIsTimely, Gathered, NoneQueued
<1> QED BY <1>2, <1>3, <1>4, <1>5, <1>6

(* The workers: what becomes done does so now, past every deadline that has
   been given up.                                                            *)
LEMMA WorkerKeepsInv ==
  ASSUME CollectorInv, NEW j \in Sources, Start(j) \/ Finish(j) \/ Settle(j)
  PROVE  CollectorInv'
<1> USE DEF CollectorInv, waitVars
<1>1. UNCHANGED <<clock, lag, pc, at, submittedAt, remaining, until, answer>>
  BY DEF Start, Finish, Settle
<1>2. /\ \A i \in Sources : Deadline(i)' = Deadline(i) /\ Deadline(i) \in Nat
      /\ clock \in Times /\ clock \in Nat
  BY <1>1, DeadlineType DEF Deadline, TypeOK, Times
<1>3. TypeOK'
  BY <1>1, <1>2 DEF TypeOK, Start, Finish, Settle
<1>4. \A i \in Sources \ {j} : UNCHANGED <<op[i], outcome[i], finishedAt[i], settledAt[i]>>
  BY DEF TypeOK, Start, Finish, Settle
<1>5. /\ op[j] \in {"queued", "running", "stamped"}
      /\ op'[j] \in {"running", "stamped", "done"}
      /\ op'[j] \in {"stamped", "done"} =>
           finishedAt'[j] = clock \/ (op[j] = "stamped" /\ finishedAt'[j] = finishedAt[j])
      /\ op'[j] = "done" =>
           settledAt'[j] = clock /\ op[j] = "stamped" /\ finishedAt'[j] = finishedAt[j]
      /\ op'[j] = "running" => op[j] = "queued"
  <2>1. CASE Start(j)
    <3>1. op[j] = "queued" /\ op'[j] = "running" /\ finishedAt' = finishedAt
      BY <2>1 DEF TypeOK, Start
    <3> QED BY <3>1
  <2>2. CASE Finish(j)
    <3>1. op[j] = "running" /\ op'[j] = "stamped"
      BY <2>2 DEF TypeOK, Finish
    <3>2. finishedAt'[j] = clock
      BY <2>2 DEF TypeOK, Finish
    <3> QED BY <3>1, <3>2
  <2>3. CASE Settle(j)
    <3>1. op[j] = "stamped" /\ op'[j] = "done" /\ finishedAt' = finishedAt
      BY <2>3 DEF TypeOK, Settle
    <3>2. settledAt'[j] = clock
      BY <2>3 DEF TypeOK, Settle
    <3> QED BY <3>1, <3>2
  <2> QED BY <2>1, <2>2, <2>3
<1>6. Stamps'
  BY <1>1, <1>2, <1>4, <1>5 DEF Stamps
<1>7. AnswersInTime' /\ Waits' /\ Gathered'
  BY <1>1, <1>2 DEF AnswersInTime, Ended, Waits, Gathered, TypeOK
<1>8. LateIsLate' /\ ReportIsTimely' /\ NoneQueued'
  <2>1. LateIsLate'
    BY <1>1, <1>2, <1>4, <1>5 DEF LateIsLate
  <2>2. ReportIsTimely'
    BY <1>1, <1>2, <1>4, <1>5 DEF ReportIsTimely
  <2>3. NoneQueued'
    BY <1>1, <1>4, <1>5 DEF NoneQueued, Ended
  <2> QED BY <2>1, <2>2, <2>3
<1> QED BY <1>3, <1>6, <1>7, <1>8

(* Submission: nothing is answered yet, and all that passed is lag.          *)
LEMMA SubmitKeepsInv ==
  ASSUME CollectorInv, BeginSubmit \/ Submit \/ SubmitRaises
  PROVE  CollectorInv'
<1> USE CollectorAssumption DEF CollectorInv, waitVars, sourceVars
<1>1. /\ pc \in Submitting /\ pc' \in Submitting \cup {"look"} /\ ~Ended /\ ~Ended'
      /\ \A i \in Sources : answer[i] = "none"
      /\ UNCHANGED <<clock, lag, remaining, until, answer, outcome, finishedAt, settledAt>>
      /\ clock <= lag /\ clock \in Times /\ clock \in Nat /\ lag \in Nat
  BY DEF BeginSubmit, Submit, SubmitRaises, Submitting, Ended, Gathered, Waits, TypeOK, Times
<1>2. at' \in Sources /\ (pc' = "look" => at' = 1)
  BY DEF BeginSubmit, Submit, SubmitRaises, Forward, TypeOK, Sources
<1>3. /\ \A i \in Sources : submittedAt'[i] \in {submittedAt[i], clock}
      /\ submittedAt' \in [Sources -> Times]
  BY <1>1 DEF BeginSubmit, Submit, SubmitRaises, TypeOK
<1>4. /\ \A i \in Sources : op'[i] \in {op[i], "queued"}
      /\ op' \in [Sources -> {"unborn", "queued", "running", "stamped", "done", "cancelled"}]
  BY DEF BeginSubmit, Submit, SubmitRaises, TypeOK
<1>5. TypeOK'
  BY <1>1, <1>2, <1>3, <1>4 DEF TypeOK, Submitting
<1>6. Stamps'
  BY <1>1, <1>3, <1>4 DEF Stamps
<1>7. AnswersInTime' /\ Waits'
  BY <1>1 DEF AnswersInTime, Waits, Submitting
<1>8. Gathered' /\ LateIsLate' /\ ReportIsTimely' /\ NoneQueued'
  BY <1>1, <1>2 DEF Gathered, LateIsLate, ReportIsTimely, NoneQueued, Submitting,
                    Gathering, Sources
<1> QED BY <1>5, <1>6, <1>7, <1>8

(* Looking at a source, and beginning to wait for it.                        *)
LEMMA WaitKeepsInv ==
  ASSUME CollectorInv, Look \/ Wait
  PROVE  CollectorInv'
<1> USE CollectorAssumption DEF CollectorInv, sourceVars
<1>1. /\ pc \in Gathering /\ pc' \in {"examine", "waiting"} /\ ~Ended /\ ~Ended'
      /\ UNCHANGED <<clock, lag, at, submittedAt, op, outcome, finishedAt, settledAt, answer>>
  BY DEF Look, Wait, Gathering, Ended
<1>2. /\ clock \in Nat /\ lag \in Nat /\ at \in Sources /\ remaining \in Int
      /\ \A i \in Sources : Deadline(i)' = Deadline(i) /\ Deadline(i) \in Nat
      /\ Deadline(at) <= submittedAt[at] + SourceTimeout /\ Deadline(at) <= Overall
      /\ submittedAt[at] \in Nat /\ submittedAt[at] <= clock /\ submittedAt[at] <= lag
  BY <1>1, DeadlineType DEF Deadline, TypeOK, Times, Stamps
<1>3. clock <= SourceTimeout + lag /\ clock <= Overall + lag
  BY <1>1 DEF AnswersInTime
<1>4. TypeOK' /\ Waits'
  <2>1. CASE Look
    <3>1. remaining' = Deadline(at) - clock /\ pc' = "examine" /\ until' = until
      BY <2>1 DEF Look
    <3>2. TypeOK'
      BY <1>1, <1>2, <3>1 DEF TypeOK
    <3>3. Waits'
      BY <1>1, <1>2, <3>1 DEF Waits, Submitting
    <3> QED BY <3>2, <3>3
  <2>2. CASE Wait
    <3>1. /\ until' = clock + (IF remaining > 0 THEN remaining ELSE 0)
          /\ pc = "examine" /\ pc' = "waiting" /\ remaining' = remaining
      BY <2>2 DEF Wait
    <3>2. TypeOK'
      BY <1>1, <1>2, <3>1 DEF TypeOK
    <3>3. Waits'
      BY <1>1, <1>2, <1>3, <3>1 DEF Waits, Submitting
    <3> QED BY <3>2, <3>3
  <2> QED BY <2>1, <2>2
<1>5. Stamps' /\ AnswersInTime' /\ NoneQueued' /\ Gathered'
  BY <1>1 DEF Stamps, AnswersInTime, NoneQueued, Gathered, Gathering, Submitting
<1>6. LateIsLate' /\ ReportIsTimely'
  BY <1>1, <1>2 DEF LateIsLate, ReportIsTimely
<1> QED BY <1>4, <1>5, <1>6

(* An answer: late only past the deadline, and a report only within it.      *)
LEMMA ConcludeKeepsInv ==
  ASSUME CollectorInv, GiveUp \/ TimesOut \/ Take
  PROVE  CollectorInv'
<1> USE CollectorAssumption DEF CollectorInv, sourceVars, waitVars
<1>1. /\ at \in Sources /\ clock \in Nat /\ pc \in {"examine", "waiting"}
      /\ \A i \in Sources : Deadline(i) \in Nat /\ finishedAt[i] \in Nat /\ settledAt[i] \in Nat
      /\ remaining \in Int /\ until \in Nat
  BY DeadlineType DEF GiveUp, TimesOut, Take, TypeOK, Times
<1>2. PICK verdict \in {"batch", "error", "late"} :
        /\ Conclude(verdict)
        /\ verdict = "late" =>
             Deadline(at) <= clock /\ (op[at] = "done" => Deadline(at) <= settledAt[at])
        /\ verdict # "late" =>
             op[at] = "done" /\ verdict = outcome[at] /\ finishedAt[at] <= Deadline(at)
  <2>1. CASE GiveUp
    <3>1. Conclude("late") /\ op[at] # "done" /\ Deadline(at) <= clock
      BY <2>1, <1>1 DEF GiveUp, Waits
    <3> QED BY <3>1
  <2>2. CASE TimesOut
    <3>1. Conclude("late") /\ op[at] # "done" /\ Deadline(at) <= clock
      BY <2>2, <1>1 DEF TimesOut, Waits
    <3> QED BY <3>1
  <2>3. CASE Take
    <3>1. /\ Conclude(Verdict(at)) /\ op[at] = "done" /\ outcome[at] \in {"batch", "error"}
          /\ finishedAt[at] <= settledAt[at] /\ finishedAt[at] <= clock
      BY <2>3, <1>1 DEF Take, TypeOK, Stamps
    <3>2. CASE finishedAt[at] > Deadline(at)
      <4>1. Verdict(at) = "late" /\ Deadline(at) <= clock /\ Deadline(at) <= settledAt[at]
        BY <3>1, <3>2, <1>1 DEF Verdict
      <4> QED BY <3>1, <4>1
    <3>3. CASE ~(finishedAt[at] > Deadline(at))
      <4>1. Verdict(at) = outcome[at] /\ finishedAt[at] <= Deadline(at)
        BY <3>3, <1>1 DEF Verdict
      <4> QED BY <3>1, <4>1
    <3> QED BY <3>2, <3>3
  <2> QED BY <2>1, <2>2, <2>3
<1>3. /\ answer' = [answer EXCEPT ![at] = verdict]
      /\ UNCHANGED <<clock, lag, submittedAt, op, outcome, finishedAt, settledAt, remaining, until>>
      /\ IF at < NSources THEN at' = at + 1 /\ pc' = "look"
         ELSE at = NSources /\ at' = NSources /\ pc' = "closing"
  BY <1>1, <1>2 DEF Conclude, Forward, Sources
<1>4. \A i \in Sources : Deadline(i)' = Deadline(i)
  BY <1>3 DEF Deadline
<1>5. TypeOK'
  <2>1. at' \in Sources /\ pc' \in {"look", "closing"}
    BY <1>1, <1>3 DEF Sources
  <2>2. answer' \in [Sources -> {"none", "batch", "error", "late"}]
    BY <1>3 DEF TypeOK
  <2> QED BY <1>3, <2>1, <2>2 DEF TypeOK
<1>6. Stamps' /\ AnswersInTime' /\ Waits' /\ NoneQueued'
  BY <1>1, <1>3 DEF Stamps, AnswersInTime, Waits, NoneQueued, Ended, Submitting
<1>7. Gathered'
  <2>1. answer'[at] # "none" /\ \A i \in Sources : i < at => answer'[i] # "none"
    BY <1>1, <1>3 DEF Gathered, Gathering, TypeOK, Sources
  <2>2. CASE at < NSources
    <3>1. \A i \in Sources : i < at' => i < at \/ i = at
      BY <1>1, <1>3, <2>2 DEF Sources
    <3> QED BY <1>3, <2>1, <2>2, <3>1 DEF Gathered, Submitting
  <2>3. CASE ~(at < NSources)
    <3>1. \A i \in Sources : i < at \/ i = at
      BY <1>1, <1>3, <2>3 DEF Sources
    <3> QED BY <1>3, <2>1, <2>3, <3>1 DEF Gathered, Submitting, Gathering
  <2> QED BY <2>2, <2>3
<1>8. LateIsLate' /\ ReportIsTimely'
  BY <1>1, <1>2, <1>3, <1>4 DEF LateIsLate, ReportIsTimely, TypeOK
<1> QED BY <1>5, <1>6, <1>7, <1>8

(* The end of the request withdraws what no worker has begun.                *)
LEMMA CloseKeepsInv ==
  ASSUME CollectorInv, Close
  PROVE  CollectorInv'
<1> USE DEF CollectorInv, Close, waitVars
<1>1. \A i \in Sources : op'[i] = IF op[i] = "queued" THEN "cancelled" ELSE op[i]
  BY DEF Withdrawn
<1>2. \A i \in Sources : Deadline(i)' = Deadline(i)
  BY DEF Deadline
<1>3. TypeOK' /\ NoneQueued'
  BY <1>1 DEF TypeOK, NoneQueued, Withdrawn
<1>4. Stamps' /\ AnswersInTime' /\ Waits' /\ Gathered'
  BY <1>1 DEF Stamps, AnswersInTime, Ended, Waits, Gathered, Submitting, Gathering
<1>5. LateIsLate' /\ ReportIsTimely'
  BY <1>1, <1>2 DEF LateIsLate, ReportIsTimely
<1> QED BY <1>3, <1>4, <1>5

(* The invariant holds in every reachable state.                             *)
THEOREM CollectorInvariant == Spec => []CollectorInv
<1>1. CollectorInv /\ [Next]_vars => CollectorInv'
  <2> SUFFICES ASSUME CollectorInv, [Next]_vars PROVE CollectorInv'
    OBVIOUS
  <2>1. CASE UNCHANGED vars
    BY <2>1 DEF vars, sourceVars, waitVars, CollectorInv, TypeOK, Stamps, AnswersInTime, Ended,
                Waits, Gathered, LateIsLate, ReportIsTimely, NoneQueued, Deadline
  <2> QED BY <2>1, TickKeepsInv, WorkerKeepsInv, SubmitKeepsInv, WaitKeepsInv, ConcludeKeepsInv,
             CloseKeepsInv DEF Next, Collect
<1> QED BY InitCollectorInv, <1>1, PTL DEF Spec

(* Type correctness of the collector.                                        *)
THEOREM CollectorTypeCorrect == Spec => []TypeOK
  BY CollectorInvariant, PTL DEF CollectorInv

(* No source is called late that was done before its deadline, however many
   slower ones the collector waits for first (_collect_snapshot_v3_batches). *)
THEOREM TimelySourcesAreKept == Spec => []TimelyIsKept
<1>1. CollectorInv => TimelyIsKept
  <2> SUFFICES ASSUME CollectorInv, pc = "answered", NEW i \in Sources,
                      op[i] = "done", settledAt[i] < Deadline(i)
               PROVE  answer[i] = outcome[i]
    BY DEF TimelyIsKept
  <2>1. Deadline(i) \in Nat /\ settledAt[i] \in Nat
    BY DeadlineType DEF CollectorInv, TypeOK, Times
  <2>2. answer[i] \in {"batch", "error"}
    BY <2>1 DEF CollectorInv, TypeOK, Gathered, LateIsLate
  <2> QED BY <2>2 DEF CollectorInv, ReportIsTimely
<1> QED BY CollectorInvariant, <1>1, PTL

(* Nothing that was completed too late is reported, as data or as an error of
   its own (the check of completion_times).                                  *)
THEOREM ReportsAreTimely == Spec => []OnlyTimelyIsReported
<1>1. CollectorInv => OnlyTimelyIsReported
  <2> SUFFICES ASSUME CollectorInv, NEW i \in Sources, answer[i] \in {"batch", "error"}
               PROVE  /\ op[i] = "done" /\ answer[i] = outcome[i]
                      /\ finishedAt[i] <= submittedAt[i] + SourceTimeout
                      /\ finishedAt[i] <= Overall
    BY DEF OnlyTimelyIsReported
  <2>1. op[i] = "done" /\ answer[i] = outcome[i] /\ finishedAt[i] <= Deadline(i)
    BY DEF CollectorInv, ReportIsTimely
  <2>2. /\ Deadline(i) \in Nat /\ finishedAt[i] \in Nat /\ submittedAt[i] \in Nat
        /\ Deadline(i) <= submittedAt[i] + SourceTimeout /\ Deadline(i) <= Overall
    BY DeadlineType DEF CollectorInv, TypeOK, Times
  <2> QED BY <2>1, <2>2, CollectorAssumption
<1> QED BY CollectorInvariant, <1>1, PTL

(* The waits for any number of sources take one timeout together, plus what
   the collector itself lags behind.                                         *)
THEOREM WaitsDoNotAddUp == Spec => []AnswersInTime
  BY CollectorInvariant, PTL DEF CollectorInv

(* No operation of a request begins once the request has ended.              *)
THEOREM NothingIsBegunAfterwards == Spec => NothingStartsAfterwards
<1> DEFINE Quiet == \A i \in Sources : Ended => ~(op[i] # "running" /\ op'[i] = "running")
<1>1. CollectorInv /\ [Next]_vars => [Quiet]_vars
  <2> SUFFICES ASSUME CollectorInv, Next, NEW i \in Sources, Ended, op[i] # "running"
               PROVE  op'[i] # "running"
    BY DEF vars
  <2>1. op[i] # "queued"
    BY DEF CollectorInv, NoneQueued
  <2>2. CASE Tick
    BY <2>2 DEF Tick, sourceVars
  <2>3. CASE Collect
    BY <2>3 DEF Collect, BeginSubmit, Submit, SubmitRaises, Look, GiveUp, Wait, TimesOut, Take,
                Close, Ended
  <2>4. ASSUME NEW j \in Sources, Start(j) \/ Finish(j) \/ Settle(j)
        PROVE  op'[i] # "running"
    BY <2>1, <2>4 DEF Start, Finish, Settle, CollectorInv, TypeOK
  <2> QED BY <2>2, <2>3, <2>4 DEF Next
<1> QED BY CollectorInvariant, <1>1, PTL DEF Spec, NothingStartsAfterwards

-----------------------------------------------------------------------------
(* Least numbers                                                           *)

\* A set of naturals has a least member.
LEMMA LeastMember ==
  ASSUME NEW S \in SUBSET Nat, S # {}
  PROVE  \E m \in S : \A n \in S : m <= n
<1>1. IsWellFoundedOn(OpToRel(<, Nat), Nat)
  BY NatLessThanWellFounded
<1>2. PICK m \in S : \A n \in S : ~(<<n, m>> \in OpToRel(<, Nat))
  BY <1>1, WFMin
<1>3. \A n \in S : ~(n < m)
  BY <1>2 DEF OpToRel
<1> QED
  BY <1>3

LEMMA MinIsLeast ==
  ASSUME NEW S \in SUBSET Nat, S # {}
  PROVE  Min(S) \in S /\ Min(S) \in Nat /\ \A n \in S : Min(S) <= n
<1>1. \E m \in S : \A n \in S : m <= n
  BY LeastMember
<1>2. Min(S) \in S /\ \A n \in S : Min(S) <= n
  BY <1>1, Zenon DEF Min
<1> QED
  BY <1>2

\* What is least of a set is least of any part that has all its smaller members.
LEMMA MinOfPart ==
  ASSUME NEW S \in SUBSET Nat, NEW n \in Nat, \E i \in S : i <= n
  PROVE  Min({i \in S : i <= n}) = Min(S) /\ Min(S) <= n
<1> DEFINE part == {i \in S : i <= n}
<1>1. part \in SUBSET Nat /\ part # {} /\ S # {}
  OBVIOUS
<1>2. Min(S) \in S /\ Min(S) \in Nat /\ \A i \in S : Min(S) <= i
  BY <1>1, MinIsLeast
<1> HIDE DEF part
<1>3. Min(part) \in part /\ Min(part) \in Nat /\ \A i \in part : Min(part) <= i
  BY <1>1, MinIsLeast
<1>4. Min(S) <= n /\ Min(S) \in part
  BY <1>2 DEF part
<1>5. Min(part) \in S
  BY <1>3 DEF part
<1>6. Min(S) <= Min(part) /\ Min(part) <= Min(S)
  BY <1>2, <1>3, <1>4, <1>5
<1> QED
  BY <1>2, <1>3, <1>4, <1>6 DEF part

\* A bounded set of naturals has a greatest member.
LEMMA MaxIsGreatest ==
  ASSUME NEW n \in Nat, NEW S \in SUBSET (0 .. n), S # {}
  PROVE  Max(S) \in S /\ \A i \in S : i <= Max(S)
<1> DEFINE back == {n - i : i \in S}
<1>0. \A i \in S : i \in Int /\ n - i \in Nat
  OBVIOUS
<1>1. back \in SUBSET Nat /\ back # {}
  <2>1. PICK i \in S : TRUE
    OBVIOUS
  <2>2. n - i \in back
    OBVIOUS
  <2> QED
    BY <1>0, <2>2
<1>2. PICK m \in back : \A k \in back : m <= k
  <2> HIDE DEF back
  <2> QED
    BY <1>1, LeastMember
<1>3. PICK g \in S : m = n - g
  BY <1>2
<1>4. \A i \in S : n - i \in back
  OBVIOUS
<1>5. \A i \in S : i <= g
  <2> HIDE DEF back
  <2>1. \A i \in S : n - g <= n - i
    BY <1>2, <1>3, <1>4
  <2> QED
    BY <1>0, <2>1
<1>6. \E x \in S : \A y \in S : x >= y
  BY <1>3, <1>5
<1>7. Max(S) \in S /\ \A y \in S : Max(S) >= y
  BY <1>6, Zenon DEF Max
<1>8. \A i \in S : i \in Int
  OBVIOUS
<1> QED
  BY <1>7, <1>8

\* A property of 0 that each number passes on to the next up to n.
LEMMA UpTo ==
  ASSUME NEW n \in Nat, NEW Good \in SUBSET (0 .. n), 0 \in Good,
         \A i \in 1 .. n : i - 1 \in Good => i \in Good
  PROVE  Good = 0 .. n
<1> SUFFICES ASSUME Good # 0 .. n PROVE FALSE
  OBVIOUS
<1> DEFINE Gap == (0 .. n) \ Good
<1>1. Gap \in SUBSET Nat /\ Gap # {}
  <2>1. Gap \in SUBSET Nat
    OBVIOUS
  <2>2. Gap = {} => Good = 0 .. n
    BY Zenon
  <2> QED
    BY <2>1, <2>2
<1>2. PICK m \in Gap : \A k \in Gap : m <= k
  BY <1>1, LeastMember
<1>3. m \in 1 .. n /\ m - 1 \in 0 .. n
  BY <1>2
<1>4. m - 1 \in Good
  BY <1>2, <1>3
<1> QED
  BY <1>2, <1>3, <1>4

\* The same from a number other than 0.
LEMMA UpFrom ==
  ASSUME NEW k \in Nat, NEW n \in Nat, NEW Good \in SUBSET (k .. n), k \in Good,
         \A i \in k + 1 .. n : i - 1 \in Good => i \in Good
  PROVE  Good = k .. n
<1> DEFINE Shifted == {j \in 0 .. n - k : j + k \in Good}
<1>1. k <= n /\ n - k \in Nat
  OBVIOUS
<1>2. 0 \in Shifted /\ Shifted \in SUBSET (0 .. n - k)
  BY <1>1
<1>3. ASSUME NEW j \in 1 .. n - k, j - 1 \in Shifted
      PROVE  j \in Shifted
  <2>1. j + k \in k + 1 .. n /\ (j + k) - 1 = (j - 1) + k /\ j \in 0 .. n - k
    BY <1>1
  <2>2. (j + k) - 1 \in Good
    BY <1>3, <2>1
  <2> QED
    BY <2>1, <2>2
<1>4. Shifted = 0 .. n - k
  <2> HIDE DEF Shifted
  <2> QED
    BY <1>1, <1>2, <1>3, UpTo
<1>5. ASSUME NEW i \in k .. n
      PROVE  i \in Good
  <2>1. i - k \in 0 .. n - k /\ (i - k) + k = i
    OBVIOUS
  <2>2. (i - k) + k \in Good
    BY <1>4, <2>1
  <2> QED
    BY <2>1, <2>2
<1> QED
  BY <1>5

-----------------------------------------------------------------------------
(* One bar more                                                            *)

\* d is b and one bar more.
Longer(b, d) ==
  /\ b \in Seq(Bar) /\ d \in Seq(Bar) /\ Len(d) = Len(b) + 1
  /\ \A i \in 1 .. Len(b) : d[i] = b[i]

LEMMA AppendIsLonger ==
  ASSUME NEW b \in Seq(Bar), NEW x \in Bar
  PROVE  Longer(b, Append(b, x)) /\ Append(b, x)[Len(b) + 1] = x
BY DEF Longer

\* The extremes of a longer series, but for one at the last bar but one, are
\* those of the shorter.
LEMMA ExtremaStay ==
  ASSUME NEW b, NEW d, Longer(b, d), NEW side
  PROVE  /\ Extrema(side, d) \in SUBSET (2 .. Len(b))
         /\ Extrema(side, b) = {i \in Extrema(side, d) : i < Len(b)}
<1>1. Len(b) \in Nat /\ Len(d) = Len(b) + 1
  BY DEF Longer
<1>2. Extrema(side, d) \in SUBSET (2 .. Len(b))
  BY <1>1 DEF Extrema
<1>3. ASSUME NEW i \in 2 .. Len(b) - 1
      PROVE  i \in Extrema(side, b) <=> i \in Extrema(side, d)
  <2>1. i \in 1 .. Len(b) /\ i - 1 \in 1 .. Len(b) /\ i + 1 \in 1 .. Len(b)
        /\ i \in 2 .. Len(d) - 1
    BY <1>1
  <2>2. d[i] = b[i] /\ d[i - 1] = b[i - 1] /\ d[i + 1] = b[i + 1]
    BY <2>1 DEF Longer
  <2>3. \A j \in {i - 1, i + 1} : d[j] = b[j]
    BY <2>2
  <2> QED
    BY <2>1, <2>2, <2>3 DEF Extrema
<1>4. Extrema(side, b) \in SUBSET (2 .. Len(b) - 1)
  BY <1>1 DEF Extrema
<1>5. \A i \in 2 .. Len(b) : i < Len(b) <=> i \in 2 .. Len(b) - 1
  BY <1>1
<1> QED
  BY <1>2, <1>3, <1>4, <1>5

LEMMA BetweenStays ==
  ASSUME NEW b, NEW d, Longer(b, d), NEW side,
         NEW i \in 1 .. Len(b), NEW j \in 1 .. Len(b)
  PROVE  Between(side, d, i, j) = Between(side, b, i, j)
<1>1. \A k \in i + 1 .. j - 1 : d[k] = b[k]
  BY DEF Longer
<1>2. {Extreme(Opposite(side), d[k]) : k \in i + 1 .. j - 1}
        = {Extreme(Opposite(side), b[k]) : k \in i + 1 .. j - 1}
  BY <1>1, Zenon
<1> QED
  BY <1>2, Zenon DEF Between

-----------------------------------------------------------------------------
(* Candidates and what becomes of them                                     *)

\* A later bar may decide what was open, and changes nothing that was decided.
LEMMA DecisiveStays ==
  ASSUME NEW b, NEW d, Longer(b, d), NEW side, NEW c, Last(c) \in Nat
  PROVE  /\ Decisive(side, d, c) \in SUBSET Nat
         /\ \A i \in Decisive(side, d, c) : Last(c) < i
         /\ Decisive(side, b, c) = {i \in Decisive(side, d, c) : i <= Len(b)}
<1>1. Len(b) \in Nat /\ Len(d) = Len(b) + 1
  BY DEF Longer
<1>2. ASSUME NEW i \in Last(c) + 1 .. Len(b)
      PROVE  i \in Decisive(side, b, c) <=> i \in Decisive(side, d, c)
  <2>1. i \in Last(c) + 1 .. Len(d) /\ i \in 1 .. Len(b)
    BY <1>1
  <2>2. d[i] = b[i]
    BY <2>1 DEF Longer
  <2> QED
    BY <2>1, <2>2 DEF Decisive
<1>3. /\ Decisive(side, d, c) \in SUBSET (Last(c) + 1 .. Len(d))
      /\ Decisive(side, b, c) \in SUBSET (Last(c) + 1 .. Len(b))
  BY DEF Decisive
<1>4. \A i \in Last(c) + 1 .. Len(d) : i \in Nat /\ Last(c) < i
                                       /\ (i <= Len(b) <=> i \in Last(c) + 1 .. Len(b))
  BY <1>1
<1> QED
  BY <1>1, <1>2, <1>3, <1>4

LEMMA SignalFields ==
  ASSUME NEW kind, NEW side, NEW status, NEW place, NEW event, NEW level
  PROVE  /\ Signal(kind, side, status, place, event, level).status = status
         /\ Signal(kind, side, status, place, event, level).event = event
BY DEF Signal

LEMMA ResolutionFields ==
  ASSUME NEW kind, NEW side, NEW b, NEW c
  PROVE  /\ Resolution(kind, side, b, c).status # "forming"
         /\ Resolution(kind, side, b, c).event = Min(Decisive(side, b, c))
BY DEF Resolution, Signal

\* A decided candidate resolves as it did.
LEMMA ResolutionStays ==
  ASSUME NEW b, NEW d, Longer(b, d), NEW kind, NEW side, NEW c, Last(c) \in Nat,
         \E i \in Decisive(side, d, c) : i <= Len(b)
  PROVE  Resolution(kind, side, d, c) = Resolution(kind, side, b, c)
<1> DEFINE e == Min(Decisive(side, d, c))
<1>1. Len(b) \in Nat /\ Decisive(side, d, c) \in SUBSET Nat
      /\ Decisive(side, d, c) # {}
  BY DecisiveStays DEF Longer
<1>2. Min(Decisive(side, b, c)) = e /\ e <= Len(b)
  BY <1>1, DecisiveStays, MinOfPart
<1>3. e \in Nat /\ e \in Decisive(side, d, c) /\ Last(c) < e
  BY <1>1, MinIsLeast, DecisiveStays
<1>4. e \in 1 .. Len(b)
  BY <1>1, <1>2, <1>3
<1>5. d[e] = b[e]
  BY <1>4 DEF Longer
<1> HIDE DEF e
<1>6. Min(Decisive(side, d, c)) = e
  BY DEF e
<1> QED
  BY <1>2, <1>5, <1>6, Zenon DEF Resolution

\* What a detector says was resolved by the bars it had, if with one bar more it
\* has the candidates it had and those that end at the last of them.
LEMMA ReadingsStay ==
  ASSUME NEW b, NEW d, Longer(b, d), NEW kind, NEW side, NEW C, NEW D,
         C \subseteq D, \A c \in D : Last(c) \in Nat,
         \A c \in D \ C : Len(b) <= Last(c)
  PROVE  Resolved(Readings(kind, side, d, D), Len(b))
           = Resolved(Readings(kind, side, b, C), Len(b))
<1> DEFINE n == Len(b)
           openD == {c \in D : Decisive(side, d, c) = {}}
           openC == {c \in C : Decisive(side, b, c) = {}}
<1>0. n \in Nat
  BY DEF Longer
<1>1. ASSUME NEW s \in Resolved(Readings(kind, side, d, D), n)
      PROVE  s \in Resolved(Readings(kind, side, b, C), n)
  <2>1. s \in Readings(kind, side, d, D) /\ s.status # "forming" /\ s.event <= n
    BY DEF Resolved
  <2>2. PICK c \in D \ openD : s = Resolution(kind, side, d, c)
    BY <2>1, SignalFields DEF Readings
  <2>3. Min(Decisive(side, d, c)) <= n
    BY <2>1, <2>2, ResolutionFields
  <2>4. Decisive(side, d, c) # {} /\ Decisive(side, d, c) \in SUBSET Nat
    BY <2>2, DecisiveStays
  <2>5. \E i \in Decisive(side, d, c) : i <= n
    BY <2>3, <2>4, MinIsLeast
  <2>6. s = Resolution(kind, side, b, c)
    BY <2>2, <2>5, ResolutionStays
  <2>7. c \in C
    BY <1>0, <2>2, <2>5, DecisiveStays
  <2>8. c \notin openC
    BY <2>5, DecisiveStays
  <2>9. s \in Readings(kind, side, b, C)
    BY <2>6, <2>7, <2>8 DEF Readings
  <2> QED
    BY <2>1, <2>9 DEF Resolved
<1>2. ASSUME NEW s \in Resolved(Readings(kind, side, b, C), n)
      PROVE  s \in Resolved(Readings(kind, side, d, D), n)
  <2>1. s \in Readings(kind, side, b, C) /\ s.status # "forming" /\ s.event <= n
    BY DEF Resolved
  <2>2. PICK c \in C \ openC : s = Resolution(kind, side, b, c)
    BY <2>1, SignalFields DEF Readings
  <2>3. c \in D /\ Last(c) \in Nat
    BY <2>2
  <2>4. PICK i \in Decisive(side, b, c) : TRUE
    BY <2>2
  <2>5. i \in Decisive(side, d, c) /\ i <= n
    BY <2>3, <2>4, DecisiveStays
  <2>6. s = Resolution(kind, side, d, c) /\ c \notin openD
    BY <2>2, <2>3, <2>5, ResolutionStays
  <2>7. s \in Readings(kind, side, d, D)
    BY <2>3, <2>6 DEF Readings
  <2> QED
    BY <2>1, <2>7 DEF Resolved
<1> QED
  BY <1>1, <1>2

-----------------------------------------------------------------------------
(* Fractals                                                                *)

\* No fractal is found at a bar that was read.
LEMMA FractalsStay ==
  ASSUME NEW b, NEW d, Longer(b, d), NEW side
  PROVE  Resolved(Fractals(side, d), Len(b)) = Resolved(Fractals(side, b), Len(b))
<1> DEFINE n == Len(b)
           fractal(c, i) == Signal("fractal", side, "confirmed", <<i - 1, i, i + 1>>, i + 1,
                                   2 * Extreme(side, c[i]))
<1>0. n \in Nat
  BY DEF Longer
<1>1. \A i \in 2 .. n : d[i] = b[i]
  BY <1>0 DEF Longer
<1>2. \A i \in 2 .. n : /\ fractal(d, i) = fractal(b, i)
                         /\ fractal(b, i).status = "confirmed" /\ fractal(b, i).event = i + 1
  BY <1>1 DEF Signal
<1>3. \A i \in 2 .. n : i + 1 <= n <=> i < n
  BY <1>0
<1>4. Fractals(side, d) = {fractal(d, i) : i \in Extrema(side, d)}
      /\ Fractals(side, b) = {fractal(b, i) : i \in Extrema(side, b)}
  BY DEF Fractals
<1>5. /\ Extrema(side, d) \in SUBSET (2 .. n)
      /\ Extrema(side, b) = {i \in Extrema(side, d) : i < n}
  BY ExtremaStay
<1> HIDE DEF fractal, n
<1>6. Resolved(Fractals(side, d), n) = {fractal(d, i) : i \in {i \in Extrema(side, d) : i < n}}
  BY <1>2, <1>3, <1>4, <1>5 DEF Resolved
<1>7. Resolved(Fractals(side, b), n) = {fractal(b, i) : i \in Extrema(side, b)}
  BY <1>2, <1>3, <1>4, <1>5 DEF Resolved
<1>8. \A i \in Extrema(side, b) : fractal(d, i) = fractal(b, i)
  BY <1>2, <1>5
<1>9. {fractal(d, i) : i \in Extrema(side, b)} = {fractal(b, i) : i \in Extrema(side, b)}
  BY <1>8, Zenon
<1> QED
  BY <1>5, <1>6, <1>7, <1>9 DEF n

-----------------------------------------------------------------------------
(* Doubles                                                                 *)

LEMMA CandidateFields ==
  ASSUME NEW place, NEW neckline, NEW defend
  PROVE  Candidate(place, neckline, defend).at = place
BY DEF Candidate

\* The double that a second touch makes.
DoubleAt(side, b, second) ==
  LET first == Max(Partners(side, b, second))
  IN Candidate(<<first, second>>, 2 * Between(side, b, first, second), Extreme(side, b[second]))

SecondTouches(side, b) == {s \in Extrema(side, b) : Partners(side, b, s) # {}}

LEMMA DoublesAre ==
  ASSUME NEW b, NEW side, Len(b) \in Nat, Len(b) >= 7
  PROVE  Doubles(side, b)
           = Readings("double", side, b, {DoubleAt(side, b, s) : s \in SecondTouches(side, b)})
<1>1. ~(Len(b) < MinWindow.double)
  BY DEF MinWindow
<1> QED
  BY <1>1, Zenon DEF Doubles, DoubleAt, SecondTouches

LEMMA DoubleEndsAtTouch ==
  ASSUME NEW b, NEW side, NEW second
  PROVE  Last(DoubleAt(side, b, second)) = second
<1>1. DoubleAt(side, b, second).at = <<Max(Partners(side, b, second)), second>>
  BY CandidateFields DEF DoubleAt
<1> QED
  BY <1>1 DEF Last

LEMMA PartnersStay ==
  ASSUME NEW b, NEW d, Longer(b, d), NEW side, NEW second \in Extrema(side, b)
  PROVE  /\ Partners(side, d, second) = Partners(side, b, second)
         /\ Partners(side, b, second) \in SUBSET (0 .. Len(b))
         /\ second \in 1 .. Len(b)
<1> DEFINE alike(c, i) == /\ second - i >= 3
                          /\ Similar(Extreme(side, c[i]), Extreme(side, c[second]), DoubleTolerance)
<1>0. Len(b) \in Nat
  BY DEF Longer
<1>1. /\ Extrema(side, d) \in SUBSET (2 .. Len(b))
      /\ Extrema(side, b) = {i \in Extrema(side, d) : i < Len(b)}
  BY ExtremaStay
<1>2. second \in 1 .. Len(b) /\ second < Len(b)
  BY <1>0, <1>1
<1>3. \A i \in 1 .. Len(b) : d[i] = b[i]
  BY DEF Longer
<1>4. \A i \in Extrema(side, d) : i \in 1 .. Len(b) /\ (second - i >= 3 => i < Len(b))
  BY <1>0, <1>1, <1>2
<1>5. \A i \in Extrema(side, d) : alike(d, i) <=> alike(b, i)
  BY <1>2, <1>3, <1>4
<1>6. Partners(side, d, second) = {i \in Extrema(side, d) : alike(d, i)}
      /\ Partners(side, b, second) = {i \in Extrema(side, b) : alike(b, i)}
  BY DEF Partners
<1>7. \A i \in Extrema(side, d) : alike(d, i) => i < Len(b)
  BY <1>4
<1> HIDE DEF alike
<1>8. Partners(side, d, second) = Partners(side, b, second)
  BY <1>1, <1>5, <1>6, <1>7
<1>9. Partners(side, b, second) \in SUBSET (0 .. Len(b))
  BY <1>0, <1>1, <1>6
<1> QED
  BY <1>2, <1>8, <1>9

LEMMA DoubleStays ==
  ASSUME NEW b, NEW d, Longer(b, d), NEW side, NEW second \in SecondTouches(side, b)
  PROVE  DoubleAt(side, d, second) = DoubleAt(side, b, second)
<1> DEFINE first == Max(Partners(side, b, second))
<1>0. Len(b) \in Nat
  BY DEF Longer
<1>1. /\ Partners(side, d, second) = Partners(side, b, second)
      /\ Partners(side, b, second) \in SUBSET (0 .. Len(b))
      /\ Partners(side, b, second) # {} /\ second \in 1 .. Len(b)
  BY PartnersStay DEF SecondTouches
<1>2. first \in Partners(side, b, second)
  BY <1>0, <1>1, MaxIsGreatest
<1>3. first \in 1 .. Len(b)
  BY <1>0, <1>2 DEF Partners, Extrema
<1>4. Between(side, d, first, second) = Between(side, b, first, second)
  BY <1>1, <1>3, BetweenStays
<1>5. d[second] = b[second]
  BY <1>1 DEF Longer
<1> HIDE DEF first
<1>6. Max(Partners(side, d, second)) = first /\ Max(Partners(side, b, second)) = first
  BY <1>1 DEF first
<1> QED
  BY <1>4, <1>5, <1>6, Zenon DEF DoubleAt

LEMMA DoublesStay ==
  ASSUME NEW b, NEW d, Longer(b, d), Len(b) >= 7, NEW side
  PROVE  Resolved(Doubles(side, d), Len(b)) = Resolved(Doubles(side, b), Len(b))
<1> DEFINE C == {DoubleAt(side, b, s) : s \in SecondTouches(side, b)}
           D == {DoubleAt(side, d, s) : s \in SecondTouches(side, d)}
<1>0. Len(b) \in Nat /\ Len(d) = Len(b) + 1
  BY DEF Longer
<1>1. /\ Extrema(side, d) \in SUBSET (2 .. Len(b))
      /\ Extrema(side, b) = {i \in Extrema(side, d) : i < Len(b)}
  BY ExtremaStay
<1>2. \A s \in SecondTouches(side, b) : s \in SecondTouches(side, d)
  BY <1>1, PartnersStay DEF SecondTouches
<1>3. C \subseteq D
  BY <1>2, DoubleStays
<1>4. \A c \in D : Last(c) \in Nat
  BY <1>0, <1>1, DoubleEndsAtTouch DEF SecondTouches
<1>5. ASSUME NEW c \in D \ C PROVE Len(b) <= Last(c)
  <2>1. PICK s \in SecondTouches(side, d) : c = DoubleAt(side, d, s)
    BY <1>5
  <2>2. s \in 2 .. Len(b) /\ Last(c) = s
    BY <1>1, <2>1, DoubleEndsAtTouch DEF SecondTouches
  <2>3. SUFFICES ASSUME s < Len(b) PROVE FALSE
    BY <1>0, <2>2
  <2>4. s \in Extrema(side, b)
    BY <1>1, <2>1, <2>3 DEF SecondTouches
  <2>5. s \in SecondTouches(side, b)
    BY <2>1, <2>4, PartnersStay DEF SecondTouches
  <2> QED
    BY <1>5, <2>1, <2>5, DoubleStays
<1>6. Doubles(side, d) = Readings("double", side, d, D)
      /\ Doubles(side, b) = Readings("double", side, b, C)
  BY <1>0, DoublesAre
<1> HIDE DEF C, D
<1> QED
  BY <1>3, <1>4, <1>5, <1>6, ReadingsStay

-----------------------------------------------------------------------------
(* Head and shoulders                                                      *)

After(side, b, i) == {j \in Extrema(side, b) : j > i}

Following(side, b, i) == Min(After(side, b, i))

Starts(side, b) ==
  {i \in Extrema(side, b) :
     After(side, b, i) # {} /\ After(side, b, Following(side, b, i)) # {}}

TripleAt(side, b, i) ==
  <<i, Following(side, b, i), Following(side, b, Following(side, b, i))>>

LEMMA FollowingIsNext ==
  ASSUME NEW side, NEW b, Len(b) \in Nat, NEW i \in Nat, After(side, b, i) # {}
  PROVE  /\ Following(side, b, i) \in Extrema(side, b)
         /\ Following(side, b, i) \in Nat /\ i < Following(side, b, i)
         /\ \A j \in After(side, b, i) : Following(side, b, i) <= j
<1>1. After(side, b, i) \in SUBSET Nat
  BY DEF After, Extrema
<1>2. /\ Following(side, b, i) \in After(side, b, i) /\ Following(side, b, i) \in Nat
      /\ \A j \in After(side, b, i) : Following(side, b, i) <= j
  BY <1>1, MinIsLeast DEF Following
<1> QED
  BY <1>2 DEF After

\* There are two extremes to come if there is one, and one after it.
LEMMA TwoAfter ==
  ASSUME NEW side, NEW b, Len(b) \in Nat, NEW i \in Extrema(side, b)
  PROVE  Cardinality(After(side, b, i)) >= 2 <=> i \in Starts(side, b)
<1> DEFINE after == After(side, b, i)
           f == Following(side, b, i)
<1>1. i \in Nat
  BY DEF Extrema
<1>2. IsFiniteSet(after) /\ after \in SUBSET Nat
  <2>1. after \in SUBSET (2 .. Len(b) - 1)
    BY DEF After, Extrema
  <2>2. IsFiniteSet(2 .. Len(b) - 1)
    BY FS_Interval
  <2> QED
    BY <2>1, <2>2, FS_Subset
<1>3. Cardinality(after) \in Nat
  BY <1>2, FS_CardinalityType
<1>4. CASE after = {}
  BY <1>4, FS_EmptySet DEF Starts
<1>5. CASE after # {}
  <2>1. /\ f \in Extrema(side, b) /\ f \in Nat /\ i < f
        /\ \A j \in after : f <= j
    BY <1>1, <1>5, FollowingIsNext
  <2>2. f \in after
    BY <2>1 DEF After
  <2>3. CASE After(side, b, f) = {}
    <3>1. \A j \in after : j = f
      BY <1>2, <2>1, <2>3 DEF After
    <3>2. after = {f}
      BY <2>2, <3>1
    <3> HIDE DEF after, f
    <3>3. Cardinality(after) = 1
      BY <3>2, FS_Singleton
    <3> QED
      BY <2>3, <3>3 DEF Starts, after, f
  <2>4. CASE After(side, b, f) # {}
    <3>1. PICK g \in After(side, b, f) : TRUE
      BY <2>4
    <3>2. g \in after /\ g # f
      BY <1>1, <1>2, <2>1, <3>1 DEF After, Extrema
    <3> HIDE DEF after, f
    <3>3. after \ {f} # {} /\ IsFiniteSet(after \ {f})
      BY <1>2, <3>2, FS_RemoveElement
    <3>4. Cardinality(after \ {f}) = Cardinality(after) - 1
      BY <1>2, <2>2, FS_RemoveElement
    <3>5. Cardinality(after \ {f}) # 0 /\ Cardinality(after \ {f}) \in Nat
      BY <3>3, FS_EmptySet, FS_CardinalityType
    <3>6. Cardinality(after) >= 2
      BY <1>3, <3>4, <3>5
    <3>7. i \in Starts(side, b)
      BY <1>5, <2>4 DEF Starts, after, f
    <3> QED
      BY <3>6, <3>7 DEF after
  <2> QED
    BY <2>3, <2>4
<1> QED
  BY <1>4, <1>5

LEMMA TriplesAre ==
  ASSUME NEW side, NEW b, Len(b) \in Nat
  PROVE  Triples(side, b) = {TripleAt(side, b, i) : i \in Starts(side, b)}
<1>1. {i \in Extrema(side, b) : Cardinality(After(side, b, i)) >= 2} = Starts(side, b)
  BY TwoAfter DEF Starts
<1>2. Triples(side, b)
        = {TripleAt(side, b, i) :
             i \in {i \in Extrema(side, b) : Cardinality(After(side, b, i)) >= 2}}
  BY Zenon DEF Triples, TripleAt, Following, After
<1> QED
  BY <1>1, <1>2

\* The three extremes of a triple lie within the series, one after another.
LEMMA TripleInSeries ==
  ASSUME NEW side, NEW b, Len(b) \in Nat, NEW t \in Triples(side, b)
  PROVE  /\ t = <<t[1], t[2], t[3]>> /\ Len(t) = 3
         /\ t[1] \in 2 .. Len(b) - 1 /\ t[2] \in 2 .. Len(b) - 1 /\ t[3] \in 2 .. Len(b) - 1
         /\ t[1] < t[2] /\ t[2] < t[3]
<1>1. PICK i \in Starts(side, b) : t = TripleAt(side, b, i)
  BY TriplesAre
<1>2. /\ i \in Extrema(side, b) /\ i \in Nat /\ After(side, b, i) # {}
      /\ After(side, b, Following(side, b, i)) # {}
  BY <1>1 DEF Starts, Extrema
<1> DEFINE f == Following(side, b, i)
           g == Following(side, b, f)
<1>3. f \in Extrema(side, b) /\ f \in Nat /\ i < f
  BY <1>2, FollowingIsNext
<1>4. g \in Extrema(side, b) /\ g \in Nat /\ f < g
  BY <1>2, <1>3, FollowingIsNext
<1>5. t = <<i, f, g>>
  BY <1>1 DEF TripleAt
<1>6. Extrema(side, b) \in SUBSET (2 .. Len(b) - 1)
  BY DEF Extrema
<1> HIDE DEF f, g
<1> QED
  BY <1>2, <1>3, <1>4, <1>5, <1>6

\* Whoever is followed was followed by the same extreme before.
LEMMA FollowingStays ==
  ASSUME NEW b, NEW d, Longer(b, d), NEW side, NEW i \in Nat
  PROVE  /\ After(side, b, i) = {j \in After(side, d, i) : j < Len(b)}
         /\ After(side, b, i) # {} => Following(side, d, i) = Following(side, b, i)
<1>0. Len(b) \in Nat
  BY DEF Longer
<1>1. /\ Extrema(side, d) \in SUBSET (2 .. Len(b))
      /\ Extrema(side, b) = {j \in Extrema(side, d) : j < Len(b)}
  BY ExtremaStay
<1>2. After(side, b, i) = {j \in After(side, d, i) : j < Len(b)}
  BY <1>1 DEF After
<1>3. ASSUME After(side, b, i) # {}
      PROVE  Following(side, d, i) = Following(side, b, i)
  <2> DEFINE S == After(side, d, i)
  <2>1. S \in SUBSET Nat
    BY <1>1 DEF After
  <2>2. PICK k \in S : k < Len(b)
    BY <1>2, <1>3
  <2>3. \A j \in S : j < Len(b) <=> j <= Len(b) - 1
    BY <1>0, <2>1
  <2>4. Len(b) - 1 \in Nat
    BY <1>0, <2>1, <2>2
  <2>5. After(side, b, i) = {j \in S : j <= Len(b) - 1}
    BY <1>2, <2>3
  <2>6. \E j \in S : j <= Len(b) - 1
    BY <2>2, <2>3
  <2> HIDE DEF S
  <2>7. Min({j \in S : j <= Len(b) - 1}) = Min(S)
    BY <2>1, <2>4, <2>6, MinOfPart
  <2> QED
    BY <2>5, <2>7 DEF Following, S
<1> QED
  BY <1>2, <1>3

LEMMA TriplesStay ==
  ASSUME NEW b, NEW d, Longer(b, d), NEW side
  PROVE  Triples(side, b) = {t \in Triples(side, d) : t[3] < Len(b)}
<1>0. Len(b) \in Nat /\ Len(d) \in Nat
  BY DEF Longer
<1>1. /\ Extrema(side, d) \in SUBSET (2 .. Len(b))
      /\ Extrema(side, b) = {j \in Extrema(side, d) : j < Len(b)}
  BY ExtremaStay
<1>2. ASSUME NEW i \in Starts(side, b)
      PROVE  /\ i \in Starts(side, d) /\ TripleAt(side, d, i) = TripleAt(side, b, i)
             /\ TripleAt(side, b, i)[3] < Len(b)
  <2> DEFINE f == Following(side, b, i)
  <2>1. /\ i \in Extrema(side, b) /\ i \in Nat /\ i \in Extrema(side, d)
        /\ After(side, b, i) # {} /\ After(side, b, f) # {}
    BY <1>1 DEF Starts
  <2>2. f \in Nat
    BY <1>0, <2>1, FollowingIsNext
  <2>3. Following(side, d, i) = f /\ After(side, d, i) # {}
    BY <2>1, FollowingStays
  <2>4. Following(side, d, f) = Following(side, b, f) /\ After(side, d, f) # {}
    BY <2>1, <2>2, FollowingStays
  <2>5. Following(side, b, f) \in Extrema(side, b)
    BY <1>0, <2>1, <2>2, FollowingIsNext
  <2>6. Following(side, b, f) < Len(b)
    BY <1>1, <2>5
  <2> QED
    BY <2>1, <2>3, <2>4, <2>6 DEF Starts, TripleAt
<1>3. ASSUME NEW i \in Starts(side, d), TripleAt(side, d, i)[3] < Len(b)
      PROVE  i \in Starts(side, b)
  <2> DEFINE f == Following(side, d, i)
             g == Following(side, d, f)
  <2>1. /\ i \in Extrema(side, d) /\ i \in Nat
        /\ After(side, d, i) # {} /\ After(side, d, f) # {}
    BY <1>1 DEF Starts
  <2>2. f \in Nat /\ f \in Extrema(side, d) /\ i < f
    BY <1>0, <2>1, FollowingIsNext
  <2>3. g \in Nat /\ g \in Extrema(side, d) /\ f < g
    BY <1>0, <2>1, <2>2, FollowingIsNext
  <2>4. g < Len(b) /\ f < Len(b) /\ i < Len(b)
    BY <1>0, <1>3, <2>1, <2>2, <2>3 DEF TripleAt
  <2>5. f \in After(side, b, i) /\ g \in After(side, b, f) /\ i \in Extrema(side, b)
    BY <1>1, <2>1, <2>2, <2>3, <2>4 DEF After
  <2>6. f = Following(side, b, i)
    BY <2>1, <2>5, FollowingStays
  <2> QED
    BY <2>5, <2>6 DEF Starts
<1> QED
  BY <1>0, <1>2, <1>3, TriplesAre

Shapely(side, b, t) ==
  /\ t[1] + 1 < t[2] /\ t[2] + 1 < t[3]
  /\ Similar(Extreme(side, b[t[1]]), Extreme(side, b[t[3]]), ShoulderTolerance)
  /\ HeadClears(side, Extreme(side, b[t[2]]), Extreme(side, b[t[1]]), Extreme(side, b[t[3]]))

HeadAt(side, b, t) ==
  Candidate(t, Between(side, b, t[1], t[2]) + Between(side, b, t[2], t[3]),
            Extreme(side, b[t[2]]))

ShapelyTriples(side, b) == {t \in Triples(side, b) : Shapely(side, b, t)}

LEMMA HeadShouldersAre ==
  ASSUME NEW b, NEW side, Len(b) \in Nat, Len(b) >= 8
  PROVE  HeadShoulders(side, b)
           = Readings("head_shoulders", side, b,
                      {HeadAt(side, b, t) : t \in ShapelyTriples(side, b)})
<1>1. ~(Len(b) < MinWindow.head_shoulders)
  BY DEF MinWindow
<1> QED
  BY <1>1, Zenon DEF HeadShoulders, HeadAt, ShapelyTriples, Shapely

LEMMA HeadStays ==
  ASSUME NEW b, NEW d, Longer(b, d), NEW side, NEW t \in Triples(side, b)
  PROVE  /\ Shapely(side, d, t) <=> Shapely(side, b, t)
         /\ HeadAt(side, d, t) = HeadAt(side, b, t)
<1>0. Len(b) \in Nat
  BY DEF Longer
<1>1. t[1] \in 1 .. Len(b) /\ t[2] \in 1 .. Len(b) /\ t[3] \in 1 .. Len(b)
  BY <1>0, TripleInSeries
<1>2. d[t[1]] = b[t[1]] /\ d[t[2]] = b[t[2]] /\ d[t[3]] = b[t[3]]
  BY <1>1 DEF Longer
<1>3. /\ Between(side, d, t[1], t[2]) = Between(side, b, t[1], t[2])
      /\ Between(side, d, t[2], t[3]) = Between(side, b, t[2], t[3])
  BY <1>1, BetweenStays
<1>4. Shapely(side, d, t) <=> Shapely(side, b, t)
  BY <1>2, Zenon DEF Shapely
<1>5. HeadAt(side, d, t) = HeadAt(side, b, t)
  BY <1>2, <1>3, Zenon DEF HeadAt
<1> QED
  BY <1>4, <1>5

LEMMA HeadShouldersStay ==
  ASSUME NEW b, NEW d, Longer(b, d), Len(b) >= 8, NEW side
  PROVE  Resolved(HeadShoulders(side, d), Len(b)) = Resolved(HeadShoulders(side, b), Len(b))
<1> DEFINE C == {HeadAt(side, b, t) : t \in ShapelyTriples(side, b)}
           D == {HeadAt(side, d, t) : t \in ShapelyTriples(side, d)}
<1>0. Len(b) \in Nat /\ Len(d) \in Nat /\ Len(d) = Len(b) + 1
  BY DEF Longer
<1>1. Triples(side, b) = {t \in Triples(side, d) : t[3] < Len(b)}
  BY TriplesStay
<1>2. \A t \in ShapelyTriples(side, b) : t \in ShapelyTriples(side, d)
                                         /\ HeadAt(side, d, t) = HeadAt(side, b, t)
  BY <1>1, HeadStays DEF ShapelyTriples
<1>3. C \subseteq D
  BY <1>2
<1>4. \A t \in Triples(side, d) : Last(HeadAt(side, d, t)) = t[3] /\ t[3] \in 2 .. Len(b)
  BY <1>0, TripleInSeries, CandidateFields DEF Last, HeadAt
<1>5. \A c \in D : Last(c) \in Nat
  BY <1>0, <1>4 DEF ShapelyTriples
<1>6. ASSUME NEW c \in D \ C PROVE Len(b) <= Last(c)
  <2>1. PICK t \in ShapelyTriples(side, d) : c = HeadAt(side, d, t)
    BY <1>6
  <2>2. t \in Triples(side, d) /\ Shapely(side, d, t) /\ Last(c) = t[3] /\ t[3] \in 2 .. Len(b)
    BY <1>4, <2>1 DEF ShapelyTriples
  <2>3. SUFFICES ASSUME t[3] < Len(b) PROVE FALSE
    BY <1>0, <2>2
  <2>4. t \in Triples(side, b)
    BY <1>1, <2>2, <2>3
  <2>5. t \in ShapelyTriples(side, b)
    BY <2>2, <2>4, HeadStays DEF ShapelyTriples
  <2> QED
    BY <1>2, <1>6, <2>1, <2>5
<1>7. HeadShoulders(side, d) = Readings("head_shoulders", side, d, D)
      /\ HeadShoulders(side, b) = Readings("head_shoulders", side, b, C)
  BY <1>0, HeadShouldersAre
<1> HIDE DEF C, D
<1> QED
  BY <1>3, <1>5, <1>6, <1>7, ReadingsStay

-----------------------------------------------------------------------------
(* Pullbacks                                                               *)

PullSignal(status, touch, event) ==
  Signal("ma5_pullback", "bottom", status,
         IF touch = event THEN <<touch>> ELSE <<touch, event>>, event, NoLevel)

\* What one more bar makes of the pullbacks found so far.
PullStep(b, i, was) ==
  LET closed(status) ==
        [open |-> 0, found |-> was.found \cup {PullSignal(status, was.open, i)}]
  IN CASE was.open # 0 /\ Bounces(b, i) -> closed("confirmed")
       [] was.open # 0 /\ ~Bounces(b, i) /\ Breaks(b, i) -> closed("invalidated")
       [] OTHER -> IF Touches(b, i) THEN [was EXCEPT !.open = i] ELSE was

NoPull == [open |-> 0, found |-> {}]

IsPull(b, walk, n) ==
  /\ walk = [i \in 4 .. n |-> walk[i]]
  /\ walk[4] = NoPull
  /\ \A i \in 5 .. n : walk[i] = PullStep(b, i, walk[i - 1])

\* The pass of the pullback detector over a series is a function there is.
LEMMA PullExists ==
  ASSUME NEW b, Len(b) \in Nat, Len(b) >= 4
  PROVE  \E walk : IsPull(b, walk, Len(b))
<1> DEFINE Good == {n \in 4 .. Len(b) : \E walk : IsPull(b, walk, n)}
<1>1. 4 \in Good
  <2>1. IsPull(b, [i \in 4 .. 4 |-> NoPull], 4)
    BY DEF IsPull
  <2>2. 4 \in 4 .. Len(b)
    OBVIOUS
  <2> QED
    BY <2>1, <2>2
<1>2. ASSUME NEW n \in 5 .. Len(b), n - 1 \in Good PROVE n \in Good
  <2>1. PICK walk : IsPull(b, walk, n - 1)
    BY <1>2
  <2> DEFINE longer == [i \in 4 .. n |-> IF i < n THEN walk[i] ELSE PullStep(b, n, walk[n - 1])]
  <2>2. longer = [i \in 4 .. n |-> longer[i]]
    OBVIOUS
  <2>3. longer[4] = NoPull
    BY <2>1 DEF IsPull
  <2>4. \A i \in 4 .. n : i < n => longer[i] = walk[i]
    OBVIOUS
  <2>5. longer[n] = PullStep(b, n, walk[n - 1])
    OBVIOUS
  <2> HIDE DEF longer
  <2>6. ASSUME NEW i \in 5 .. n
        PROVE  longer[i] = PullStep(b, i, longer[i - 1])
    <3>1. i - 1 \in 4 .. n /\ i - 1 < n
      OBVIOUS
    <3>2. longer[i - 1] = walk[i - 1]
      BY <2>4, <3>1
    <3>3. CASE i = n
      BY <2>5, <3>2, <3>3
    <3>4. CASE i # n
      <4>1. i \in 5 .. n - 1 /\ i \in 4 .. n /\ i < n
        BY <3>4
      <4>2. walk[i] = PullStep(b, i, walk[i - 1])
        BY <2>1, <4>1 DEF IsPull
      <4> QED
        BY <2>4, <3>2, <4>1, <4>2
    <3> QED
      BY <3>3, <3>4
  <2>7. IsPull(b, longer, n)
    BY <2>2, <2>3, <2>6 DEF IsPull
  <2>8. n \in 4 .. Len(b)
    OBVIOUS
  <2> QED
    BY <2>7, <2>8
<1>3. Good = 4 .. Len(b)
  <2> HIDE DEF Good
  <2>1. Good \in SUBSET (4 .. Len(b))
    BY DEF Good
  <2> QED
    BY <1>1, <1>2, <2>1, UpFrom
<1>4. Len(b) \in Good
  BY <1>3
<1> QED
  BY <1>4

\* What Pullbacks gives is read off the end of that pass.
LEMMA PullbacksAreWalked ==
  ASSUME NEW b, Len(b) \in Nat, Len(b) >= 8
  PROVE  \E walk : /\ IsPull(b, walk, Len(b))
                   /\ Pullbacks(b)
                        = walk[Len(b)].found
                            \cup (IF walk[Len(b)].open = 0 THEN {}
                                  ELSE {PullSignal("forming", walk[Len(b)].open, Len(b))})
<1> DEFINE Walked(w) ==
             [i \in 4 .. Len(b) |-> IF i = 4 THEN NoPull ELSE PullStep(b, i, w[i - 1])]
           walk == CHOOSE w : w = Walked(w)
<1>1. PICK w : IsPull(b, w, Len(b))
  BY PullExists
<1>2. w = Walked(w)
  <2>1. w = [i \in 4 .. Len(b) |-> w[i]]
    BY <1>1 DEF IsPull
  <2>2. \A i \in 4 .. Len(b) : w[i] = IF i = 4 THEN NoPull ELSE PullStep(b, i, w[i - 1])
    <3>1. \A i \in 4 .. Len(b) : i = 4 \/ i \in 5 .. Len(b)
      OBVIOUS
    <3> QED
      BY <1>1, <3>1 DEF IsPull
  <2> QED
    BY <2>1, <2>2
<1>3. walk = Walked(walk)
  <2> HIDE DEF Walked
  <2> QED
    BY <1>2
<1>4. Pullbacks(b)
        = walk[Len(b)].found
            \cup (IF walk[Len(b)].open = 0 THEN {}
                  ELSE {PullSignal("forming", walk[Len(b)].open, Len(b))})
  <2>1. ~(Len(b) < MinWindow.ma5_pullback)
    BY DEF MinWindow
  <2> QED
    BY <2>1, Zenon DEF Pullbacks, PullStep, PullSignal, NoPull
<1>5. IsPull(b, walk, Len(b))
  <2> HIDE DEF walk
  <2>1. walk = [i \in 4 .. Len(b) |-> walk[i]]
    BY <1>3
  <2>2. \A i \in 4 .. Len(b) : walk[i] = IF i = 4 THEN NoPull ELSE PullStep(b, i, walk[i - 1])
    BY <1>3
  <2>3. 4 \in 4 .. Len(b) /\ \A i \in 5 .. Len(b) : i \in 4 .. Len(b) /\ i # 4
    OBVIOUS
  <2> QED
    BY <2>1, <2>2, <2>3 DEF IsPull
<1> QED
  BY <1>4, <1>5

\* A bar is a touch, a bounce or a break by the bars up to it.
LEMMA PullStepStays ==
  ASSUME NEW b, NEW d, Longer(b, d), NEW i \in 5 .. Len(b), NEW was
  PROVE  PullStep(d, i, was) = PullStep(b, i, was)
<1>0. Len(b) \in Nat
  BY DEF Longer
<1>1. \A j \in 1 .. Len(b) : d[j] = b[j]
  BY DEF Longer
<1>2. \A j \in 5 .. Len(b) : Ma5(d, j) = Ma5(b, j)
  <2> TAKE j \in 5 .. Len(b)
  <2>1. /\ j \in 1 .. Len(b) /\ j - 1 \in 1 .. Len(b) /\ j - 2 \in 1 .. Len(b)
        /\ j - 3 \in 1 .. Len(b) /\ j - 4 \in 1 .. Len(b)
    BY <1>0
  <2> QED
    BY <1>1, <2>1 DEF Ma5
<1>3. Rising(d, i) <=> Rising(b, i)
  <2>1. CASE i - 3 >= 5
    <3>1. i - 3 \in 5 .. Len(b)
      BY <1>0, <2>1
    <3> QED
      BY <1>2, <3>1 DEF Rising
  <2>2. CASE ~(i - 3 >= 5)
    BY <2>2 DEF Rising
  <2> QED
    BY <2>1, <2>2
<1>4. i \in 1 .. Len(b) /\ i - 1 \in 1 .. Len(b)
  BY <1>0
<1>5. d[i] = b[i] /\ d[i - 1] = b[i - 1] /\ Ma5(d, i) = Ma5(b, i)
  BY <1>1, <1>2, <1>4
<1>6. Touches(d, i) <=> Touches(b, i)
  <2> DEFINE gap(c) == Max({5 * c[i].close - Ma5(c, i), Ma5(c, i) - 5 * c[i].close})
             near(c) == 1000 * gap(c) <= NearTolerance * Ma5(c, i)
  <2>1. /\ Touches(d, i) <=> Rising(d, i) /\ near(d) /\ d[i].close < d[i - 1].close
        /\ Touches(b, i) <=> Rising(b, i) /\ near(b) /\ b[i].close < b[i - 1].close
    BY DEF Touches
  <2>2. gap(d) = gap(b)
    BY <1>5, Zenon
  <2>3. near(d) <=> near(b)
    <3> HIDE DEF gap
    <3> QED
      BY <1>5, <2>2
  <2> HIDE DEF near
  <2> QED
    BY <1>3, <1>5, <2>1, <2>3
<1>7. Bounces(d, i) <=> Bounces(b, i)
  BY <1>3, <1>5, Zenon DEF Bounces
<1>8. Breaks(d, i) <=> Breaks(b, i)
  BY <1>5 DEF Breaks, BreakTolerance
<1> QED
  BY <1>6, <1>7, <1>8 DEF PullStep

\* One more bar closes a pullback at itself, or finds none.
LEMMA PullStepFinds ==
  ASSUME NEW b, NEW i, NEW was
  PROVE  /\ was.found \subseteq PullStep(b, i, was).found
         /\ \A s \in PullStep(b, i, was).found \ was.found : s.event = i
<1>1. CASE was.open # 0 /\ Bounces(b, i)
  <2>1. PullStep(b, i, was).found = was.found \cup {PullSignal("confirmed", was.open, i)}
    BY <1>1 DEF PullStep
  <2>2. \A s \in {PullSignal("confirmed", was.open, i)} : s.event = i
    BY SignalFields DEF PullSignal
  <2> QED
    BY <2>1, <2>2
<1>2. CASE was.open # 0 /\ ~Bounces(b, i) /\ Breaks(b, i)
  <2>1. PullStep(b, i, was).found = was.found \cup {PullSignal("invalidated", was.open, i)}
    BY <1>2 DEF PullStep
  <2>2. \A s \in {PullSignal("invalidated", was.open, i)} : s.event = i
    BY SignalFields DEF PullSignal
  <2> QED
    BY <2>1, <2>2
<1>3. CASE /\ ~(was.open # 0 /\ Bounces(b, i))
           /\ ~(was.open # 0 /\ ~Bounces(b, i) /\ Breaks(b, i))
  <2>1. PullStep(b, i, was) = IF Touches(b, i) THEN [was EXCEPT !.open = i] ELSE was
    BY <1>3 DEF PullStep
  <2>2. PullStep(b, i, was).found = was.found
    BY <2>1
  <2> QED
    BY <2>2
<1> QED
  BY <1>1, <1>2, <1>3

LEMMA PullbacksStay ==
  ASSUME NEW b, NEW d, Longer(b, d), Len(b) >= 8
  PROVE  Resolved(Pullbacks(d), Len(b)) = Resolved(Pullbacks(b), Len(b))
<1> DEFINE n == Len(b)
<1>0. n \in Nat /\ Len(d) = n + 1 /\ Len(d) \in Nat /\ Len(d) >= 8
  BY DEF Longer
<1>1. PICK w : /\ IsPull(b, w, n)
               /\ Pullbacks(b) = w[n].found \cup (IF w[n].open = 0 THEN {}
                                                  ELSE {PullSignal("forming", w[n].open, n)})
  BY <1>0, PullbacksAreWalked
<1>2. PICK v : /\ IsPull(d, v, n + 1)
               /\ Pullbacks(d)
                    = v[n + 1].found \cup (IF v[n + 1].open = 0 THEN {}
                                           ELSE {PullSignal("forming", v[n + 1].open, n + 1)})
  BY <1>0, PullbacksAreWalked
<1>3. v[n] = w[n]
  <2> DEFINE Good == {i \in 4 .. n : v[i] = w[i]}
  <2>1. 4 \in Good
    BY <1>0, <1>1, <1>2 DEF IsPull
  <2>2. ASSUME NEW i \in 5 .. n, i - 1 \in Good PROVE i \in Good
    <3>1. i \in 4 .. n /\ i \in 5 .. n + 1 /\ v[i - 1] = w[i - 1]
      BY <1>0, <2>2
    <3>2. v[i] = PullStep(d, i, v[i - 1]) /\ w[i] = PullStep(b, i, w[i - 1])
      BY <1>1, <1>2, <3>1 DEF IsPull
    <3> QED
      BY <3>1, <3>2, PullStepStays
  <2>3. Good \in SUBSET (4 .. n)
    OBVIOUS
  <2>4. Good = 4 .. n
    <3> HIDE DEF Good
    <3> QED
      BY <1>0, <2>1, <2>2, <2>3, UpFrom
  <2> QED
    BY <1>0, <2>4
<1>4. v[n + 1] = PullStep(d, n + 1, w[n])
  <2>1. n + 1 \in 5 .. n + 1 /\ (n + 1) - 1 = n
    BY <1>0
  <2> QED
    BY <1>2, <1>3, <2>1 DEF IsPull
<1>5. /\ w[n].found \subseteq v[n + 1].found
      /\ \A s \in v[n + 1].found \ w[n].found : s.event = n + 1
  BY <1>4, PullStepFinds
<1>6. Resolved(Pullbacks(b), n) = Resolved(w[n].found, n)
  <2>1. \A s \in Pullbacks(b) \ w[n].found : s.status = "forming"
    BY <1>1, SignalFields DEF PullSignal
  <2>2. w[n].found \subseteq Pullbacks(b)
    BY <1>1
  <2> QED
    BY <2>1, <2>2 DEF Resolved
<1>7. Resolved(Pullbacks(d), n) = Resolved(w[n].found, n)
  <2>1. \A s \in Pullbacks(d) \ w[n].found : s.status = "forming" \/ s.event = n + 1
    BY <1>2, <1>5, SignalFields DEF PullSignal
  <2>2. w[n].found \subseteq Pullbacks(d)
    BY <1>2, <1>5
  <2> QED
    BY <1>0, <2>1, <2>2 DEF Resolved
<1> QED
  BY <1>6, <1>7

-----------------------------------------------------------------------------
(* The pass of the sequential counter                                      *)

Warm(i) == [side |-> "none", streak |-> 0, runs |-> {}, drawn |-> [j \in 1 .. i |-> NoCount]]

\* What the counter has at bar i, if at the bar before it had what `was' says.
SetupStep(b, i, was) ==
  LET side == Counts(b, i)
      streak == IF side = was.side THEN was.streak + 1 ELSE 1
      nine == streak = SetupLength
      run == [side |-> side, event |-> i, perfected |-> Perfected(b, side, i)]
  IN IF side = "none"
     THEN [was EXCEPT !.side = "none", !.streak = 0, !.drawn = Append(@, NoCount)]
     ELSE [side |-> IF nine THEN "none" ELSE side,
           streak |-> IF nine THEN 0 ELSE streak,
           runs |-> was.runs \cup {x \in {run} : nine},
           drawn |-> Append(was.drawn, Count(side, streak, nine))]

SetupAt(b, i, was) == IF i <= Lookback THEN Warm(i) ELSE SetupStep(b, i, was)

IsSetup(b, walk, n) ==
  /\ walk = [i \in 0 .. n |-> walk[i]]
  /\ \A i \in 0 .. n : walk[i] = SetupAt(b, i, walk[i - 1])

SetupOf(n, end) ==
  LET ending == {r \in end.runs : r.event = n}
  IN [runs |-> end.runs, drawn |-> end.drawn,
      latest |-> CASE ending # {} -> Count((CHOOSE r \in ending : TRUE).side, SetupLength, TRUE)
                   [] ending = {} /\ end.streak > 0 -> Count(end.side, end.streak, FALSE)
                   [] OTHER -> NoCount]

\* The pass of the counter over a series is a function there is.
LEMMA SetupExists ==
  ASSUME NEW b, Len(b) \in Nat
  PROVE  \E walk : IsSetup(b, walk, Len(b))
<1> DEFINE Good == {n \in 0 .. Len(b) : \E walk : IsSetup(b, walk, n)}
<1>1. 0 \in Good
  <2>1. IsSetup(b, [i \in 0 .. 0 |-> Warm(0)], 0)
    BY DEF IsSetup, SetupAt, Lookback
  <2>2. 0 \in 0 .. Len(b)
    OBVIOUS
  <2> QED
    BY <2>1, <2>2
<1>2. ASSUME NEW n \in 1 .. Len(b), n - 1 \in Good PROVE n \in Good
  <2>1. PICK walk : IsSetup(b, walk, n - 1)
    BY <1>2
  <2> DEFINE longer == [i \in 0 .. n |-> IF i < n THEN walk[i] ELSE SetupAt(b, n, walk[n - 1])]
  <2>2. longer = [i \in 0 .. n |-> longer[i]]
    OBVIOUS
  <2>4. \A i \in 0 .. n : i < n => longer[i] = walk[i]
    OBVIOUS
  <2>5. longer[n] = SetupAt(b, n, walk[n - 1])
    OBVIOUS
  <2> HIDE DEF longer
  <2>6. ASSUME NEW i \in 0 .. n
        PROVE  longer[i] = SetupAt(b, i, longer[i - 1])
    <3>1. CASE i = 0
      <4>1. 0 \in 0 .. n - 1 /\ 0 \in 0 .. n /\ 0 < n
        OBVIOUS
      <4>2. walk[0] = SetupAt(b, 0, walk[0 - 1])
        BY <2>1, <4>1 DEF IsSetup
      <4>3. longer[0] = walk[0]
        BY <2>4, <4>1
      <4>4. SetupAt(b, 0, walk[0 - 1]) = Warm(0) /\ SetupAt(b, 0, longer[0 - 1]) = Warm(0)
        BY DEF SetupAt, Lookback
      <4> QED
        BY <3>1, <4>2, <4>3, <4>4
    <3>2. CASE i # 0
      <4>1. i - 1 \in 0 .. n /\ i - 1 < n
        BY <3>2
      <4>2. longer[i - 1] = walk[i - 1]
        BY <2>4, <4>1
      <4>3. CASE i = n
        BY <2>5, <4>2, <4>3
      <4>4. CASE i # n
        <5>1. i \in 0 .. n - 1 /\ i < n
          BY <4>4
        <5>2. walk[i] = SetupAt(b, i, walk[i - 1])
          BY <2>1, <5>1 DEF IsSetup
        <5> QED
          BY <2>4, <4>2, <5>1, <5>2
      <4> QED
        BY <4>3, <4>4
    <3> QED
      BY <3>1, <3>2
  <2>7. IsSetup(b, longer, n)
    BY <2>2, <2>6 DEF IsSetup
  <2>8. n \in 0 .. Len(b)
    OBVIOUS
  <2> QED
    BY <2>7, <2>8
<1>3. Good = 0 .. Len(b)
  <2> HIDE DEF Good
  <2>1. Good \in SUBSET (0 .. Len(b))
    BY DEF Good
  <2> QED
    BY <1>1, <1>2, <2>1, UpTo
<1>4. Len(b) \in Good
  BY <1>3
<1> QED
  BY <1>4

\* What TDSetup gives is read off the end of that pass.
LEMMA SetupIsWalked ==
  ASSUME NEW b, Len(b) \in Nat
  PROVE  \E walk : /\ IsSetup(b, walk, Len(b))
                   /\ TDSetup(b) = SetupOf(Len(b), walk[Len(b)])
<1> DEFINE Walked(w) == [i \in 0 .. Len(b) |-> SetupAt(b, i, w[i - 1])]
           walk == CHOOSE w : w = Walked(w)
<1>1. PICK w : IsSetup(b, w, Len(b))
  BY SetupExists
<1>2. w = Walked(w)
  BY <1>1 DEF IsSetup
<1>3. walk = Walked(walk)
  <2> HIDE DEF Walked
  <2> QED
    BY <1>2
<1>4. TDSetup(b) = SetupOf(Len(b), walk[Len(b)])
  BY Zenon DEF TDSetup, SetupOf, SetupAt, SetupStep, Warm
<1>5. IsSetup(b, walk, Len(b))
  <2> HIDE DEF walk
  <2>1. walk = [i \in 0 .. Len(b) |-> walk[i]]
    BY <1>3
  <2>2. \A i \in 0 .. Len(b) : walk[i] = SetupAt(b, i, walk[i - 1])
    BY <1>3
  <2> QED
    BY <2>1, <2>2 DEF IsSetup
<1> QED
  BY <1>4, <1>5

\* The bars a count looks at are among those there are.
LEMMA SetupStepStays ==
  ASSUME NEW b, NEW d, Longer(b, d), NEW i \in 0 .. Len(b), NEW was
  PROVE  SetupAt(d, i, was) = SetupAt(b, i, was)
<1>0. Len(b) \in Nat
  BY DEF Longer
<1>1. CASE i <= Lookback
  BY <1>1 DEF SetupAt
<1>2. CASE ~(i <= Lookback)
  <2>1. /\ i \in 1 .. Len(b) /\ i - 4 \in 1 .. Len(b) /\ i - 1 \in 1 .. Len(b)
        /\ i - 2 \in 1 .. Len(b) /\ (i - 2) - 1 \in 1 .. Len(b)
    BY <1>0, <1>2 DEF Lookback
  <2>2. /\ d[i] = b[i] /\ d[i - Lookback] = b[i - Lookback] /\ d[i - 1] = b[i - 1]
        /\ d[i - 2] = b[i - 2] /\ d[(i - 2) - 1] = b[(i - 2) - 1]
    BY <2>1 DEF Longer, Lookback
  <2>3. Counts(d, i) = Counts(b, i)
    BY <2>2, Zenon DEF Counts
  <2>4. \A side : Perfected(d, side, i) = Perfected(b, side, i)
    BY <2>2, Zenon DEF Perfected
  <2>5. SetupStep(d, i, was) = SetupStep(b, i, was)
    BY <2>3, <2>4, Zenon DEF SetupStep
  <2> QED
    BY <1>2, <2>5 DEF SetupAt
<1> QED
  BY <1>1, <1>2

\* A pass over one more bar is the pass there was, and that bar.
LEMMA SetupsAgree ==
  ASSUME NEW b, NEW d, Longer(b, d), NEW w, IsSetup(b, w, Len(b)),
         NEW v, IsSetup(d, v, Len(b) + 1)
  PROVE  v[Len(b)] = w[Len(b)]
<1> DEFINE n == Len(b)
           Good == {i \in 0 .. n : v[i] = w[i]}
<1>0. n \in Nat
  BY DEF Longer
<1>1. 0 \in Good
  <2>1. 0 \in 0 .. n /\ 0 \in 0 .. n + 1
    BY <1>0
  <2>2. v[0] = SetupAt(d, 0, v[0 - 1]) /\ w[0] = SetupAt(b, 0, w[0 - 1])
    BY <2>1 DEF IsSetup
  <2> QED
    BY <2>1, <2>2 DEF SetupAt, Lookback
<1>2. ASSUME NEW i \in 1 .. n, i - 1 \in Good PROVE i \in Good
  <2>1. i \in 0 .. n /\ i \in 0 .. n + 1 /\ v[i - 1] = w[i - 1]
    BY <1>0, <1>2
  <2>2. v[i] = SetupAt(d, i, v[i - 1]) /\ w[i] = SetupAt(b, i, w[i - 1])
    BY <2>1 DEF IsSetup
  <2> QED
    BY <2>1, <2>2, SetupStepStays
<1>3. Good \in SUBSET (0 .. n)
  OBVIOUS
<1>4. Good = 0 .. n
  <2> HIDE DEF Good
  <2> QED
    BY <1>0, <1>1, <1>2, <1>3, UpTo
<1> QED
  BY <1>0, <1>4

-----------------------------------------------------------------------------
(* The run of a count                                                      *)

\* The bars up to bar i since which every close counts towards one side.
Run(b, i) ==
  LET others == {j \in Lookback + 1 .. i : Counts(b, j) # Counts(b, i)}
  IN i - (IF others = {} THEN Lookback ELSE Max(others))

LEMMA StreakIsRun == ASSUME NEW b PROVE Streak(b) = Run(b, Len(b))
BY Zenon DEF Streak, Run

LEMMA CountsTowards ==
  ASSUME NEW b, NEW i
  PROVE  Counts(b, i) \in Sides \cup {"none"}
<1>1. CASE b[i].close < b[i - Lookback].close
  BY <1>1 DEF Counts, Sides
<1>2. CASE ~(b[i].close < b[i - Lookback].close)
  <2>1. CASE b[i].close > b[i - Lookback].close
    BY <1>2, <2>1 DEF Counts, Sides
  <2>2. CASE ~(b[i].close > b[i - Lookback].close)
    BY <1>2, <2>2 DEF Counts, Sides
  <2> QED
    BY <2>1, <2>2
<1> QED
  BY <1>1, <1>2

\* A run begins with the first close that counts, or counts otherwise, and
\* goes on for as long as they count alike.
LEMMA RunGoesOn ==
  ASSUME NEW b, NEW i \in Nat, i > 4
  PROVE  /\ Run(b, i) \in Nat /\ Run(b, i) >= 1
         /\ i = 5 \/ Counts(b, i) # Counts(b, i - 1) => Run(b, i) = 1
         /\ i > 5 /\ Counts(b, i) = Counts(b, i - 1) => Run(b, i) = Run(b, i - 1) + 1
<1> DEFINE others(k) == {j \in 5 .. k : Counts(b, j) # Counts(b, k)}
<1>0. \A k : Run(b, k) = k - (IF others(k) = {} THEN 4 ELSE Max(others(k)))
  BY DEF Run, Lookback
<1>1. others(i) \in SUBSET (0 .. i) /\ i \notin others(i) /\ \A j \in others(i) : j >= 5
  OBVIOUS
<1>2. others(i) # {} => /\ Max(others(i)) \in others(i)
                        /\ \A j \in others(i) : j <= Max(others(i))
  <2> HIDE DEF others
  <2> QED
    BY <1>1, MaxIsGreatest
<1>3. Run(b, i) \in Nat /\ Run(b, i) >= 1
  <2>1. CASE others(i) = {}
    <3> HIDE DEF others
    <3>1. Run(b, i) = i - 4
      BY <1>0, <2>1
    <3> QED
      BY <3>1
  <2>2. CASE others(i) # {}
    <3>1. Max(others(i)) \in 5 .. i - 1
      <4>1. Max(others(i)) \in others(i)
        BY <1>2, <2>2
      <4> QED
        BY <4>1
    <3> HIDE DEF others
    <3>2. Run(b, i) = i - Max(others(i))
      BY <1>0, <2>2
    <3> QED
      BY <3>1, <3>2
  <2> QED
    BY <2>1, <2>2
<1>4. CASE i = 5
  <2>1. others(i) = {}
    BY <1>4
  <2> HIDE DEF others
  <2>2. Run(b, i) = i - 4
    BY <1>0, <2>1
  <2> QED
    BY <1>3, <1>4, <2>2
<1>5. CASE i > 5 /\ Counts(b, i) # Counts(b, i - 1)
  <2>1. i - 1 \in others(i)
    BY <1>5
  <2>2. Max(others(i)) \in others(i) /\ i - 1 <= Max(others(i))
    BY <1>2, <2>1
  <2>3. Max(others(i)) = i - 1
    BY <1>1, <2>2
  <2>4. others(i) # {}
    BY <2>1
  <2> HIDE DEF others
  <2>5. Run(b, i) = i - (i - 1)
    BY <1>0, <2>3, <2>4
  <2> QED
    BY <1>3, <1>5, <2>5
<1>6. CASE i > 5 /\ Counts(b, i) = Counts(b, i - 1)
  <2>1. others(i) = others(i - 1)
    BY <1>6
  <2>2. Run(b, i) = i - (IF others(i) = {} THEN 4 ELSE Max(others(i)))
        /\ Run(b, i - 1) = (i - 1) - (IF others(i) = {} THEN 4 ELSE Max(others(i)))
    BY <1>0, <2>1
  <2>3. (IF others(i) = {} THEN 4 ELSE Max(others(i))) \in Int
    BY <1>2
  <2> HIDE DEF others
  <2>4. Run(b, i) = Run(b, i - 1) + 1
    BY <2>2, <2>3
  <2> QED
    BY <1>3, <1>6, <2>4
<1> QED
  BY <1>4, <1>5, <1>6

\* What the running count says at bar i.
Tally(b, i) ==
  IF i <= Lookback \/ Counts(b, i) = "none" THEN NoCount
  ELSE LET count == ((Run(b, i) - 1) % SetupLength) + 1
       IN Count(Counts(b, i), count, count = SetupLength)

LEMMA MagicNineIsTally == ASSUME NEW b PROVE MagicNine(b) = Tally(b, Len(b))
BY StreakIsRun, Zenon DEF MagicNine, Tally

CountType == [side : Sides \cup {"none"}, count : 0 .. 9, completed : BOOLEAN]

LEMMA CountFields ==
  ASSUME NEW side, NEW count, NEW completed
  PROVE  /\ Count(side, count, completed).side = side
         /\ Count(side, count, completed).count = count
         /\ Count(side, count, completed).completed = completed
BY DEF Count

LEMMA TallyType ==
  ASSUME NEW b, NEW i \in Nat
  PROVE  /\ Tally(b, i) \in CountType
         /\ Tally(b, i).side = "none" <=> Tally(b, i) = NoCount
         /\ Tally(b, i).side = "none" <=> Tally(b, i).count = 0
         /\ Tally(b, i).completed <=> Tally(b, i).count = 9
         /\ i <= 4 => Tally(b, i) = NoCount
         /\ i > 4 => Tally(b, i).side = Counts(b, i)
<1>1. CASE i <= Lookback \/ Counts(b, i) = "none"
  BY <1>1 DEF Tally, NoCount, CountType, Lookback
<1>2. CASE ~(i <= Lookback \/ Counts(b, i) = "none")
  <2> DEFINE count == ((Run(b, i) - 1) % 9) + 1
             nine == count = 9
  <2>1. Run(b, i) \in Nat /\ Run(b, i) >= 1
    BY <1>2, RunGoesOn DEF Lookback
  <2>2. count \in 1 .. 9
    BY <2>1
  <2>3. Tally(b, i) = Count(Counts(b, i), count, nine)
    BY <1>2 DEF Tally, SetupLength
  <2>4. Counts(b, i) \in Sides
    BY <1>2, CountsTowards
  <2>5. nine \in BOOLEAN /\ (nine <=> count = 9)
    OBVIOUS
  <2> HIDE DEF count, nine
  <2>6. /\ Tally(b, i).side = Counts(b, i) /\ Tally(b, i).count = count
        /\ Tally(b, i).completed = nine
    <3>1. /\ Count(Counts(b, i), count, nine).side = Counts(b, i)
          /\ Count(Counts(b, i), count, nine).count = count
          /\ Count(Counts(b, i), count, nine).completed = nine
      BY CountFields
    <3> QED
      BY <2>3, <3>1
  <2>7. Tally(b, i) \in CountType
    BY <2>2, <2>3, <2>4, <2>5 DEF Count, CountType
  <2>8. Tally(b, i) # NoCount
    BY <2>2, <2>6 DEF NoCount
  <2> QED
    BY <1>2, <2>2, <2>4, <2>5, <2>6, <2>7, <2>8 DEF Sides, Lookback
<1> QED
  BY <1>1, <1>2

\* It goes on from what it said a bar earlier, unless that was a nine.
LEMMA TallyGoesOn ==
  ASSUME NEW b, NEW i \in Nat, i > 4, Counts(b, i) # "none"
  PROVE  LET prev == Tally(b, i - 1)
             count == IF prev.side = Counts(b, i) /\ ~prev.completed
                      THEN prev.count + 1 ELSE 1
         IN Tally(b, i) = Count(Counts(b, i), count, count = 9)
<1> DEFINE prev == Tally(b, i - 1)
           count == IF prev.side = Counts(b, i) /\ ~prev.completed THEN prev.count + 1 ELSE 1
           r == Run(b, i)
           q == Run(b, i - 1)
<1>1. r \in Nat /\ r >= 1
  BY RunGoesOn
<1>2. Tally(b, i) = Count(Counts(b, i), ((r - 1) % 9) + 1, ((r - 1) % 9) + 1 = 9)
  BY DEF Tally, Lookback, SetupLength
<1>3. i - 1 \in Nat
  OBVIOUS
<1>4. CASE i = 5 \/ Counts(b, i) # Counts(b, i - 1)
  <2>1. r = 1
    BY <1>4, RunGoesOn
  <2>2. prev.side # Counts(b, i)
    <3>1. CASE i = 5
      BY <1>3, <3>1, TallyType
    <3>2. CASE i # 5
      <4>1. i - 1 > 4
        BY <3>2
      <4> QED
        BY <1>3, <1>4, <3>2, <4>1, TallyType
    <3> QED
      BY <3>1, <3>2
  <2>3. count = 1 /\ ((r - 1) % 9) + 1 = 1
    BY <2>1, <2>2
  <2> HIDE DEF r, count
  <2> QED
    BY <1>2, <2>3 DEF count, prev
<1>5. CASE i > 5 /\ Counts(b, i) = Counts(b, i - 1)
  <2>1. r = q + 1 /\ i - 1 > 4
    BY <1>5, RunGoesOn
  <2>2. q \in Nat /\ q >= 1
    BY <1>3, <2>1, RunGoesOn
  <2> DEFINE before == ((q - 1) % 9) + 1
             nine == before = 9
  <2>3. prev = Count(Counts(b, i), before, nine)
    BY <1>5, <2>1 DEF Tally, Lookback, SetupLength
  <2>4. nine \in BOOLEAN /\ (nine <=> before = 9)
    OBVIOUS
  <2>5. prev.side = Counts(b, i) /\ prev.count = before /\ prev.completed = nine
    <3> HIDE DEF prev, before, nine
    <3>1. /\ Count(Counts(b, i), before, nine).side = Counts(b, i)
          /\ Count(Counts(b, i), before, nine).count = before
          /\ Count(Counts(b, i), before, nine).completed = nine
      BY CountFields
    <3> QED
      BY <2>3, <3>1
  <2> HIDE DEF prev, r, q, nine
  <2>6. count = ((r - 1) % 9) + 1
    <3>1. (r - 1) % 9 = IF (q - 1) % 9 = 8 THEN 0 ELSE ((q - 1) % 9) + 1
      BY <2>1, <2>2
    <3> QED
      BY <2>2, <2>4, <2>5, <3>1
  <2> HIDE DEF count
  <2> QED
    BY <1>2, <2>6 DEF count, prev
<1> QED
  BY <1>4, <1>5

-----------------------------------------------------------------------------
(* The two counters                                                        *)

\* What the counter has after bar i: every count drawn, and of the last of them
\* the count in progress or the run of nine it completes.
Counted(b, i, now) ==
  /\ now = [side |-> now.side, streak |-> now.streak, runs |-> now.runs, drawn |-> now.drawn]
  /\ now.drawn \in Seq(CountType) /\ Len(now.drawn) = i
  /\ i > 0 => now.drawn[i] = Tally(b, i)
  /\ \A r \in now.runs : r.event \in 1 .. i
  /\ \A r \in now.runs : r.event = i => r.side = Tally(b, i).side
  /\ Tally(b, i).completed <=> \E r \in now.runs : r.event = i
  /\ now.side = IF Tally(b, i).completed THEN "none" ELSE Tally(b, i).side
  /\ now.streak = IF Tally(b, i).completed THEN 0 ELSE Tally(b, i).count

LEMMA WarmIsCounted ==
  ASSUME NEW b, NEW i \in 0 .. 4
  PROVE  Counted(b, i, Warm(i))
<1>1. Tally(b, i) = NoCount
  BY TallyType
<1>2. NoCount \in CountType
  BY DEF NoCount, CountType
<1>3. [j \in 1 .. i |-> NoCount] \in Seq(CountType) /\ Len([j \in 1 .. i |-> NoCount]) = i
  BY <1>2
<1> QED
  BY <1>1, <1>3 DEF Counted, Warm, NoCount

\* A bar that counts towards neither side ends the count.
LEMMA NoneIsCounted ==
  ASSUME NEW b, NEW i \in Nat, i > 4, NEW was, Counted(b, i - 1, was),
         Counts(b, i) = "none"
  PROVE  Counted(b, i, SetupStep(b, i, was))
<1> DEFINE now == SetupStep(b, i, was)
<1>1. Tally(b, i) = NoCount /\ NoCount \in CountType
  BY DEF Tally, NoCount, CountType
<1>2. now = [side |-> "none", streak |-> 0, runs |-> was.runs,
             drawn |-> Append(was.drawn, NoCount)]
  <2>1. now = [was EXCEPT !.side = "none", !.streak = 0, !.drawn = Append(@, NoCount)]
    BY DEF SetupStep
  <2>2. was = [side |-> was.side, streak |-> was.streak, runs |-> was.runs, drawn |-> was.drawn]
    BY DEF Counted
  <2> QED
    BY <2>1, <2>2
<1>3. was.drawn \in Seq(CountType) /\ Len(was.drawn) = i - 1
      /\ \A r \in was.runs : r.event \in 1 .. i - 1
  BY DEF Counted
<1>4. /\ Append(was.drawn, NoCount) \in Seq(CountType)
      /\ Len(Append(was.drawn, NoCount)) = i
      /\ Append(was.drawn, NoCount)[i] = NoCount
  BY <1>1, <1>3
<1>5. \A r \in was.runs : r.event \in 1 .. i /\ r.event # i
  BY <1>3
<1>6. ~NoCount.completed /\ NoCount.side = "none" /\ NoCount.count = 0
  BY DEF NoCount
<1> HIDE DEF now
<1>7. now.side = "none" /\ now.streak = 0 /\ now.runs = was.runs
      /\ now.drawn = Append(was.drawn, NoCount)
  BY <1>2
<1>8. now = [side |-> now.side, streak |-> now.streak, runs |-> now.runs, drawn |-> now.drawn]
  BY <1>2, <1>7
<1>9. Counted(b, i, now)
  BY <1>1, <1>4, <1>5, <1>6, <1>7, <1>8 DEF Counted
<1> QED
  BY <1>9 DEF now

\* A bar that counts goes on with the count, or begins one.
LEMMA SideIsCounted ==
  ASSUME NEW b, NEW i \in Nat, i > 4, NEW was, Counted(b, i - 1, was),
         Counts(b, i) # "none"
  PROVE  Counted(b, i, SetupStep(b, i, was))
<1> DEFINE side == Counts(b, i)
           prev == Tally(b, i - 1)
           streak == IF side = was.side THEN was.streak + 1 ELSE 1
           nine == streak = 9
           run == [side |-> side, event |-> i, perfected |-> Perfected(b, side, i)]
           now == SetupStep(b, i, was)
<1>1. /\ was.drawn \in Seq(CountType) /\ Len(was.drawn) = i - 1
      /\ \A r \in was.runs : r.event \in 1 .. i - 1
      /\ was.side = IF prev.completed THEN "none" ELSE prev.side
      /\ was.streak = IF prev.completed THEN 0 ELSE prev.count
  BY DEF Counted
<1>2. now = [side |-> IF nine THEN "none" ELSE side, streak |-> IF nine THEN 0 ELSE streak,
             runs |-> was.runs \cup {x \in {run} : nine},
             drawn |-> Append(was.drawn, Count(side, streak, nine))]
  BY Zenon DEF SetupStep, SetupLength
<1>3. nine \in BOOLEAN /\ (nine <=> streak = 9)
  OBVIOUS
<1>4. /\ prev.count \in 0 .. 9 /\ (prev.completed <=> prev.count = 9)
      /\ i - 1 \in Nat
  <2>1. i - 1 \in Nat
    OBVIOUS
  <2> QED
    BY <2>1, TallyType DEF CountType
<1>5. streak = IF prev.side = side /\ ~prev.completed THEN prev.count + 1 ELSE 1
  BY <1>1
<1>6. streak \in 1 .. 9
  BY <1>4, <1>5
<1>7. Tally(b, i) = Count(side, streak, nine)
  BY <1>5, TallyGoesOn
<1>8. run.event = i /\ run.side = side
  OBVIOUS
<1>9. side \in Sides /\ side # "none"
  BY CountsTowards
<1>10. \A r \in was.runs : r.event \in 1 .. i /\ r.event # i
  BY <1>1
<1> HIDE DEF streak, nine, run, now, side, prev
<1>11. /\ Tally(b, i).side = side /\ Tally(b, i).count = streak
       /\ Tally(b, i).completed = nine
  <2>1. /\ Count(side, streak, nine).side = side
        /\ Count(side, streak, nine).count = streak
        /\ Count(side, streak, nine).completed = nine
    BY CountFields
  <2> QED
    BY <1>7, <2>1
<1>12. Tally(b, i) \in CountType
  BY TallyType
<1>13. /\ Append(was.drawn, Tally(b, i)) \in Seq(CountType)
       /\ Len(Append(was.drawn, Tally(b, i))) = i
       /\ Append(was.drawn, Tally(b, i))[i] = Tally(b, i)
  BY <1>1, <1>12
<1>14. /\ now.side = IF nine THEN "none" ELSE side
       /\ now.streak = IF nine THEN 0 ELSE streak
       /\ now.runs = was.runs \cup {x \in {run} : nine}
       /\ now.drawn = Append(was.drawn, Tally(b, i))
  BY <1>2, <1>7
<1>15. now = [side |-> now.side, streak |-> now.streak, runs |-> now.runs, drawn |-> now.drawn]
  BY <1>2, <1>7, <1>14
<1>16. /\ \A r \in now.runs : r.event \in 1 .. i
       /\ \A r \in now.runs : r.event = i => r.side = side
       /\ nine <=> \E r \in now.runs : r.event = i
  <2>1. \A r \in now.runs : r \in was.runs \/ (r = run /\ nine)
    BY <1>14
  <2>2. nine => run \in now.runs
    BY <1>14
  <2>3. i \in 1 .. i
    OBVIOUS
  <2>4. \A r \in now.runs : (r.event \in 1 .. i /\ r.event # i)
                            \/ (r.event = i /\ r.side = side /\ nine)
    BY <1>8, <1>10, <2>1
  <2> QED
    BY <1>3, <1>8, <2>2, <2>3, <2>4
<1>17. Counted(b, i, now)
  BY <1>3, <1>11, <1>13, <1>14, <1>15, <1>16 DEF Counted
<1> QED
  BY <1>17 DEF now

\* So it is at every bar of a pass.
LEMMA SetupIsCounted ==
  ASSUME NEW b, Len(b) \in Nat, NEW w, IsSetup(b, w, Len(b))
  PROVE  Counted(b, Len(b), w[Len(b)])
<1> DEFINE n == Len(b)
           Good == {i \in 0 .. n : Counted(b, i, w[i])}
<1>1. 0 \in Good
  <2>1. 0 \in 0 .. n /\ 0 \in 0 .. 4
    OBVIOUS
  <2>2. w[0] = Warm(0)
    BY <2>1 DEF IsSetup, SetupAt, Lookback
  <2> QED
    BY <2>1, <2>2, WarmIsCounted
<1>2. ASSUME NEW i \in 1 .. n, i - 1 \in Good PROVE i \in Good
  <2>1. i \in 0 .. n /\ i \in Nat /\ Counted(b, i - 1, w[i - 1])
    BY <1>2
  <2>2. w[i] = SetupAt(b, i, w[i - 1])
    BY <2>1 DEF IsSetup
  <2>3. CASE i <= 4
    <3>1. i \in 0 .. 4 /\ w[i] = Warm(i)
      BY <2>2, <2>3 DEF SetupAt, Lookback
    <3> QED
      BY <2>1, <3>1, WarmIsCounted
  <2>4. CASE i > 4
    <3>1. w[i] = SetupStep(b, i, w[i - 1])
      BY <2>2, <2>4 DEF SetupAt, Lookback
    <3> QED
      BY <2>1, <2>4, <3>1, NoneIsCounted, SideIsCounted
  <2> QED
    BY <2>1, <2>3, <2>4
<1>3. Good \in SUBSET (0 .. n)
  OBVIOUS
<1>4. Good = 0 .. n
  <2> HIDE DEF Good
  <2> QED
    BY <1>1, <1>2, <1>3, UpTo
<1>5. n \in Good
  BY <1>4
<1> QED
  BY <1>5

\* The two counters of a series agree.
LEMMA CountersOfSeries ==
  ASSUME NEW b, Len(b) \in Nat
  PROVE  /\ MagicNine(b) = TDSetup(b).latest
         /\ Len(b) > 0 => MagicNine(b) = TDSetup(b).drawn[Len(b)]
<1> DEFINE n == Len(b)
           t == Tally(b, n)
<1>1. PICK w : IsSetup(b, w, n) /\ TDSetup(b) = SetupOf(n, w[n])
  BY SetupIsWalked
<1> DEFINE end == w[n]
           ending == {r \in end.runs : r.event = n}
<1>2. Counted(b, n, end)
  BY <1>1, SetupIsCounted
<1>3. MagicNine(b) = t
  BY MagicNineIsTally
<1>4. /\ t \in CountType
      /\ t.side = "none" <=> t = NoCount
      /\ t.side = "none" <=> t.count = 0
      /\ t.completed <=> t.count = 9
  BY TallyType
<1> DEFINE latest ==
             CASE ending # {} -> Count((CHOOSE r \in ending : TRUE).side, SetupLength, TRUE)
               [] ending = {} /\ end.streak > 0 -> Count(end.side, end.streak, FALSE)
               [] OTHER -> NoCount
<1>5. TDSetup(b).drawn = end.drawn /\ TDSetup(b).latest = latest
  <2>1. TDSetup(b) = [runs |-> end.runs, drawn |-> end.drawn, latest |-> latest]
    BY <1>1, Zenon DEF SetupOf
  <2> HIDE DEF latest, end
  <2> QED
    BY <2>1
<1>6. /\ n > 0 => end.drawn[n] = t
      /\ t.completed <=> ending # {}
      /\ \A r \in ending : r.side = t.side
      /\ end.side = IF t.completed THEN "none" ELSE t.side
      /\ end.streak = IF t.completed THEN 0 ELSE t.count
  BY <1>2 DEF Counted
<1>7. t = Count(t.side, t.count, t.completed) /\ t.completed \in BOOLEAN /\ t.count \in 0 .. 9
  BY <1>4 DEF CountType, Count
<1> HIDE DEF t, end, ending
<1>8. CASE ending # {}
  <2>1. (CHOOSE r \in ending : TRUE) \in ending
    BY <1>8
  <2>2. (CHOOSE r \in ending : TRUE).side = t.side
    BY <1>6, <2>1
  <2>3. TDSetup(b).latest = Count(t.side, 9, TRUE)
    BY <1>5, <1>8, <2>2 DEF SetupLength
  <2>4. t.completed = TRUE /\ t.count = 9
    BY <1>4, <1>6, <1>7, <1>8
  <2> QED
    BY <1>3, <1>5, <1>6, <1>7, <2>3, <2>4 DEF n
<1>9. CASE ending = {} /\ end.streak > 0
  <2>1. ~t.completed /\ end.side = t.side /\ end.streak = t.count /\ t.completed = FALSE
    BY <1>6, <1>7, <1>9
  <2>2. TDSetup(b).latest = Count(t.side, t.count, FALSE)
    BY <1>5, <1>9, <2>1
  <2> QED
    BY <1>3, <1>5, <1>6, <1>7, <2>1, <2>2 DEF n
<1>10. CASE ending = {} /\ ~(end.streak > 0)
  <2>1. end.streak = t.count
    BY <1>6, <1>10
  <2>2. t = NoCount
    BY <1>4, <1>7, <1>10, <2>1
  <2>3. TDSetup(b).latest = NoCount
    BY <1>5, <1>10
  <2> QED
    BY <1>3, <1>5, <1>6, <2>2, <2>3 DEF n
<1> QED
  BY <1>8, <1>9, <1>10

\* Completed runs and drawn counts stay as they were.
LEMMA SetupStays ==
  ASSUME NEW b, NEW d, Longer(b, d)
  PROVE  /\ {r \in TDSetup(d).runs : r.event <= Len(b)} = TDSetup(b).runs
         /\ SubSeq(TDSetup(d).drawn, 1, Len(b)) = TDSetup(b).drawn
<1> DEFINE n == Len(b)
<1>0. n \in Nat /\ Len(d) = n + 1 /\ Len(d) \in Nat
  BY DEF Longer
<1>1. PICK w : IsSetup(b, w, n) /\ TDSetup(b) = SetupOf(n, w[n])
  BY <1>0, SetupIsWalked
<1>2. PICK v : IsSetup(d, v, n + 1) /\ TDSetup(d) = SetupOf(n + 1, v[n + 1])
  BY <1>0, SetupIsWalked
<1>3. v[n] = w[n]
  BY <1>1, <1>2, SetupsAgree
<1>4. /\ TDSetup(b).runs = w[n].runs /\ TDSetup(b).drawn = w[n].drawn
      /\ TDSetup(d).runs = v[n + 1].runs /\ TDSetup(d).drawn = v[n + 1].drawn
  BY <1>1, <1>2 DEF SetupOf
<1>5. /\ w[n].drawn \in Seq(CountType) /\ Len(w[n].drawn) = n
      /\ \A r \in w[n].runs : r.event \in 1 .. n
      /\ w[n] = [side |-> w[n].side, streak |-> w[n].streak, runs |-> w[n].runs,
                 drawn |-> w[n].drawn]
  BY <1>0, <1>1, SetupIsCounted DEF Counted
<1>6. v[n + 1] = SetupAt(d, n + 1, w[n])
  <2>1. n + 1 \in 0 .. n + 1 /\ (n + 1) - 1 = n
    BY <1>0
  <2> QED
    BY <1>2, <1>3, <2>1 DEF IsSetup
<1>7. CASE n + 1 <= 4
  <2>1. n \in 0 .. n /\ n <= Lookback /\ n + 1 <= Lookback
    BY <1>0, <1>7 DEF Lookback
  <2>2. w[n] = Warm(n) /\ v[n + 1] = Warm(n + 1)
    BY <1>1, <1>6, <2>1 DEF IsSetup, SetupAt
  <2>3. /\ TDSetup(b).runs = {} /\ TDSetup(b).drawn = [j \in 1 .. n |-> NoCount]
        /\ TDSetup(d).runs = {} /\ TDSetup(d).drawn = [j \in 1 .. n + 1 |-> NoCount]
    BY <1>4, <2>2 DEF Warm
  <2>4. SubSeq([j \in 1 .. n + 1 |-> NoCount], 1, n) = [j \in 1 .. n |-> NoCount]
    BY <1>0
  <2> QED
    BY <2>3, <2>4
<1>8. CASE n + 1 > 4
  <2>1. v[n + 1] = SetupStep(d, n + 1, w[n])
    BY <1>0, <1>6, <1>8 DEF SetupAt, Lookback
  <2>2. \E x \in CountType : v[n + 1].drawn = Append(w[n].drawn, x)
    <3>1. Counted(b, n, w[n])
      BY <1>0, <1>1, SetupIsCounted
    <3>2. CASE Counts(d, n + 1) = "none"
      <4>1. v[n + 1] = [w[n] EXCEPT !.side = "none", !.streak = 0, !.drawn = Append(@, NoCount)]
        BY <2>1, <3>2 DEF SetupStep
      <4>2. v[n + 1].drawn = Append(w[n].drawn, NoCount)
        BY <1>5, <4>1
      <4>3. NoCount \in CountType
        BY DEF NoCount, CountType
      <4> QED
        BY <4>2, <4>3
    <3>3. CASE Counts(d, n + 1) # "none"
      <4> DEFINE side == Counts(d, n + 1)
                 streak == IF side = w[n].side THEN w[n].streak + 1 ELSE 1
                 nine == streak = 9
      <4>1. v[n + 1].drawn = Append(w[n].drawn, Count(side, streak, nine))
        BY <2>1, <3>3 DEF SetupStep, SetupLength
      <4>2. w[n].streak \in 0 .. 8
        <5>1. /\ Tally(b, n).count \in 0 .. 9
              /\ Tally(b, n).completed <=> Tally(b, n).count = 9
          BY <1>0, TallyType DEF CountType
        <5> QED
          BY <3>1, <5>1 DEF Counted
      <4>3. streak \in 1 .. 9 /\ nine \in BOOLEAN /\ side \in Sides \cup {"none"}
        BY <4>2, CountsTowards
      <4> HIDE DEF side, streak, nine
      <4>4. Count(side, streak, nine) \in CountType
        BY <4>3 DEF Count, CountType
      <4> QED
        BY <4>1, <4>4
    <3> QED
      BY <3>2, <3>3
  <2>3. SubSeq(v[n + 1].drawn, 1, n) = w[n].drawn
    <3>1. PICK x \in CountType : v[n + 1].drawn = Append(w[n].drawn, x)
      BY <2>2
    <3> DEFINE s == w[n].drawn
    <3>2. s \in Seq(CountType) /\ Len(s) = n
      BY <1>5
    <3> HIDE DEF s
    <3>3. SubSeq(Append(s, x), 1, n) = s
      BY <1>0, <3>2
    <3> QED
      BY <3>1, <3>3 DEF s
  <2>4. /\ w[n].runs \subseteq v[n + 1].runs
        /\ \A r \in v[n + 1].runs \ w[n].runs : r.event = n + 1
    <3>1. CASE Counts(d, n + 1) = "none"
      BY <2>1, <3>1 DEF SetupStep
    <3>2. CASE Counts(d, n + 1) # "none"
      BY <2>1, <3>2 DEF SetupStep
    <3> QED
      BY <3>1, <3>2
  <2>5. {r \in v[n + 1].runs : r.event <= n} = w[n].runs
    BY <1>0, <1>5, <2>4
  <2> QED
    BY <1>4, <2>3, <2>5
<1> QED
  BY <1>0, <1>7, <1>8

\* An indicator that has a value keeps having one.
LEMMA LiveStays ==
  ASSUME NEW b, NEW d, Longer(b, d)
  PROVE  Live(b) \subseteq Live(d)
<1>0. Len(b) \in Nat /\ Len(d) = Len(b) + 1 /\ \A i \in 1 .. Len(b) : d[i] = b[i]
  BY DEF Longer
<1>1. Varies(b) => Varies(d)
  <2> SUFFICES ASSUME Varies(b) PROVE Varies(d)
    OBVIOUS
  <2>1. PICK i \in 2 .. Len(b) - 1 : b[i + 1].close * b[i - 1].close # b[i].close * b[i].close
    BY DEF Varies
  <2>2. /\ i \in 2 .. Len(d) - 1 /\ i \in 1 .. Len(b) /\ i - 1 \in 1 .. Len(b)
        /\ i + 1 \in 1 .. Len(b)
    BY <1>0
  <2>3. d[i + 1].close * d[i - 1].close # d[i].close * d[i].close
    BY <1>0, <2>1, <2>2, Zenon
  <2> QED
    BY <2>2, <2>3 DEF Varies
<1>2. \A name \in DOMAIN WarmUp : WarmUp[name] \in Nat
  BY DEF WarmUp
<1> QED
  BY <1>0, <1>1, <1>2 DEF Live

-----------------------------------------------------------------------------
(* What is read of a series                                                *)

LEMMA ReadFields ==
  ASSUME NEW b
  PROVE  /\ Read(b).live = Live(b) /\ Read(b).detections = Detections(b)
         /\ Read(b).setup = TDSetup(b) /\ Read(b).nine = MagicNine(b)
BY DEF Read

LEMMA DetectionFields ==
  ASSUME NEW b
  PROVE  /\ \A kind \in Kinds : Detections(b)[kind].live <=> Len(b) >= MinWindow[kind]
         /\ Detections(b)["fractal"].signals = UNION {Fractals(s, b) : s \in Sides}
         /\ Detections(b)["double"].signals = UNION {Doubles(s, b) : s \in Sides}
         /\ Detections(b)["head_shoulders"].signals = UNION {HeadShoulders(s, b) : s \in Sides}
         /\ Detections(b)["ma5_pullback"].signals = Pullbacks(b)
<1> DEFINE signals == [fractal |-> UNION {Fractals(s, b) : s \in Sides},
                       double |-> UNION {Doubles(s, b) : s \in Sides},
                       head_shoulders |-> UNION {HeadShoulders(s, b) : s \in Sides},
                       ma5_pullback |-> Pullbacks(b)]
<1>1. Detections(b) = [kind \in Kinds |-> [live |-> Len(b) >= MinWindow[kind],
                                           signals |-> signals[kind]]]
  BY Zenon DEF Detections
<1>2. Kinds = {"fractal", "double", "head_shoulders", "ma5_pullback"}
  BY DEF Kinds, MinWindow
<1>3. /\ signals["fractal"] = UNION {Fractals(s, b) : s \in Sides}
      /\ signals["double"] = UNION {Doubles(s, b) : s \in Sides}
      /\ signals["head_shoulders"] = UNION {HeadShoulders(s, b) : s \in Sides}
      /\ signals["ma5_pullback"] = Pullbacks(b)
  OBVIOUS
<1> HIDE DEF signals
<1>4. \A kind \in Kinds : Detections(b)[kind].signals = signals[kind]
  BY <1>1
<1>5. \A kind \in Kinds : Detections(b)[kind].live <=> Len(b) >= MinWindow[kind]
  <2> TAKE kind \in Kinds
  <2> DEFINE seen == Len(b) >= MinWindow[kind]
  <2>1. Detections(b)[kind] = [live |-> seen, signals |-> signals[kind]]
    BY <1>1
  <2> HIDE DEF seen
  <2>2. Detections(b)[kind].live = seen
    BY <2>1
  <2> QED
    BY <2>2 DEF seen
<1> QED
  BY <1>2, <1>3, <1>4, <1>5

\* The resolved shapes of a live detector stay as they were.
LEMMA DetectionsStay ==
  ASSUME NEW b, NEW d, Longer(b, d), NEW kind \in Kinds, Detections(b)[kind].live
  PROVE  Resolved(Detections(d)[kind].signals, Len(b))
           = Resolved(Detections(b)[kind].signals, Len(b))
<1>1. Len(b) >= MinWindow[kind]
  BY DetectionFields
<1>2. kind \in {"fractal", "double", "head_shoulders", "ma5_pullback"}
  BY DEF Kinds, MinWindow
<1>3. CASE kind = "fractal"
  <2>1. \A s \in Sides : Resolved(Fractals(s, d), Len(b)) = Resolved(Fractals(s, b), Len(b))
    BY FractalsStay
  <2>2. Resolved(UNION {Fractals(s, d) : s \in Sides}, Len(b))
          = Resolved(UNION {Fractals(s, b) : s \in Sides}, Len(b))
    BY <2>1 DEF Resolved
  <2> QED
    BY <1>3, <2>2, DetectionFields
<1>4. CASE kind = "double"
  <2>1. Len(b) >= 7
    BY <1>1, <1>4 DEF MinWindow
  <2>2. \A s \in Sides : Resolved(Doubles(s, d), Len(b)) = Resolved(Doubles(s, b), Len(b))
    BY <2>1, DoublesStay
  <2>3. Resolved(UNION {Doubles(s, d) : s \in Sides}, Len(b))
          = Resolved(UNION {Doubles(s, b) : s \in Sides}, Len(b))
    BY <2>2 DEF Resolved
  <2> QED
    BY <1>4, <2>3, DetectionFields
<1>5. CASE kind = "head_shoulders"
  <2>1. Len(b) >= 8
    BY <1>1, <1>5 DEF MinWindow
  <2>2. \A s \in Sides : Resolved(HeadShoulders(s, d), Len(b))
                           = Resolved(HeadShoulders(s, b), Len(b))
    BY <2>1, HeadShouldersStay
  <2>3. Resolved(UNION {HeadShoulders(s, d) : s \in Sides}, Len(b))
          = Resolved(UNION {HeadShoulders(s, b) : s \in Sides}, Len(b))
    BY <2>2 DEF Resolved
  <2> QED
    BY <1>5, <2>3, DetectionFields
<1>6. CASE kind = "ma5_pullback"
  <2>1. Len(b) >= 8
    BY <1>1, <1>6 DEF MinWindow
  <2> QED
    BY <1>6, <2>1, PullbacksStay, DetectionFields
<1> QED
  BY <1>2, <1>3, <1>4, <1>5, <1>6

-----------------------------------------------------------------------------
(* What the readings promise                                               *)

\* The chart served is what all the bars there are give.
ChartInv ==
  /\ tape \in Tapes
  /\ bars \in Seq(Bar)
  /\ served = Read(bars)

LEMMA ChartStarts == ChartInit => ChartInv
BY DEF ChartInit, ChartInv

LEMMA ChartGoesOn ==
  ASSUME ChartInv, ChartNext
  PROVE  ChartInv' /\ Longer(bars, bars')
<1>1. PICK bar \in tape[Len(bars) + 1] : NewBar(bar)
  BY DEF ChartNext
<1>2. Len(bars) < Len(tape) /\ Len(bars) \in Nat /\ tape \in Seq(SUBSET Bar)
  BY ChartAssumption DEF ChartNext, ChartInv
<1>3. Len(bars) + 1 \in 1 .. Len(tape)
  BY <1>2
<1>4. tape[Len(bars) + 1] \in SUBSET Bar
  BY <1>2, <1>3
<1>5. bar \in Bar
  BY <1>1, <1>4
<1>6. /\ bars' = Append(bars, bar) /\ bars' \in Seq(Bar)
      /\ tape' = tape /\ served' = Read(bars')
  BY <1>1, <1>5 DEF NewBar, ChartInv
<1>7. Longer(bars, bars')
  BY <1>5, <1>6, AppendIsLonger DEF ChartInv
<1> QED
  BY <1>6, <1>7 DEF ChartInv

LEMMA ChartSteps ==
  ASSUME ChartInv, [ChartNext]_chartVars
  PROVE  ChartInv'
<1>1. CASE ChartNext
  BY <1>1, ChartGoesOn
<1>2. CASE UNCHANGED chartVars
  BY <1>2 DEF chartVars, ChartInv
<1> QED
  BY <1>1, <1>2

(* What is served is always the reading of all the bars there are, and those
   are bars.                                                                 *)
THEOREM ChartsAreRead == ChartSpec => []ChartInv
<1>1. ChartInit => ChartInv
  BY ChartStarts
<1>2. ChartInv /\ [ChartNext]_chartVars => ChartInv'
  BY ChartSteps
<1> QED
  BY <1>1, <1>2, PTL DEF ChartSpec

(* Charts are never repainted: whatever bars come, a live detector's resolved
   shapes, the completed nines and the drawn counts stay as they were, and an
   indicator that has a value keeps having one.                              *)
THEOREM ChartsAreNeverRepainted == ChartSpec => NeverRepainted
<1> DEFINE Stays ==
      LET n == Len(bars)
       IN /\ \A kind \in Kinds :
                 served.detections[kind].live =>
                    Resolved(served'.detections[kind].signals, n)
                       = Resolved(served.detections[kind].signals, n)
          /\ {r \in served'.setup.runs : r.event <= n} = served.setup.runs
          /\ SubSeq(served'.setup.drawn, 1, n) = served.setup.drawn
          /\ served.live \subseteq served'.live
<1>1. ASSUME ChartInv, ChartNext
      PROVE  Stays
  <2>1. Longer(bars, bars') /\ served = Read(bars) /\ served' = Read(bars')
    BY <1>1, ChartGoesOn DEF ChartInv
  <2>2. /\ served.live = Live(bars) /\ served.detections = Detections(bars)
        /\ served.setup = TDSetup(bars)
        /\ served'.live = Live(bars') /\ served'.detections = Detections(bars')
        /\ served'.setup = TDSetup(bars')
    BY <2>1, ReadFields
  <2>3. \A kind \in Kinds : served.detections[kind].live =>
           Resolved(served'.detections[kind].signals, Len(bars))
              = Resolved(served.detections[kind].signals, Len(bars))
    BY <2>1, <2>2, DetectionsStay
  <2>4. /\ {r \in served'.setup.runs : r.event <= Len(bars)} = served.setup.runs
        /\ SubSeq(served'.setup.drawn, 1, Len(bars)) = served.setup.drawn
    BY <2>1, <2>2, SetupStays
  <2>5. served.live \subseteq served'.live
    BY <2>1, <2>2, LiveStays
  <2> QED
    BY <2>3, <2>4, <2>5
<1>2. ChartInv /\ [ChartNext]_chartVars => [Stays]_chartVars
  BY <1>1
<1> HIDE DEF Stays
<1>3. ChartSpec => [][Stays]_chartVars
  BY <1>2, ChartsAreRead, PTL DEF ChartSpec
<1> QED
  BY <1>3, PTL DEF NeverRepainted, Stays

(* The two counters agree at every bar of every series: the running count of
   magic_nine is the latest state of td_setup and the last count it draws.   *)
THEOREM CountersAgree == ChartSpec => []CountsAgree
<1>1. ChartInv => CountsAgree
  <2> SUFFICES ASSUME ChartInv PROVE CountsAgree
    OBVIOUS
  <2>1. Len(bars) \in Nat /\ served = Read(bars) /\ (bars # <<>> => Len(bars) > 0)
    BY DEF ChartInv
  <2> QED
    BY <2>1, ReadFields, CountersOfSeries DEF CountsAgree
<1> QED
  BY <1>1, ChartsAreRead, PTL
=============================================================================
