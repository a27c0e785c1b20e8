---------------------------- MODULE MCDecisionPath ----------------------------
(***************************************************************************)
(* An instance of DecisionPath for TLC: the events publishers may report   *)
(* of one story and of a filing.                                           *)
(*   1, 2  a wire's report and its correction, which nothing could read   *)
(*   3     a daily's rewording of 1, which names the wire                  *)
(*   4     a verbatim copy of 1 in a paper, which names nobody             *)
(*   5, 7  a verified filing and a correction of it that was taken back    *)
(*         since, so that each revises the other                           *)
(*   6     a rumour about the filing                                       *)
(*   8     a report of the radio, which is of the wire's group             *)
(***************************************************************************)
EXTENDS DecisionPath

MCReport(no, text, publisher, owner) ==
  [no |-> no, keys |-> {"story"}, text |-> text, publisher |-> publisher, owner |-> owner,
   origin |-> Nobody, status |-> "reported", reliability |-> 70, confidence |-> 60,
   sentiment |-> 1, measured |-> TRUE, relevant |-> TRUE, revises |-> no, revision |-> 0]

MCFiling(no, text, revises, revision) ==
  [MCReport(no, text, "sec", "sec") EXCEPT
     !.keys = {"filing"}, !.status = "verified", !.reliability = 95, !.confidence = 90,
     !.measured = FALSE, !.sentiment = 0, !.revises = revises, !.revision = revision]

MCEvent ==
  <<MCReport(1, "t1", "wire", "group"),
    [MCReport(2, "t2", "wire", "group") EXCEPT
       !.revises = 1, !.revision = 1, !.measured = FALSE, !.sentiment = 0],
    [MCReport(3, "t3", "daily", "daily") EXCEPT !.origin = "wire"],
    MCReport(4, "t1", "paper", "paper"),
    MCFiling(5, "t5", 7, 2),
    [MCReport(6, "t6", "forum", "forum") EXCEPT
       !.keys = {"filing"}, !.status = "rumour", !.reliability = 20, !.sentiment = -1],
    MCFiling(7, "t7", 5, 1),
    MCReport(8, "t8", "radio", "group")>>
=============================================================================
