----------------------------- MODULE DecisionPath -----------------------------
(***************************************************************************)
(* One request, from the HTTP server's front door to its answer: who may   *)
(* ask (_admit), AnalysisService.decision, the sources it reads one after  *)
(* the other, the DecisionEngine with its hard gates, forecast and risk    *)
(* plan, and the council of advisers that may move the score.  The cutoff  *)
(* (as_of) is taken in the middle: candles and evidence are read before it,*)
(* factors and the gateway's flow snapshot after it.                       *)
(*                                                                         *)
(* Every call to another process takes one tick.  Magnitudes are sixths of *)
(* full strength; a factor nothing supplied is None.                       *)
(***************************************************************************)
EXTENDS EvidencePacket

CONSTANTS
  MaxRead,      \* most events one read returns (bound)
  Horizons,     \* the horizons asked about, of "short", "swing" and "long"
  Budget,       \* ticks after which a candle is stale: data_freshness_budget
  MaxAttempts,  \* AdviserLlmConfig.max_attempts
  Backwards     \* ticks the host's clock may be set back, once (bound)

ASSUME DecisionAssumption ==
  /\ MaxRead \in Nat /\ Budget \in Nat \ {0} /\ Backwards \in Nat
  /\ MaxAttempts \in 1 .. 5
  /\ Horizons \subseteq {"short", "swing", "long"}

VARIABLES
  clock,     \* the host's clock, which the gateway and the sources share
  setBack,   \* whether it was set back already
  refusal,   \* the status of a request that got no further than the door, or 0
  horizon,   \* the horizon asked about
  mode,      \* the request's adviser parameter, fixed where it is first acted on
  pc,        \* where the request stands
  bars,      \* the completed daily candles it read
  evidence,  \* the events it read, and when each became available
  cutoff,    \* as_of
  packet,    \* what the evidence amounts to at the cutoff: EvidencePacket
  factors,   \* what the public factors were measured from
  flow,      \* what the gateway's snapshot held of institutional capital
  decision,  \* the engine's score, its gates and the plan
  attempts,  \* model calls made for the block under way
  briefing   \* the adviser's two blocks and the tokens it reports

inputs == <<bars, evidence, factors, flow>>
vars == <<clock, setBack, refusal, horizon, mode, pc, inputs, cutoff, packet, decision, attempts, briefing>>

Started == Budget + 2
Modes == {"off", "news", "full"}

\* ADVISER_SCORE_CAP, in points of the score.
Cap == 3

NoBars == [closed |-> 0, at |-> 0, span |-> "tiny", lean |-> 0]
NoFactors == [failed |-> TRUE, macro |-> {}, fundamentals |-> {}]
NoFlow == [outcome |-> "fault", proxy |-> {}, holdings |-> {}]
NoPacket == [counted |-> {}, late |-> {}, sentiment |-> None, confidence |-> 0,
             quotable |-> FALSE]
NoDecision == [value |-> 50, direction |-> "neutral", actionable |-> FALSE,
               blocked |-> {}, odds |-> <<>>, plan |-> "none"]

-----------------------------------------------------------------------------
(* The front door.                                                           *)

Init ==
  /\ clock = Started /\ setBack = FALSE
  /\ refusal = 0
  /\ horizon = "none" /\ mode = "off"
  /\ pc = "request"
  /\ bars = NoBars
  /\ evidence = <<>>
  /\ cutoff = 0 /\ packet = NoPacket
  /\ factors = NoFactors /\ flow = NoFlow
  /\ decision = NoDecision /\ attempts = 0
  /\ briefing = [news |-> "not_requested", council |-> "not_requested",
                 proposed |-> 0, usage |-> FALSE]

Requests ==
  [client : {"listed", "stranger"}, method : {"GET", "POST"},
   path : {"/health", "/market-brief", "/decision", "/v1/device-pairings", "/elsewhere"},
   credential : {"paired", "unknown", "unreadable"},
   body : {"attempt", "garbage", "long"}, sound : BOOLEAN]

(* DeviceGate.redeem: what is no attempt costs no slot; an attempt is paired,
   wrong, throttled or meets a store nobody can read (see DeviceAuth).       *)
Redeem(body) == IF body = "garbage" THEN {400} ELSE {200, 400, 429, 503}

\* The whole write surface; a server without a credential store has none.
Pairing(r, gated) ==
  CASE ~gated -> {404}
    [] gated /\ r.method # "POST" -> {405}
    [] gated /\ r.method = "POST" -> IF r.body = "long" THEN {413} ELSE Redeem(r.body)

\* AnalysisApplication.handle; a decision that can be asked is not answered yet.
Handle(r) ==
  CASE r.path = "/elsewhere" -> {404}
    [] r.path # "/elsewhere" /\ r.method # "GET" -> {405}
    [] r.path = "/health" /\ r.method = "GET" -> {200}
    [] r.path = "/market-brief" /\ r.method = "GET" -> {200, 500}
    [] r.path = "/decision" /\ r.method = "GET" -> IF r.sound THEN {} ELSE {400}

\* _admit: the network, the pairing path, the credential, and only then the path.
Answers(r, gated) ==
  IF r.client = "stranger" THEN {403}
  ELSE IF r.path = "/v1/device-pairings" THEN Pairing(r, gated)
  ELSE IF gated /\ r.credential = "unknown" THEN {401}
  ELSE IF gated /\ r.credential = "unreadable" THEN {503}
  ELSE Handle(r)

Admit ==
  /\ pc = "request"
  /\ \E r \in Requests, gated \in BOOLEAN :
       \/ refusal' \in Answers(r, gated) /\ pc' = "answered" /\ UNCHANGED horizon
       \/ /\ Answers(r, gated) = {} /\ pc' = "bars"
          /\ horizon' \in Horizons /\ UNCHANGED refusal
  /\ UNCHANGED <<clock, setBack, mode, inputs, cutoff, packet, decision, attempts, briefing>>

-----------------------------------------------------------------------------
(* The sources.                                                              *)

\* NTP or an operator sets the host's clock back between two steps.
SetBack ==
  /\ ~setBack /\ pc \in {"evidence", "cutoff", "factors"}
  /\ setBack' = TRUE /\ clock' = clock - Backwards
  /\ UNCHANGED <<refusal, horizon, mode, pc, inputs, cutoff, packet, decision, attempts, briefing>>

(* Candles of the last Budget ticks or a series that stopped long before; the
   gateway stamps either with the time it received it (see MarketGateway).
   Too few to look for a pattern, enough for one, or enough for a return and
   a momentum as well; these rise, fall or do not move at all.               *)
ReadBars ==
  /\ pc = "bars"
  /\ clock' = clock + 1
  /\ \/ \E closed \in {0, Started} :
          \E shape \in {"tiny", "full"} \X {0} \cup {"young", "full"} \X {-1, 1} :
            bars' = [closed |-> closed, at |-> clock', span |-> shape[1], lean |-> shape[2]]
        /\ pc' = "evidence"
     \/ bars' = NoBars /\ pc' \in {"unavailable", "failed"}
  /\ UNCHANGED <<setBack, refusal, horizon, mode, evidence, cutoff, packet, factors, flow, decision, attempts, briefing>>

(* Events held from earlier sweeps and events this read is the first to
   retrieve.  With nothing read and a source it could not reach, it fails.   *)
ReadEvidence ==
  /\ pc = "evidence"
  /\ clock' = clock + 1
  /\ \E held, fresh \in SUBSET DOMAIN Event :
       /\ Cardinality(held) + Cardinality(fresh) <= MaxRead /\ held \cap fresh = {}
       /\ evidence' = [e \in held \cup fresh |-> IF e \in fresh THEN clock' ELSE 0]
  /\ \/ pc' = "cutoff"
     \/ pc' = "failed" /\ DOMAIN evidence' = {}
  /\ UNCHANGED <<setBack, refusal, horizon, mode, bars, cutoff, packet, factors, flow, decision, attempts, briefing>>

\* Mutant: the cutoff is the time the candles arrived.
Cutoff_AfterBars == bars.at

\* as_of = self.clock(), once candles and evidence are both in hand.
Cutoff == clock

\* build_packet of the adviser: what it may quote, rumours and corrected included.
Quotable(t) == Visible(evidence, t)

(* What the evidence amounts to depends on the events and the cutoff alone, so
   it is worked out here rather than when the engine asks for it; nothing
   looks at the events themselves again.                                     *)
TakeCutoff ==
  /\ pc = "cutoff"
  /\ cutoff' = Cutoff
  /\ LET clusters == Clusters(Visible(evidence, Cutoff))
         counted == Counted(clusters, evidence)
     IN  packet' = [counted |-> counted, late |-> Future(evidence, Cutoff),
                    sentiment |-> MarketSentiment(clusters, evidence),
                    confidence |-> Confidence(counted),
                    quotable |-> Quotable(Cutoff) # {}]
  /\ evidence' = <<>>
  /\ pc' = "factors"
  /\ UNCHANGED <<clock, setBack, refusal, horizon, mode, bars, factors, flow, decision, attempts, briefing>>

\* The rows a publisher may serve: one it published long ago, one just now.
Published(old, new) ==
  {{}, {[at |-> 0, value |-> old]}, {[at |-> 0, value |-> old], [at |-> clock', value |-> new]}}

\* Mutant: the newest row served, whenever it was published.
Latest_Served(rows, t) == {r \in rows : \A q \in rows : q.at <= r.at}

\* The newest row published by t; none is none.
Latest(rows, t) ==
  LET known == {r \in rows : r.at <= t}
  IN {r \in known : \A q \in known : q.at <= r.at}

ReadFactors ==
  /\ pc = "factors"
  /\ clock' = clock + 1
  /\ \/ factors' = NoFactors
     \/ \E macro \in Published(Full, -Full), fundamentals \in Published(Full, Full) :
          factors' = [failed |-> FALSE, macro |-> Latest(macro, cutoff),
                      fundamentals |-> Latest(fundamentals, cutoff)]
  /\ pc' = "flow"
  /\ UNCHANGED <<setBack, refusal, horizon, mode, bars, evidence, cutoff, packet, flow, decision, attempts, briefing>>

(* The gateway's snapshot is asked for after the cutoff.  It stamps flow rows
   and the minutes' candles with the time it received them: in this request,
   or in one of another caller's that this one joined.  Holdings carry their
   disclosure's own time.                                                    *)
ReadFlow ==
  /\ pc = "flow"
  /\ clock' = clock + 1
  /\ \/ flow' = NoFlow
     \/ flow' = [NoFlow EXCEPT !.outcome = "unreachable"]
     \/ \E received \in {cutoff, clock'}, holdings \in Published(-Full, Full) :
          \E live \in SUBSET {Full} :
            flow' = [outcome |-> "read",
                     proxy |-> Latest({[at |-> received, value |-> v] : v \in live}, cutoff),
                     holdings |-> Latest(holdings, cutoff)]
  /\ pc' = "score"
  /\ UNCHANGED <<setBack, refusal, horizon, mode, bars, evidence, cutoff, packet, factors, decision, attempts, briefing>>

-----------------------------------------------------------------------------
(* The score.                                                                *)

Names == {"trend", "momentum", "pattern", "sentiment", "macro", "geopolitics",
          "institutional", "fundamentals"}

\* Percent of the score each factor carries.
Weights ==
  [short |-> [trend |-> 25, momentum |-> 15, pattern |-> 10, sentiment |-> 20, macro |-> 5,
              geopolitics |-> 5, institutional |-> 15, fundamentals |-> 5],
   swing |-> [trend |-> 20, momentum |-> 12, pattern |-> 12, sentiment |-> 14, macro |-> 10,
              geopolitics |-> 8, institutional |-> 12, fundamentals |-> 12],
   long |-> [trend |-> 12, momentum |-> 8, pattern |-> 8, sentiment |-> 10, macro |-> 18,
             geopolitics |-> 10, institutional |-> 8, fundamentals |-> 26]]

Value(rows) == IF rows = {} THEN None ELSE (CHOOSE r \in rows : TRUE).value

\* blend: a filed disclosure counts in full, the order-size proxy for half.
Institutional ==
  LET p == Value(flow.proxy)  d == Value(flow.holdings)
  IN CASE p = None -> d
       [] p # None /\ d = None -> Truncated(p, 2)
       [] OTHER -> Truncated(p + 2 * d, 3)

\* extract_horizon_features: None is a factor nothing could read.
Feature ==
  [trend |-> IF bars.span = "full" THEN Full * bars.lean ELSE None,
   momentum |-> IF bars.span = "full" THEN Full * bars.lean ELSE None,
   pattern |-> IF bars.span = "tiny" THEN None ELSE Full * bars.lean,
   sentiment |-> packet.sentiment,
   macro |-> Value(factors.macro),
   geopolitics |-> None,
   institutional |-> Institutional,
   fundamentals |-> Value(factors.fundamentals)]

\* STALE_DATA and INSUFFICIENT_EVIDENCE; nothing supplies the other gates here.
Gates ==
  {g \in {"stale_data"} : cutoff - bars.at > Budget}
    \cup {g \in {"insufficient_evidence"} : packet.confidence < 35}

\* score_horizon: the weight of what is missing goes to what was measured.
Score ==
  LET feature == Feature
      available == {n \in Names : feature[n] # None}
      weight == SumFunctionOnSet(Weights[horizon], available)
      lean == SumFunction([n \in available |-> Weights[horizon][n] * feature[n]])
  IN [value |-> IF weight = 0 THEN 50 ELSE 50 + Truncated(50 * lean, Full * weight),
      direction |-> CASE weight > 0 /\ 50 * lean >= 8 * Full * weight -> "bullish"
                      [] weight > 0 /\ 50 * lean <= -8 * Full * weight -> "bearish"
                      [] OTHER -> "neutral",
      actionable |-> Gates = {} /\ weight > 0]

\* estimate_annualized_volatility: enough returns, of prices that moved.
VolatilityMeasured == bars.span = "full" /\ bars.lean # 0

\* build_scenario_forecast: the odds of each scenario, in thousandths.
Forecast(score) ==
  [bear |-> 300 - 4 * (score.value - 50), base |-> 400, bull |-> 300 + 4 * (score.value - 50)]

\* build_risk_plan; no borrow data reaches it, so a short is never planned.
Plan(score) ==
  CASE score.actionable /\ score.direction = "bullish" -> "long"
    [] score.actionable /\ score.direction = "neutral" -> "watch"
    [] OTHER -> "avoid"

(* DecisionInputs refuses a price that became available after the cutoff.
   Without a measured volatility there is no forecast, and so no plan.
   What was read is not looked at again once it was scored.                  *)
Evaluate ==
  /\ pc = "score"
  /\ IF bars.at > cutoff
     THEN pc' = "failed" /\ UNCHANGED decision
     ELSE /\ LET score == Score
             IN decision' = [value |-> score.value, direction |-> score.direction,
                             actionable |-> score.actionable, blocked |-> Gates,
                             odds |-> IF VolatilityMeasured THEN Forecast(score) ELSE <<>>,
                             plan |-> IF VolatilityMeasured THEN Plan(score) ELSE "none"]
          /\ pc' = "brief"
  /\ bars' = NoBars /\ factors' = NoFactors /\ flow' = NoFlow
  /\ UNCHANGED <<evidence, clock, setBack, refusal, horizon, mode, cutoff, packet, attempts, briefing>>

-----------------------------------------------------------------------------
(* The council of advisers.                                                  *)

Refused(m) ==
  [briefing EXCEPT !.news = "unavailable",
                   !.council = IF m = "full" THEN "unavailable" ELSE "not_requested",
                   !.usage = FALSE]

Finish(block) ==
  IF block = "news" /\ mode = "full" THEN "council" ELSE "done"

\* Mutant: a gate voids only what would lower the score.
HardGate_UpwardsPasses(proposed, gates) == IF gates # {} /\ proposed < 0 THEN 0 ELSE proposed

\* apply_hard_gate.
HardGate(proposed, gates) == IF gates # {} THEN 0 ELSE proposed

(* The mode is the request's adviser parameter, first acted on here.  No SDK,
   no credential or nothing to quote: no call is made.                       *)
Brief ==
  /\ pc = "brief"
  /\ mode' \in Modes
  /\ \/ mode' = "off" /\ pc' = "done" /\ UNCHANGED briefing
     \/ mode' # "off" /\ pc' = "done" /\ briefing' = Refused(mode')
     \/ mode' # "off" /\ packet.quotable /\ pc' = "news" /\ UNCHANGED briefing
  /\ UNCHANGED <<clock, setBack, refusal, horizon, inputs, cutoff, packet, decision, attempts>>

Passages == {"in the packet", "in no packet"}

(* trace_interpretation, trace_brief: every conclusion cites, every citation
   is found in the packet word for word, and the prose between them names no
   figure and no ticker the packet does not.                                 *)
Traceable(conclusions, grounded) ==
  grounded /\ \A cited \in conclusions : cited # {} /\ cited \subseteq {"in the packet"}

\* The model answered; one conclusion that cannot be traced refuses the block.
ModelAnswers(block) ==
  /\ pc = block
  /\ \E conclusions \in SUBSET SUBSET Passages, grounded \in BOOLEAN :
       \E proposed \in {-Cap, 0, Cap} :
         LET traced == Traceable(conclusions, grounded)
         IN briefing' = [briefing EXCEPT
              ![block] = IF traced THEN "available" ELSE "unavailable",
              !.proposed = IF block = "council" /\ traced
                           THEN HardGate(proposed, decision.blocked) ELSE @,
              !.usage = TRUE]
  /\ attempts' = 0 /\ pc' = Finish(block)
  /\ UNCHANGED <<clock, setBack, refusal, horizon, mode, inputs, cutoff, packet, decision>>

\* A transport failure is tried again, up to MaxAttempts; a refusal is not.
CallFails(block) ==
  /\ pc = block
  /\ \/ attempts + 1 < MaxAttempts /\ attempts' = attempts + 1 /\ UNCHANGED <<pc, briefing>>
     \/ /\ briefing' = [briefing EXCEPT ![block] = "unavailable"]
        /\ attempts' = 0 /\ pc' = Finish(block)
  /\ UNCHANGED <<clock, setBack, refusal, horizon, mode, inputs, cutoff, packet, decision>>

\* An exception the adviser did not expect loses both blocks and what they cost.
AdviserFails ==
  /\ pc \in {"news", "council"}
  /\ briefing' = Refused(mode) /\ attempts' = 0 /\ pc' = "done"
  /\ UNCHANGED <<clock, setBack, refusal, horizon, mode, inputs, cutoff, packet, decision>>

Next ==
  \/ Admit \/ SetBack \/ ReadBars \/ ReadEvidence \/ TakeCutoff \/ ReadFactors \/ ReadFlow
  \/ Evaluate \/ Brief \/ AdviserFails
  \/ \E block \in {"news", "council"} : ModelAnswers(block) \/ CallFails(block)

Spec == Init /\ [][Next]_vars

-----------------------------------------------------------------------------
(* The answer.                                                               *)

Clamped(v) == IF v < 0 THEN 0 ELSE IF v > 100 THEN 100 ELSE v

\* served_score: a council that did not meet moves nothing.
Served ==
  IF briefing.council = "available" THEN Clamped(decision.value + briefing.proposed)
  ELSE decision.value

Decided == (pc = "score") /\ pc' = "brief"

(* Nothing that enters a decision became known after its cutoff: not a
   candle, an event, a factor's row, a flow row or a disclosure, although
   half of them are read after it was taken and the clock may be set back.   *)
OnlyWhatWasKnown ==
  [][/\ (pc = "cutoff") => \A e \in packet'.counted : evidence[e] <= cutoff'
     /\ Decided =>
          /\ bars.at <= cutoff
          /\ \A r \in factors.macro \cup factors.fundamentals
                      \cup flow.proxy \cup flow.holdings : r.at <= cutoff]_vars

(* Breaking news counts in the request that fetched it: unless the clock was
   set back, nothing the request itself read is set aside as future.         *)
OwnReadingsCount == ~setBack => packet.late = {}

(* A gated decision cannot be talked back up: it plans no position, and the
   council, whose blocks were asked for before anyone knew the other's
   outcome, moves a gated score not at all and any other within its cap: so
   little that what is served never contradicts the scenarios or a position,
   both of which were drawn from the score before the council met.           *)
GateHolds ==
  pc = "done" =>
    /\ decision.blocked # {} => Served = decision.value /\ decision.plan \in {"none", "avoid"}
    /\ Served - decision.value \in -Cap .. Cap
    /\ decision.plan = "long" =>
         Served > 50 /\ decision.odds.bull > decision.odds.bear

(* A series that stopped more than its budget before the cutoff is gated.    *)
StoppedFeedIsGated ==
  pc = "score" /\ cutoff - bars.closed > Budget => "stale_data" \in Gates

\* The publisher a report comes from: the one it relays, or its own.
From(e) == IF Event[e].origin = Nobody THEN Event[e].publisher ELSE Event[e].origin

(* Two accounts: neither is a copy of the other, they come from different
   publishers, and the owners of these differ where S holds their reports.   *)
TwoAccounts(d, e, S) ==
  /\ Event[d].text # Event[e].text /\ From(d) # From(e)
  /\ \A x, y \in S :
       Event[x].publisher = From(d) /\ Event[y].publisher = From(e) =>
         Event[x].owner # Event[y].owner

(* A report of C that was corrected: then all of them were, and none is newer. *)
Reinstated(e, C) ==
  \A c \in C : /\ Event[c].revision <= Event[e].revision
              /\ \E d \in C \ {c} : Event[d].revises = c

(* Whatever each read happened to return (clustering.py), what counts is no
   rumour; it was not corrected, unless corrections go round and it has the
   last word; and what counts of a story rests on an authoritative source or on
   two accounts, as far as the reports that count tell them apart: who owns the
   source of a relay is known only if that source's own report counts as well.
   A story is all that is joined, directly or through others: two reports of
   different figures are one story when a third, quoting none, is in between.*)
CorroboratedOnly ==
  [][pc = "cutoff" =>
       LET seen == Visible(evidence, cutoff')
           counted == packet'.counted
       IN  /\ counted \subseteq seen
           /\ \A C \in Clusters(seen) :
                /\ \A e \in C \cap counted :
                     /\ Event[e].status # "rumour"
                     /\ \/ \A d \in seen \ {e} : Event[d].revises # e
                        \/ Reinstated(e, C)
                /\ C \cap counted # {} =>
                     \/ \E e \in C \cap counted : Authoritative(e)
                     \/ \E d, e \in C \cap counted : TwoAccounts(d, e, C \cap counted)]_vars
=============================================================================
