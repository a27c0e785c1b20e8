---------------------------- MODULE EvidencePacket ----------------------------
(***************************************************************************)
(* How the information layer turns the evidence of one read into the few   *)
(* events a decision may count: pipeline.EvidencePacketBuilder,            *)
(* clustering.build_clusters, sentiment.assess_sentiment and the           *)
(* DecisionEngine's own selection.  Pure operators, no state.              *)
(*                                                                         *)
(* An event is known by its number, and Event[e] is what its publisher     *)
(* and the feed adapter said of it:                                        *)
(*   keys         its claim, content, accession and story keys             *)
(*   text         its wording: two copies of one report share it           *)
(*   publisher    who published it; owner: who owns that publisher         *)
(*   origin       the publisher it was syndicated from, Nobody if none     *)
(*   status       "verified", "reported" or "rumour"                       *)
(*   reliability, confidence   in percent                                  *)
(*   measured     whether its sentiment (-1, 0 or 1) could be read at all  *)
(*   relevant     it names the symbol or carries a market-wide tag         *)
(*   revises      the event it corrects, itself when it corrects none;     *)
(*   revision     how many corrections it is away from the first wording   *)
(* A publisher that goes back to an earlier wording announces the event of *)
(* that wording again, now as a correction of its own correction: the      *)
(* feeds' store keeps the last announcement of an event only, and so two   *)
(* events may revise each other.                                           *)
(* A read is a function from the events it returned to the time each       *)
(* became available.  The order of two events is the order of numbers, as  *)
(* the code sorts by event id.  Weights by age and reliability inside an   *)
(* average are left out: an average here is over the events.               *)
(***************************************************************************)
EXTENDS Integers, FiniteSets, FiniteSetsExt, Folds

CONSTANTS Event, Nobody

\* EvidenceEvent refuses what is out of these ranges; owner_by_publisher knows
\* one owner of a publisher.
ASSUME EventAssumption ==
  /\ DOMAIN Event \subseteq Nat /\ IsFiniteSet(DOMAIN Event)
  /\ \A e \in DOMAIN Event :
       /\ Event[e].reliability \in 0 .. 100 /\ Event[e].confidence \in 0 .. 100
       /\ Event[e].sentiment \in -1 .. 1 /\ Event[e].revision \in Nat
       /\ Event[e].publisher # Nobody
       /\ \A d \in DOMAIN Event :
            Event[d].publisher = Event[e].publisher => Event[d].owner = Event[e].owner

\* FactorReadings in sixths of full strength; no source at all is None.
Full == 6
None == 100
Readings == -Full .. Full
Truncated(a, b) == IF a < 0 THEN -((-a) \div b) ELSE a \div b

\* is_visible_at and the focus on one symbol.
Visible(read, cutoff) == {e \in DOMAIN read : read[e] <= cutoff /\ Event[e].relevant}

\* excluded_future_event_ids: set aside, whatever their subject, and named.
Future(read, cutoff) == {e \in DOMAIN read : read[e] > cutoff}

\* One of the keys _cluster_events joins on, same_story among them, or a revision.
Joined(d, e) ==
  Event[d].keys \cap Event[e].keys # {} \/ Event[d].revises = e \/ Event[e].revises = d

\* The events joined to each other, directly or through others.
Clusters(seen) ==
  LET closed == {C \in SUBSET seen \ {{}} : \A c \in C, d \in seen \ C : ~Joined(c, d)}
  IN {C \in closed : \A D \in closed : D \subseteq C => D = C}

\* _revision_sort_key: of two reports, the one revised more often, or later.
Newer(d, e, read) ==
  \/ Event[d].revision > Event[e].revision
  \/ /\ Event[d].revision = Event[e].revision
     /\ \/ read[d] > read[e]
        \/ read[d] = read[e] /\ d > e

Newest(C, read) == {e \in C : \A d \in C \ {e} : Newer(e, d, read)}

\* What no event of the cluster corrects; when corrections go round, the newest.
Active(C, read) ==
  LET standing == {e \in C : \A d \in C \ {e} : Event[d].revises # e}
  IN IF standing # {} THEN standing ELSE Newest(C, read)

\* Rumours apart: action_active.
Action(C, read) == {e \in Active(C, read) : Event[e].status # "rumour"}

\* _distinct_reports: of copies of one report, the first.
Reports(S) == {e \in S : \A d \in S : Event[d].text = Event[e].text => e <= d}

\* Mutant: a syndicated copy counts as its own source.
Identity_Publisher(e, S) == Event[e].owner

(* _independence_key: a relayed report belongs to whom it came from.  Who owns
   that publisher is known only if its own report is among those at hand.    *)
Identity(e, S) ==
  LET from == {x \in S : Event[x].publisher = Event[e].origin}
  IN IF Event[e].origin = Nobody THEN Event[e].owner
     ELSE IF from = {} THEN Event[e].origin
     ELSE Event[Max(from)].owner

Identities(reports, S) == {Identity(e, S) : e \in reports}

\* One less the chance that every distinct source is wrong, in percent.
Distrust(S) ==
  LET best(o) == Max({Event[e].reliability : e \in {x \in S : Identity(x, S) = o}})
  IN MapThenFoldSet(LAMBDA x, y : (x * y) \div 100, 100, LAMBDA o : 100 - best(o),
                    LAMBDA T : CHOOSE o \in T : TRUE, Identities(S, S))

Authoritative(e) == Event[e].status = "verified" /\ Event[e].reliability >= 80

\* The confirmation gate of _summarize_cluster.
Actionable(C, read) ==
  LET S == Action(C, read)
  IN /\ S # {}
     /\ \/ \E e \in S : Authoritative(e)
        \/ Cardinality(Identities(Reports(S), S)) >= 2
     /\ 100 - Distrust(S) >= 65

\* _actionable_event_ids: the events a decision may count.
Counted(clusters, read) ==
  UNION {Action(C, read) : C \in {D \in clusters : Actionable(D, read)}}

Average(f) == Truncated(SumFunction(f), Cardinality(DOMAIN f))
Sentiment(S) == Average([e \in S |-> Full * Event[e].sentiment])
Read(S) == {e \in S : Event[e].measured}

(* A cluster counts as read when any event in it was, a rumour or a corrected
   one included; its sentiment is that of its own read events, 0 with none.  *)
ClusterSentiment(C, read) ==
  LET own == Read(Action(C, read)) IN IF own = {} THEN 0 ELSE Sentiment(own)

MarketWide(clusters, read) ==
  LET measured == {C \in clusters : Actionable(C, read) /\ Read(C) # {}}
  IN IF measured = {} THEN None
     ELSE Average([C \in measured |-> ClusterSentiment(C, read)])

\* The market_sentiment factor: 0.6 of the packet's reading, 0.4 of the records'.
MarketSentiment(clusters, read) ==
  LET wide == MarketWide(clusters, read)
      own == Read(Counted(clusters, read))
  IN IF own = {} THEN wide
     ELSE IF wide = None THEN Sentiment(own)
     ELSE Truncated(6 * wide + 4 * Sentiment(own), 10)

\* evidence_confidence, in percent: the mean of confidence times reliability.
Confidence(S) ==
  IF S = {} THEN 0
  ELSE Average([e \in S |-> (Event[e].confidence * Event[e].reliability) \div 100])
=============================================================================
