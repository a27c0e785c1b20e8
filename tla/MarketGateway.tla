---------------------------- MODULE MarketGateway -----------------------------
(***************************************************************************)
(* One request to the market gateway                                       *)
(* (src/services/market_gateway): who is let in (http_gateway.py), the     *)
(* health check before every operation, the operation against moomoo OpenD *)
(* (opend_adapter.py) with its paging and its bisection of refused         *)
(* watchlists, and what the service answers (service.py).  OpenD, the      *)
(* clock, which may also be set back, and the caller are the environment.  *)
(* How the sources of a v3 snapshot race their deadlines is the matter of  *)
(* SnapshotCollector; here each of them has given a batch or has failed.   *)
(***************************************************************************)
EXTENDS SnapshotDocument

CONSTANTS MaxListed,        \* bound: the securities of a watchlist
          Keys, None,       \* page keys, and no (further) page
          MaxPages,         \* the page safety limit (20)
          MaxCount,         \* the largest number of candles asked for (1000)
          Lan,              \* allow_lan
          MaxTime, MaxJumps \* bounds: the clock, and how often it is set back

ASSUME GatewayAssumption ==
    /\ None \notin Keys /\ Lan \in BOOLEAN
    /\ MaxPages \in Nat \ {0} /\ MaxCount \in Nat \ {0}
    /\ {SessionMaxAge, ResponseMaxAge, MaxListed, MaxTime, MaxJumps} \subseteq Nat

Symbols == 1 .. MaxListed     \* the n-th security of a group is called n
Snapshots == {"v2", "v3"}
Kinds == {"health", "watchlist", "quotes", "candles", "flow", "distribution", "holdings"}
         \cup Snapshots
SourceOf == [k \in Kinds |-> IF k \in {"watchlist", "quotes"} THEN "quote" ELSE k]

VARIABLES
    now, jumps,     \* the wall clock
    pc, kind,       \* where the request is, and what it asks for
    count,          \* candles: how many
    health,         \* the session as checked: [state, checked]
    list,           \* the securities of the group, or those asked for, in order
    work, refused,  \* watchlist: batches still to be asked, codes refused alone
    rows,           \* the rows received so far
    pages, more,    \* paging: the keys asked for, and the key of the next page
    batches, failed,\* what the sources gave, which of a snapshot's failed
    answer          \* the last answer

clock == <<now, jumps>>
adapter == <<list, work, refused, rows, pages, more>>
vars == <<clock, pc, kind, count, health, adapter, batches, failed, answer>>

NoAnswer == [how |-> "none", cutoff |-> 0, rows |-> <<>>, document |-> NoDocument]

Init ==
    /\ now = 1 /\ jumps = 0
    /\ pc = "idle" /\ kind = "health" /\ count = 1
    /\ health = [state |-> "healthy", checked |-> 0]
    /\ list = <<>> /\ work = <<>> /\ refused = {}
    /\ rows = <<>> /\ pages = <<>> /\ more = None
    /\ batches = <<>> /\ failed = {}
    /\ answer = NoAnswer

Reply(a) == pc' = "idle" /\ answer' = a
Error == Reply([NoAnswer EXCEPT !.how = "error"])
Go(label) == pc' = label /\ answer' = answer
Keeps(data) == UNCHANGED <<clock, kind, count, data>>

-----------------------------------------------------------------------------
(* GatewayApplication.handle: what is refused costs no call to OpenD.      *)

Admitted(method, net, origin, token) ==
    /\ method = "GET" /\ net
    /\ origin \in {"none", "allowed"}
    /\ Lan => token

\* Nothing is kept from one request to the next: one is enough.
Request(k, n, method, net, origin, token) ==
    /\ pc = "idle" /\ answer = NoAnswer
    /\ kind' = k /\ count' = n
    /\ IF Admitted(method, net, origin, token) THEN pc' = "check" /\ answer' = NoAnswer
       ELSE Error
    /\ UNCHANGED <<clock, health, adapter, batches, failed>>

-----------------------------------------------------------------------------
(* _safe_health, then _health_state against a second reading of the clock  *)

CheckHealth(state) ==
    /\ pc = "check"
    /\ health' = [state |-> state, checked |-> now]
    /\ Go("observe")
    /\ Keeps(<<adapter, batches, failed>>)

HealthState(h, t) ==
    CASE h.checked > t -> "malformed"
      [] t - h.checked > SessionMaxAge -> "stale"
      [] OTHER -> h.state

\* _unhealthy_snapshot_v3_sections: a v3 snapshot says what is missing.
UnhealthyV3(t) ==
    [NoAnswer EXCEPT !.how = "v3", !.cutoff = t,
                     !.document = SnapshotV3(<<>>, Sources, t)]

Observe ==
    /\ pc = "observe"
    /\ LET state == HealthState(health, now)
       IN IF kind = "health"
          THEN Reply([NoAnswer EXCEPT !.how = state, !.cutoff = now])
          ELSE IF state # "healthy"
          THEN IF kind = "v3" THEN Reply(UnhealthyV3(now)) ELSE Error
          ELSE Go(IF kind \in Snapshots THEN "fetch" ELSE "connect")
    /\ Keeps(<<health, adapter, batches, failed>>)

-----------------------------------------------------------------------------
(* The operations of MoomooOpenDProvider                                   *)

\* _quote_context, and for a watchlist its group
Connect(symbols) ==
    /\ pc = "connect"
    /\ list' = IF kind \in {"watchlist", "quotes"} THEN symbols ELSE <<>>
    /\ work' = IF kind # "watchlist" \/ list' = <<>> THEN <<>> ELSE <<list'>>
    /\ Go(IF kind \in {"candles", "holdings"} THEN "page"
          ELSE IF kind # "watchlist" THEN "call"
          ELSE IF list' = <<>> THEN "receive" ELSE "bisect")
    /\ Keeps(<<health, refused, rows, pages, more, batches, failed>>)

\* OpenD is unreachable, a call fails, or a row cannot be read.
CallFails ==
    /\ pc \in {"connect", "call", "bisect", "page", "respond", "finish"}
    /\ pc = "finish" => kind # "v3"
    /\ Error
    /\ Keeps(<<health, adapter, batches, failed>>)

\* get_market_snapshot, get_capital_flow, get_capital_distribution
Call(found) ==
    /\ pc = "call"
    /\ rows' = found
    /\ Go("respond")
    /\ Keeps(<<health, list, work, refused, pages, more, batches, failed>>)

\* _watchlist_snapshots, its recursion as a stack: PROVIDER_ERROR splits a
\* batch in halves, down to the one code that is refused.
Halves(s) == LET mid == Len(s) \div 2
             IN <<SubSeq(s, 1, mid), SubSeq(s, mid + 1, Len(s))>>

Remaining(s) == IF Len(s) = 1 THEN Tail(work) ELSE Halves(s) \o Tail(work)

Refusal(s) == IF Len(s) = 1 THEN {s[1]} ELSE {}

\* What of a sequence is in a set, in the order of the sequence.
Those(s, keep) ==
    LET part[i \in 0 .. Len(s)] ==
          IF i = 0 THEN <<>>
          ELSE IF s[i] \in keep THEN Append(part[i - 1], s[i]) ELSE part[i - 1]
    IN part[Len(s)]

\* a batch is accepted, with rows for the symbols of reply, or refused
Bisect(accepted, reply) ==
    /\ pc = "bisect"
    /\ LET batch == Head(work)
       IN IF accepted
          THEN /\ work' = Tail(work) /\ refused' = refused
               /\ rows' = rows \o Those(batch, reply)
          ELSE /\ work' = Remaining(batch) /\ rows' = rows
               /\ refused' = refused \cup Refusal(batch)
    /\ Go(IF work' = <<>> THEN "respond" ELSE "bisect")
    /\ Keeps(<<health, list, pages, more, batches, failed>>)

\* Mutant: a page key that comes back is not noticed.
Repeats_Unnoticed(next) == FALSE

\* request_history_kline and get_shareholders_institutional: a page is one
\* row here.  Only candles watch for a key that comes back.
Repeats(next) == kind = "candles" /\ next \in ToSet(pages) \cup {more}

LimitReached(read) == Len(read) = MaxPages

Page(row, next) ==
    /\ pc = "page"
    /\ pages' = Append(pages, more)
    /\ rows' = Append(rows, row)
    /\ more' = next
    /\ CASE next = None -> Go("respond")
         [] next # None /\ (Repeats(next) \/ LimitReached(pages')) -> Error
         [] OTHER -> Go("page")
    /\ Keeps(<<health, list, work, refused, batches, failed>>)

\* The rows become items at one reading of the clock, the batch is stamped at
\* the next (flows: at the same).  A listed symbol without a row must have been refused alone.  Of
\* the bars, sorted by their close, the last `count' are kept, and among those
\* the service will pass over the ones that have not closed yet.
Ascending(s) ==
    LET place == CHOOSE p \in Bijection(DOMAIN s, DOMAIN s) :
                     \A i, j \in DOMAIN s : i < j => s[p[i]] <= s[p[j]]
    IN [i \in DOMAIN s |-> s[place[i]]]
LastOnes(s) == IF Len(s) <= count THEN s ELSE SubSeq(s, Len(s) - count + 1, Len(s))
Bars(t) == LET closed == Those(LastOnes(Ascending(rows)), {close \in ToSet(rows) : close <= t})
           IN [i \in DOMAIN closed |-> Row("own", closed[i], t, TRUE)]
Quotes(t) == LET quoted == Those(list, ToSet(rows))
             IN [i \in DOMAIN quoted |-> Row(quoted[i], t, t, TRUE)]
Disclosures(t) == [i \in DOMAIN rows |-> Row("own", 0, t, TRUE)]
Flows(t) == LET starts == Ascending(rows)
            IN [i \in DOMAIN starts |-> Row("own", starts[i], t, TRUE)]
Totals(t) == [i \in DOMAIN rows |-> Row("own", 0, t, rows[i] >= 0)]

\* Mutant: a symbol without a row is left out, refused or not.
Incomplete_Unchecked == rows = <<>>

Incomplete == \/ rows = <<>>
              \/ \E c \in ToSet(list) : c \notin ToSet(rows) /\ c \notin refused

\* updated: the exchange's own time of quotes and disclosures, which may be
\* ahead of this clock
Respond(updated) ==
    /\ pc = "respond"
    /\ IF kind = "watchlist" /\ Incomplete THEN Error /\ UNCHANGED batches
       ELSE /\ Go(IF kind = "flow" THEN "finish" ELSE "receive")
            /\ batches' = [s \in {SourceOf[kind]} |->
                   Batch(IF kind = "flow" THEN now ELSE 0,
                         CASE kind \in {"watchlist", "quotes"} -> Quotes(updated)
                           [] kind = "candles" -> Bars(now)
                           [] kind = "flow" -> Flows(now)
                           [] kind = "distribution" -> Totals(updated)
                           [] kind = "holdings" -> Disclosures(updated))]
    /\ Keeps(<<health, adapter, failed>>)

Receive ==
    /\ pc = "receive"
    /\ LET s == SourceOf[kind]
           items == IF s \in DOMAIN batches THEN batches[s].rows ELSE <<>>
       IN batches' = [x \in {s} |-> Batch(now, items)]
    /\ Go("finish")
    /\ Keeps(<<health, adapter, failed>>)

-----------------------------------------------------------------------------
(* The four sources of a snapshot: v2 asks one after the other and gives up*)
(* at the first failure, v3 asks all and notes the failures.               *)

InOrder == <<"quote", "candles", "flow", "holdings">>
Asked == DOMAIN batches \cup failed
Turn(s) == pc = "fetch" /\ s = InOrder[Cardinality(Asked) + 1]

\* received: v2 waits for each source, those of v3 have answered meanwhile
Fetch(s, received, items) ==
    /\ Turn(s) /\ failed' = failed
    /\ received \in (IF kind = "v2" THEN {now} ELSE {now - 1, now})
    /\ batches' = [x \in DOMAIN batches \cup {s} |->
                      IF x = s THEN Batch(received, items) ELSE batches[x]]
    /\ Go(IF Cardinality(Asked) = 3 THEN "finish" ELSE "fetch")
    /\ Keeps(<<health, adapter>>)

FetchFails(s) ==
    /\ Turn(s)
    /\ IF kind = "v2" THEN Error /\ UNCHANGED failed
       ELSE /\ failed' = failed \cup {s}
            /\ Go(IF Cardinality(Asked) = 3 THEN "finish" ELSE "fetch")
    /\ Keeps(<<health, adapter, batches>>)

-----------------------------------------------------------------------------
(* The decision cutoff is one more reading of the clock.                   *)

Execute(s) ==       \* the end of _execute
    LET batch == batches[s]
    IN IF /\ Validated(batch, now) = "ok" /\ Normal(s, batch.rows, now) = "ok"
          /\ Latest(batch.rows, batch.received) <= batch.received
       THEN Reply([NoAnswer EXCEPT !.how = "ok", !.cutoff = now, !.rows = batch.rows])
       ELSE Error

Finish ==
    /\ pc = "finish"
    /\ CASE kind = "v2" ->
              LET document == SnapshotV2(batches, now)
              IN IF document = NoDocument THEN Error
                 ELSE Reply([NoAnswer EXCEPT !.how = "v2", !.cutoff = now,
                                             !.document = document])
         [] kind = "v3" ->
              Reply([NoAnswer EXCEPT !.how = "v3", !.cutoff = now,
                                     !.document = SnapshotV3(batches, failed, now)])
         [] OTHER -> Execute(SourceOf[kind])
    /\ Keeps(<<health, adapter, batches, failed>>)

-----------------------------------------------------------------------------
(* The environment                                                         *)

Tick == /\ pc # "idle" /\ now < MaxTime
        /\ now' = now + 1
        /\ UNCHANGED <<jumps, pc, kind, count, health, adapter, batches, failed, answer>>

SetBack == /\ pc # "idle" /\ now > 0 /\ jumps < MaxJumps
           /\ now' = now - 1 /\ jumps' = jumps + 1
           /\ UNCHANGED <<pc, kind, count, health, adapter, batches, failed, answer>>

\* What OpenD may give for a source of a snapshot: quotes and disclosures
\* carry the exchange's time, bars and flows that of their receipt.
Fine(t) == Row("own", t, t, TRUE)
Bad(t) == Row("own", t, t, FALSE)
Contents(s, t) ==
    CASE s = "quote" -> {<<>>, <<Fine(t)>>, <<Fine(t + 1)>>}
      [] s = "candles" -> {<<>>, <<Fine(t)>>}
      [] s = "flow" -> {<<>>, <<Fine(t)>>, <<Row("own", t + 1, t, TRUE)>>}
      [] s = "holdings" ->
           LET old == Row("own", 0, t - 1, TRUE)
               over == [Fine(t) EXCEPT !.over = TRUE]
           IN {<<>>, <<Fine(t), old>>, <<Fine(t + 1), Fine(t)>>, <<Fine(t + 1)>>,
               <<over, old>>, <<Bad(t), old>>, <<Bad(t)>>}

Lists == {[i \in 1 .. n |-> i] : n \in 0 .. MaxListed}

\* quotes: some of the codes; flows: when they began; totals: -1 is invalid
Replies == CASE kind = "quotes" -> {Those(list, got) : got \in SUBSET ToSet(list)}
             [] kind = "flow" -> UNION {[1 .. n -> 0 .. MaxTime] : n \in 0 .. 2}
             [] OTHER -> {<<>>, <<0>>, <<-1>>}

Requested ==
    \E k \in Kinds, n \in 1 .. MaxCount :
        /\ k # "candles" => n = 1
        /\ \/ Request(k, n, "GET", TRUE, "none", TRUE)
           \/ \E method \in {"GET", "POST"}, net \in BOOLEAN,
                 origin \in {"none", "allowed", "foreign"}, token \in BOOLEAN :
                    k = "health" /\ Request(k, n, method, net, origin, token)

Step == \/ \E state \in {"healthy", "login-required"} : CheckHealth(state)
        \/ Observe
        \/ \E l \in Lists :
              /\ kind \notin {"watchlist", "quotes"} => l = <<>>
              /\ kind = "quotes" => l # <<>>
              /\ Connect(l)
        \/ \E found \in Replies : Call(found)
        \/ CallFails
        \/ pc = "bisect" /\ \E reply \in SUBSET ToSet(Head(work)) :
               Bisect(TRUE, reply) \/ (reply = {} /\ Bisect(FALSE, reply))
        \/ \E next \in Keys \cup {None}, close \in 0 .. MaxTime :
               (kind = "candles" \/ close = 0) /\ Page(close, next)
        \/ \E updated \in {now, now + 1} : Respond(updated)
        \/ Receive
        \/ \E s \in Sources : FetchFails(s)
        \/ \E s \in Sources, t \in {now - 1, now} : \E items \in Contents(s, t) : Fetch(s, t, items)
        \/ Finish

Next == Requested \/ Step \/ Tick \/ SetBack

Spec == Init /\ [][Next]_vars

-----------------------------------------------------------------------------
(* Properties                                                              *)

Served == ToSet(answer.rows)

\* However the pager behaves, it is asked at most MaxPages times, and a paged
\* answer is never a truncated one.  Candles that are served are the newest
\* OpenD has: every page was read once, no bar is missing after an older one
\* that is served, none is there before it has closed, and none twice.  A capital
\* flow is served with every interval OpenD gave, once, in their order.
SeriesIsWhole ==
    /\ Len(pages) <= MaxPages
    /\ kind \in {"candles", "holdings"} /\ answer.how = "ok" => more = None
    /\ kind = "candles" /\ answer.how = "ok" =>
         LET bars == {bar.at : bar \in Served}
             left == {close \in ToSet(rows) : close \notin bars}
         IN /\ IsInjective(pages)
            /\ Cardinality(bars) = Len(answer.rows)
            /\ \A bar \in Served : bar.at <= bar.avail
            /\ \A close \in left :
                  \/ Len(rows) > count /\ \A bar \in Served : close < bar.at
                  \/ \A bar \in Served : bar.avail < close
    /\ kind = "flow" /\ answer.how = "ok" =>
         /\ {interval.at : interval \in Served} = ToSet(rows)
         /\ \A i, j \in DOMAIN answer.rows : i < j => answer.rows[i].at < answer.rows[j].at

\* A watchlist is served in its order, and only the codes that OpenD refused
\* when they were asked for alone are left out.
WatchlistIsWhole ==
    kind = "watchlist" /\ answer.how = "ok" =>
        /\ [i \in DOMAIN answer.rows |-> answer.rows[i].symbol]
             = Those(list, ToSet(list) \ refused)
        /\ \A c \in refused : c \notin ToSet(rows)

\* Whatever the clocks of the exchange and of the gateway do, nothing is served
\* that was not there at the cutoff, or whose receipt lies too far back.
NothingFromTheFuture ==
    LET kept(s) == IF s = "holdings" /\ answer.how = "v3"
                   THEN ToSet(HoldingsV3(batches[s].rows, answer.cutoff,
                                         batches[s].received).kept)
                   ELSE DOMAIN batches[s].rows
        served == CASE answer.how = "ok" -> {SourceOf[kind]}
                    [] answer.how \in Snapshots -> answer.document.served
                    [] OTHER -> {}
    IN \A s \in served :
          /\ batches[s].received \in answer.cutoff - ResponseMaxAge .. answer.cutoff
          /\ \A i \in kept(s) : batches[s].rows[i].avail <= answer.cutoff

\* Every disclosed row is served or named by an anomaly, and those served run
\* from the newest to the oldest.
RowsAreAccountedFor ==
    answer.how = "v3" /\ "holdings" \in DOMAIN batches =>
        LET items == batches["holdings"].rows
            held == HoldingsV3(items, answer.cutoff, batches["holdings"].received)
            named == {held.anomalies[i][1] : i \in DOMAIN held.anomalies}
        IN /\ ToSet(held.kept) \cup named = DOMAIN items
           /\ \A i, j \in ToSet(held.kept) : i < j => items[j].avail <= items[i].avail
           /\ \A i \in ToSet(held.kept) \cap named : items[i].over
=============================================================================
