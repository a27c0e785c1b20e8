--------------------------- MODULE SnapshotDocument ---------------------------
(***************************************************************************)
(* What the market gateway makes of the provider's batches: the checks of  *)
(* one batch and of its rows against the instant of the decision, the      *)
(* all-or-nothing stock snapshot v2 and the sections of v3                 *)
(* (service.py, snapshot.py and snapshot_v3.py of the market gateway).     *)
(* Instants are integers; a row is its instants and whether its other      *)
(* fields pass their checks.                                               *)
(***************************************************************************)
EXTENDS Integers, Sequences, SequencesExt, FiniteSets

CONSTANTS SessionMaxAge,    \* session_max_age (15 s)
          ResponseMaxAge    \* response_max_age (30 s)

Sources == {"quote", "candles", "flow", "holdings"}

\* A row of a batch: its symbol, at (the close of a bar, the end of a reporting
\* period), avail (its available_at), sound (its other fields are valid), over
\* (a holding above 100 percent).
Row(symbol, at, avail, sound) ==
    [symbol |-> symbol, at |-> at, avail |-> avail, sound |-> sound, over |-> FALSE]
Batch(received, rows) == [received |-> received, rows |-> rows]

Latest(rows, default) ==
    IF rows = <<>> THEN default
    ELSE CHOOSE t \in {rows[i].avail : i \in DOMAIN rows} :
             \A i \in DOMAIN rows : rows[i].avail <= t

\* Mutant: only the future is refused.
Validated_AnyAge(batch, now) == IF batch.received > now THEN "future" ELSE "ok"

\* _validate_batch, with PointInTimeViolation told apart as "future"
Validated(batch, now) ==
    CASE batch.received > now -> "future"
      [] now - batch.received > ResponseMaxAge -> "stale"
      [] OTHER -> "ok"

Worst(verdicts) ==      \* the first row that fails decides
    LET bad == {i \in DOMAIN verdicts : verdicts[i] # "ok"}
    IN IF bad = {} THEN "ok" ELSE verdicts[CHOOSE i \in bad : \A j \in bad : i <= j]

Verdicts(rows, Judge(_)) == Worst([i \in DOMAIN rows |-> Judge(i)])

\* _normalize_quotes
NormalQuotes(rows, now) ==
    Verdicts(rows, LAMBDA i :
        IF /\ rows[i].sound /\ rows[i].avail <= now
           /\ \A j \in 1 .. i - 1 : rows[j].symbol # rows[i].symbol
        THEN "ok" ELSE "malformed")

\* _normalize_candles: rows that are not complete are dropped unseen.
NormalCandles(rows, now) ==
    Verdicts(rows, LAMBDA i :
        IF /\ rows[i].sound /\ rows[i].at <= rows[i].avail /\ rows[i].avail <= now
           /\ i > 1 => rows[i - 1].at < rows[i].at
        THEN "ok" ELSE "malformed")

\* _normalize_capital_flow
NormalFlow(rows, now) ==
    Verdicts(rows, LAMBDA i :
        IF ~rows[i].sound THEN "malformed"
        ELSE IF rows[i].avail > now THEN "future"
        ELSE IF rows[i].at > rows[i].avail \/ (i > 1 /\ rows[i - 1].at >= rows[i].at)
             THEN "malformed" ELSE "ok")

\* _normalize_capital_distribution
NormalTotals(rows, now) ==
    Verdicts(rows, LAMBDA i :
        IF rows[i].sound /\ rows[i].avail <= now THEN "ok" ELSE "malformed")

\* _normalize_institutional_holdings, newest disclosure first
NormalHoldings(rows, now) ==
    Verdicts(rows, LAMBDA i :
        IF /\ rows[i].sound /\ ~rows[i].over
           /\ rows[i].at <= rows[i].avail /\ rows[i].avail <= now
           /\ i > 1 => rows[i].avail <= rows[i - 1].avail
        THEN "ok" ELSE "malformed")

Normal(source, rows, now) ==
    CASE source = "quote" -> NormalQuotes(rows, now)
      [] source = "candles" -> NormalCandles(rows, now)
      [] source = "flow" -> NormalFlow(rows, now)
      [] source = "distribution" -> NormalTotals(rows, now)
      [] source = "holdings" -> NormalHoldings(rows, now)

-----------------------------------------------------------------------------
(* stock_snapshot: one bad batch fails the whole document, except a flow   *)
(* that is stale or malformed; a flow from the future is not forgiven.     *)

FlowVerdict(batch, cutoff) ==
    IF Validated(batch, cutoff) # "ok" THEN Validated(batch, cutoff)
    ELSE NormalFlow(batch.rows, cutoff)

\* assemble_stock_snapshot takes the one quote of its symbol.
IsOneQuote(rows) == Len(rows) = 1

\* and looks at the bars once more, now against its own cutoff.
BarsFit(rows, cutoff) ==
    \A i \in DOMAIN rows : /\ rows[i].at <= cutoff /\ rows[i].avail <= cutoff
                          /\ i > 1 => rows[i - 1].at < rows[i].at

NoDocument == [status |-> "error", cutoff |-> 0, served |-> {}]

SnapshotV2(batches, cutoff) ==
    LET judged(s) == IF Validated(batches[s], cutoff) # "ok" THEN Validated(batches[s], cutoff)
                     ELSE Normal(s, batches[s].rows, cutoff)
        whole == /\ \A s \in Sources \ {"flow"} : judged(s) = "ok"
                 /\ IsOneQuote(batches["quote"].rows)
                 /\ BarsFit(batches["candles"].rows, cutoff)
                 /\ FlowVerdict(batches["flow"], cutoff) # "future"
    IN IF ~whole THEN NoDocument
       ELSE [status |-> "live", cutoff |-> cutoff,
             served |-> Sources \ (IF FlowVerdict(batches["flow"], cutoff) = "ok"
                                   THEN {} ELSE {"flow"})]

-----------------------------------------------------------------------------
(* stock_snapshot_v3: every section stands on its own                      *)

\* normalize_holdings_v3: rows that fail are left out and named.
HoldingVerdict(row, previous, cutoff, received) ==
    IF ~row.sound THEN "INVALID_NUMERIC_VALUE"
    ELSE IF row.at > cutoff \/ row.avail > cutoff \/ received > cutoff
         THEN "FUTURE_HOLDINGS_ROW"
    ELSE IF \/ row.at > row.avail \/ row.avail > received
            \/ previous # {} /\ \E p \in previous : row.avail > p
         THEN "OUT_OF_ORDER_HOLDINGS_ROW"
    ELSE "ok"

\* Mutant: a row that fails is left out without a word.
HoldingsV3_Silent(rows, cutoff, received) ==
    LET fine == {i \in DOMAIN rows : HoldingVerdict(rows[i], {}, cutoff, received) = "ok"}
    IN [kept |-> SetToSortSeq(fine, LAMBDA i, j : i < j), anomalies |-> <<>>]

HoldingsV3(rows, cutoff, received) ==
    LET walk[i \in 0 .. Len(rows)] ==
          IF i = 0 THEN [kept |-> <<>>, anomalies |-> <<>>, previous |-> {}]
          ELSE LET was == walk[i - 1]
                   verdict == HoldingVerdict(rows[i], was.previous, cutoff, received)
               IN IF verdict = "ok"
                  THEN [kept |-> Append(was.kept, i), previous |-> {rows[i].avail},
                        anomalies |-> IF rows[i].over
                                      THEN Append(was.anomalies, <<i, "ABOVE_100">>)
                                      ELSE was.anomalies]
                  ELSE [was EXCEPT !.anomalies = Append(@, <<i, verdict>>)]
    IN walk[Len(rows)]

\* A section: "validated" or "anomalous" with data, or "invalid" with a code.
Valid(kept) == [quality |-> "validated", code |-> "none", kept |-> kept]
Unavailable(code) == [quality |-> "invalid", code |-> code, kept |-> {}]

HoldingsSection(batch, cutoff) ==
    LET held == HoldingsV3(batch.rows, cutoff, batch.received)
    IN IF held.kept = <<>> THEN Unavailable("HOLDINGS_UNAVAILABLE")
       ELSE [Valid(ToSet(held.kept)) EXCEPT
                !.quality = IF held.anomalies = <<>> THEN "validated" ELSE "anomalous"]

\* what a section asks for beyond sound rows: exactly one quote, some flow
Filled(s, rows, cutoff) ==
    CASE s = "quote" -> IsOneQuote(rows)
      [] s = "candles" -> BarsFit(rows, cutoff)
      [] s = "flow" -> rows # <<>>
      [] OTHER -> TRUE

SectionV3(s, batch, cutoff) ==
    LET checked == Validated(batch, cutoff)
        normal == Normal(s, batch.rows, cutoff)
    IN IF checked # "ok" THEN Unavailable(checked)
       ELSE IF s = "holdings" THEN HoldingsSection(batch, cutoff)
       ELSE IF normal # "ok" THEN Unavailable(normal)
       ELSE IF ~Filled(s, batch.rows, cutoff) THEN Unavailable("malformed")
       ELSE Valid(DOMAIN batch.rows)

\* technical needs at least one candle of a validated section
Technical(candles) ==
    IF candles.quality = "validated" /\ candles.kept # {}
    THEN Valid({}) ELSE Unavailable("CANDLES_UNAVAILABLE")

SectionsV3(batches, failed, cutoff) ==
    LET own == [s \in Sources |-> IF s \in failed THEN Unavailable("provider")
                                  ELSE SectionV3(s, batches[s], cutoff)]
    IN [s \in Sources \cup {"technical"} |->
           IF s = "technical" THEN Technical(own["candles"]) ELSE own[s]]

\* _quote_is_usable, _candles_are_usable
Usable(section) == section.quality = "validated" /\ section.kept # {}

\* assemble_stock_snapshot_v3
StatusV3(sections) ==
    CASE ~Usable(sections["quote"]) /\ ~Usable(sections["candles"]) -> "unavailable"
      [] \A s \in DOMAIN sections : sections[s].quality = "validated" -> "live"
      [] OTHER -> "partial"

SnapshotV3(batches, failed, cutoff) ==
    LET sections == SectionsV3(batches, failed, cutoff)
    IN [status |-> StatusV3(sections), cutoff |-> cutoff,
        served |-> {s \in Sources : sections[s].quality # "invalid"}]
=============================================================================
