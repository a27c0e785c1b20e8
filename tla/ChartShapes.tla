----------------------------- MODULE ChartShapes -----------------------------
(***************************************************************************)
(* The chart readings of the analysis core: the shapes of                  *)
(* patterns_shapes.py (fractals, double and head-and-shoulders extremes,   *)
(* pullbacks to the five-day average), the sequential counts of            *)
(* patterns.py, the pattern factor scoring.py makes of them and the chart  *)
(* the market gateway serves (snapshot.py, _indicators).                   *)
(*                                                                         *)
(* Completed bars arrive one at a time, and every reading is computed anew *)
(* from all the bars there are.  `served' is what that reading says.       *)
(*                                                                         *)
(* Prices are integers.  Ratios are compared in thousandths, necklines at  *)
(* twice and averages at five times their value, so nothing is rounded.    *)
(* Bars are counted from 1 (from 0 in the code).                           *)
(***************************************************************************)
EXTENDS Integers, Sequences, FiniteSets, FiniteSetsExt, Functions

CONSTANT Tapes   \* sequences of sets of bars: the bars a series may have at
                 \* each position; BOUND on its length

\* What a bar's constructor accepts of the three prices that are read of it.
Bar == {bar \in [low : Nat \ {0}, high : Nat, close : Nat] :
            bar.low <= bar.close /\ bar.close <= bar.high}

ASSUME ChartAssumption == Tapes \subseteq Seq(SUBSET Bar)

VARIABLES tape, bars, served

chartVars == <<tape, bars, served>>

\* The bars each detector, and each other indicator, must have seen.
MinWindow == [fractal |-> 3, double |-> 7, head_shoulders |-> 8, ma5_pullback |-> 8]
WarmUp == [ma5 |-> 5, ma10 |-> 10, ma20 |-> 20, ma60 |-> 60, rsi |-> 15, macd |-> 26,
           volatility |-> 21]

DoubleTolerance == 40       \* in thousandths
ShoulderTolerance == 80
HeadClearance == 1030
NearTolerance == 15
BreakTolerance == 20

Lookback == 4
SetupLength == 9

-----------------------------------------------------------------------------
(* A top and a bottom are the same shape seen from two sides.              *)

Sides == {"top", "bottom"}

Extreme(side, bar) == IF side = "top" THEN bar.high ELSE bar.low

\* x lies further out than y
Beyond(side, x, y) == IF side = "top" THEN x > y ELSE x < y

Opposite(side) == IF side = "top" THEN "bottom" ELSE "top"

\* _local_extrema
Extrema(side, b) ==
    {i \in 2 .. Len(b) - 1 :
        \A j \in {i - 1, i + 1} : Beyond(side, Extreme(side, b[i]), Extreme(side, b[j]))}

Similar(x, y, tolerance) == 1000 * Max({x - y, y - x}) <= tolerance * Min({x, y})

\* The extreme of the other side strictly between two bars.
Between(side, b, i, j) ==
    LET inner == {Extreme(Opposite(side), b[k]) : k \in i + 1 .. j - 1}
    IN IF side = "top" THEN Min(inner) ELSE Max(inner)

NoLevel == 0

\* level is twice the price whose strict breach voids the signal
Signal(kind, side, status, at, event, level) ==
    [kind |-> kind, side |-> side, status |-> status, at |-> at,
     event |-> event, level |-> level]

\* A candidate: the bars of its structure, the neckline (doubled) that
\* completes it and the extreme that must hold until then.
Candidate(at, neckline, defend) == [at |-> at, neckline |-> neckline, defend |-> defend]

Last(c) == c.at[Len(c.at)]

\* Mutant: only the latest close is looked at.
Decisive_LatestClose(side, b, c) ==
    {i \in {Len(b)} : i > Last(c) /\ Beyond(Opposite(side), 2 * b[i].close, c.neckline)}

\* _resolve_forward: the first close that completes the shape or breaks it.
Decisive(side, b, c) ==
    {i \in Last(c) + 1 .. Len(b) :
        \/ Beyond(Opposite(side), 2 * b[i].close, c.neckline)
        \/ Beyond(side, b[i].close, c.defend)}

Resolution(kind, side, b, c) ==
    LET event == Min(Decisive(side, b, c))
    IN IF Beyond(Opposite(side), 2 * b[event].close, c.neckline)
       THEN Signal(kind, side, "confirmed", c.at, event, c.neckline)
       ELSE Signal(kind, side, "invalidated", c.at, event, NoLevel)

\* Every candidate resolves on its own; of those still open only the most
\* recent is shown, as forming.
Readings(kind, side, b, candidates) ==
    LET open == {c \in candidates : Decisive(side, b, c) = {}}
        latest == {c \in open : \A d \in open : Last(d) <= Last(c)}
    IN {Resolution(kind, side, b, c) : c \in candidates \ open}
       \cup {Signal(kind, side, "forming", c.at, Len(b), 2 * c.defend) : c \in latest}

-----------------------------------------------------------------------------
(* The detectors.                                                          *)

\* detect_fractal_patterns
Fractals(side, b) ==
    {Signal("fractal", side, "confirmed", <<i - 1, i, i + 1>>, i + 1,
            2 * Extreme(side, b[i])) : i \in Extrema(side, b)}

\* The similar extremes at least three bars before the second touch.
Partners(side, b, second) ==
    {first \in Extrema(side, b) :
        /\ second - first >= 3
        /\ Similar(Extreme(side, b[first]), Extreme(side, b[second]), DoubleTolerance)}

\* detect_double_extreme_patterns
Doubles(side, b) ==
    IF Len(b) < MinWindow.double THEN {}
    ELSE LET candidate(second) ==
               LET first == Max(Partners(side, b, second))
               IN Candidate(<<first, second>>, 2 * Between(side, b, first, second),
                            Extreme(side, b[second]))
         IN Readings("double", side, b,
                {candidate(s) : s \in {s \in Extrema(side, b) : Partners(side, b, s) # {}}})

HeadClears(side, head, left, right) ==
    IF side = "top" THEN 1000 * head >= HeadClearance * Max({left, right})
    ELSE HeadClearance * head <= 1000 * Min({left, right})

\* Three neighbouring extremes, none of them on neighbouring bars.
Triples(side, b) ==
    LET peaks == Extrema(side, b)
        next(i) == Min({j \in peaks : j > i})
        starts == {i \in peaks : Cardinality({j \in peaks : j > i}) >= 2}
    IN {<<i, next(i), next(next(i))>> : i \in starts}

\* detect_head_and_shoulders_patterns
HeadShoulders(side, b) ==
    IF Len(b) < MinWindow.head_shoulders THEN {}
    ELSE LET x(i) == Extreme(side, b[i])
             shapely(t) == /\ t[1] + 1 < t[2] /\ t[2] + 1 < t[3]
                           /\ Similar(x(t[1]), x(t[3]), ShoulderTolerance)
                           /\ HeadClears(side, x(t[2]), x(t[1]), x(t[3]))
             candidate(t) == Candidate(t, Between(side, b, t[1], t[2])
                                          + Between(side, b, t[2], t[3]), x(t[2]))
         IN Readings("head_shoulders", side, b,
                {candidate(t) : t \in {t \in Triples(side, b) : shapely(t)}})

\* Five times the five-bar average at bar i.
Ma5(b, i) == b[i].close + b[i - 1].close + b[i - 2].close + b[i - 3].close + b[i - 4].close

Rising(b, i) == i - 3 >= 5 /\ Ma5(b, i) > Ma5(b, i - 3)

Touches(b, i) ==
    /\ Rising(b, i)
    /\ 1000 * Max({5 * b[i].close - Ma5(b, i), Ma5(b, i) - 5 * b[i].close})
          <= NearTolerance * Ma5(b, i)
    /\ b[i].close < b[i - 1].close

Bounces(b, i) ==
    b[i].close > b[i - 1].close /\ 5 * b[i].close >= Ma5(b, i) /\ Rising(b, i)

Breaks(b, i) == 5000 * b[i].close < (1000 - BreakTolerance) * Ma5(b, i)

\* detect_ma5_pullback_pattern: one pullback is open at a time; a resolved one
\* is never touched again.
Pullbacks(b) ==
    LET signal(status, touch, event) ==
            Signal("ma5_pullback", "bottom", status,
                   IF touch = event THEN <<touch>> ELSE <<touch, event>>, event, NoLevel)
        walk[i \in 4 .. Len(b)] ==
            IF i = 4 THEN [open |-> 0, found |-> {}]
            ELSE LET was == walk[i - 1]
                     closed(status) ==
                         [open |-> 0, found |-> was.found \cup {signal(status, was.open, i)}]
                 IN CASE was.open # 0 /\ Bounces(b, i) -> closed("confirmed")
                      [] was.open # 0 /\ ~Bounces(b, i) /\ Breaks(b, i) -> closed("invalidated")
                      [] OTHER -> IF Touches(b, i) THEN [was EXCEPT !.open = i] ELSE was
        end == walk[Len(b)]
    IN IF Len(b) < MinWindow.ma5_pullback THEN {}
       ELSE end.found \cup (IF end.open = 0 THEN {}
                            ELSE {signal("forming", end.open, Len(b))})

Kinds == DOMAIN MinWindow

\* detect_pattern_shapes: a detector that has seen too little says so.
Detections(b) ==
    LET signals == [fractal |-> UNION {Fractals(s, b) : s \in Sides},
                    double |-> UNION {Doubles(s, b) : s \in Sides},
                    head_shoulders |-> UNION {HeadShoulders(s, b) : s \in Sides},
                    ma5_pullback |-> Pullbacks(b)]
    IN [kind \in Kinds |-> [live |-> Len(b) >= MinWindow[kind], signals |-> signals[kind]]]

-----------------------------------------------------------------------------
(* Sequential counts.                                                      *)

\* The side a close counts towards: a fall counts towards a bottom.
Counts(b, i) ==
    CASE b[i].close < b[i - Lookback].close -> "bottom"
      [] b[i].close > b[i - Lookback].close -> "top"
      [] OTHER -> "none"

NoCount == [side |-> "none", count |-> 0, completed |-> FALSE]
Count(side, count, completed) == [side |-> side, count |-> count, completed |-> completed]

\* _is_perfected: bars eight and nine against bars six and seven
Perfected(b, side, i) ==
    LET best(j) == IF side = "bottom" THEN Min({b[j].low, b[j - 1].low})
                   ELSE Max({b[j].high, b[j - 1].high})
    IN ~Beyond(Opposite(side), best(i), best(i - 2))

\* td_setup: the completed runs, the count drawn at every bar, and the run in
\* progress.
TDSetup(b) ==
    LET walk[i \in 0 .. Len(b)] ==
            IF i <= Lookback
            THEN [side |-> "none", streak |-> 0, runs |-> {}, drawn |-> [j \in 1 .. i |-> NoCount]]
            ELSE LET was == walk[i - 1]
                     side == Counts(b, i)
                     streak == IF side = was.side THEN was.streak + 1 ELSE 1
                     nine == streak = SetupLength
                     run == [side |-> side, event |-> i, perfected |-> Perfected(b, side, i)]
                 IN IF side = "none"
                    THEN [was EXCEPT !.side = "none", !.streak = 0, !.drawn = Append(@, NoCount)]
                    ELSE [side |-> IF nine THEN "none" ELSE side,
                          streak |-> IF nine THEN 0 ELSE streak,
                          runs |-> was.runs \cup {x \in {run} : nine},
                          drawn |-> Append(was.drawn, Count(side, streak, nine))]
        end == walk[Len(b)]
        ending == {r \in end.runs : r.event = Len(b)}
    IN [runs |-> end.runs, drawn |-> end.drawn,
        latest |-> CASE ending # {} -> Count((CHOOSE r \in ending : TRUE).side, SetupLength, TRUE)
                     [] ending = {} /\ end.streak > 0 -> Count(end.side, end.streak, FALSE)
                     [] OTHER -> NoCount]

\* _last_completed_setup: a finished nine stays visible as the count restarts.
LastCompleted(b, runs) ==
    {[side |-> r.side, since |-> Len(b) - r.event] :
        r \in {r \in runs : \A q \in runs : q.event <= r.event}}

\* The bars since which every close counts towards one side, the last included.
Streak(b) ==
    LET side == Counts(b, Len(b))
        others == {i \in Lookback + 1 .. Len(b) : Counts(b, i) # side}
    IN Len(b) - (IF others = {} THEN Lookback ELSE Max(others))

\* Mutant: the count goes on past nine.
MagicNine_NoRestart(b) ==
    IF Len(b) <= Lookback \/ Counts(b, Len(b)) = "none" THEN NoCount
    ELSE Count(Counts(b, Len(b)), Streak(b), Streak(b) = SetupLength)

\* magic_nine: the state at the last close; a run of nine starts the count anew.
MagicNine(b) ==
    IF Len(b) <= Lookback \/ Counts(b, Len(b)) = "none" THEN NoCount
    ELSE LET count == ((Streak(b) - 1) % SetupLength) + 1
         IN Count(Counts(b, Len(b)), count, count = SetupLength)

-----------------------------------------------------------------------------
(* The pattern factor, in ninetieths.                                      *)

Magnitude == [fractal |-> 27, double |-> 81, head_shoulders |-> 81, ma5_pullback |-> 54]

\* _confirmed_shape_in_force, against the latest close only
InForce(s, b) ==
    LET n == Len(b)
    IN IF s.kind = "ma5_pullback"
       THEN n >= 8 /\ 5 * b[n].close >= Ma5(b, n) /\ Ma5(b, n) >= Ma5(b, n - 3)
       ELSE ~Beyond(s.side, 2 * b[n].close, s.level)

Towards(side, magnitude) == IF side = "bottom" THEN magnitude ELSE -magnitude

\* Where votes of one bar and one magnitude stand in the list, the first wins.
ListOrder == <<<<"fractal", "top">>, <<"fractal", "bottom">>, <<"double", "bottom">>,
               <<"double", "top">>, <<"head_shoulders", "top">>,
               <<"head_shoulders", "bottom">>>>

Unread == -100   \* no factor: too few bars for any detector

\* extract_horizon_features: the largest vote, then the most recent one.
PatternFactor(b, shapes, nine) ==
    LET vote(value, recency, place) == [value |-> value, recency |-> recency, place |-> place]
        place(s) == IF s.kind = "ma5_pullback" THEN 0
                    ELSE CHOOSE i \in DOMAIN ListOrder : ListOrder[i] = <<s.kind, s.side>>
        votes == {vote(Towards(s.side, Magnitude[s.kind]), s.event, place(s)) :
                     s \in {s \in shapes : s.status = "confirmed" /\ InForce(s, b)}}
                 \cup (IF nine = NoCount THEN {}
                       ELSE {vote(Towards(nine.side, 5 * nine.count), 0, 0)})
        size(v) == Max({v.value, -v.value})
        wins(v, w) == \/ size(v) > size(w)
                      \/ size(v) = size(w) /\ v.recency > w.recency
                      \/ size(v) = size(w) /\ v.recency = w.recency /\ v.place <= w.place
    IN CASE Len(b) < MinWindow.fractal -> Unread
         [] Len(b) >= MinWindow.fractal /\ votes = {} -> 0
         [] OTHER -> (CHOOSE v \in votes : \A w \in votes : wins(v, w)).value

-----------------------------------------------------------------------------
(* A series and its readers.                                               *)

\* Closes that all stand, or all grow at one rate, measure no volatility.
Varies(b) == \E i \in 2 .. Len(b) - 1 : b[i + 1].close * b[i - 1].close # b[i].close * b[i].close

\* The indicators of the chart that have a value at the last bar.
Live(b) == {name \in DOMAIN WarmUp : Len(b) >= WarmUp[name] /\ (name = "volatility" => Varies(b))}

\* What the gateway draws, and what the score takes from the same bars.
Read(b) ==
    LET detections == Detections(b)
        setup == TDSetup(b)
        nine == MagicNine(b)
    IN [live |-> Live(b), detections |-> detections,
        setup |-> setup, last |-> LastCompleted(b, setup.runs), nine |-> nine,
        factor |-> PatternFactor(b, UNION {detections[k].signals : k \in Kinds}, nine)]

ChartInit ==
    /\ tape \in Tapes
    /\ bars = <<>>
    /\ served = Read(<<>>)

\* The next bar completes, and the chart is read again.
NewBar(bar) ==
    /\ bars' = Append(bars, bar)
    /\ served' = Read(bars')
    /\ UNCHANGED tape

ChartNext == Len(bars) < Len(tape) /\ \E bar \in tape[Len(bars) + 1] : NewBar(bar)

ChartSpec == ChartInit /\ [][ChartNext]_chartVars

-----------------------------------------------------------------------------
(* Properties.                                                             *)

Resolved(signals, n) == {s \in signals : s.status # "forming" /\ s.event <= n}

(* A chart is never repainted: a shape that was confirmed or had failed stays
   exactly as it was when later bars arrive, none is found afterwards at a bar
   a live detector had already read (the replay invariant patterns_shapes.py
   states); no completed nine comes or goes and no count drawn at an earlier
   bar changes; an indicator that had a value keeps having one.              *)
NeverRepainted ==
    [][LET n == Len(bars)
       IN /\ \A kind \in Kinds :
                 served.detections[kind].live =>
                    Resolved(served'.detections[kind].signals, n)
                       = Resolved(served.detections[kind].signals, n)
          /\ {r \in served'.setup.runs : r.event <= n} = served.setup.runs
          /\ SubSeq(served'.setup.drawn, 1, n) = served.setup.drawn
          /\ served.live \subseteq served'.live]_chartVars

(* The two counters of patterns.py never tell a reader different things: the
   running count the score uses (magic_nine, closes alone) is the latest state
   td_setup reports and the last count the chart draws, at every bar and after
   every completed run.                                                      *)
CountsAgree ==
    /\ served.nine = served.setup.latest
    /\ bars # <<>> => served.nine = served.setup.drawn[Len(bars)]
=============================================================================
