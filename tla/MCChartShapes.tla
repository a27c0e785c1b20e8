---------------------------- MODULE MCChartShapes ----------------------------
(***************************************************************************)
(* Tapes for TLC: each makes one detector's cases happen.                  *)
(***************************************************************************)
EXTENDS ChartShapes

Point(p) == [low |-> p, high |-> p, close |-> p]
Wide(low, high, close) == [low |-> low, high |-> high, close |-> close]

\* Doubles and head-and-shoulders of both sides: 100 and 104 are alike to the
\* last thousandth, 96 and 100 are not, 108 clears 104 and 104 does not clear 101.
Zigzag == [i \in 1 .. 9 |-> {Point(96), Point(100), Point(104), Point(108)}]

\* Bars with wicks: a close and an extreme differ, and one bar can be both a
\* top and a bottom.
Wicks == [i \in 1 .. 9 |->
             {Wide(98, 102, 100), Wide(96, 104, 103), Wide(100, 106, 101)}]

\* A rising average, closes near it, above it and well below it.
Pullback == [i \in 1 .. 12 |->
                IF i <= 4 THEN {Point(100)}
                ELSE IF i <= 7 THEN {Point(100), Point(104)}
                ELSE {Point(98), Point(102), Point(103), Point(104)}]

\* A falling and a rising market with interruptions.
Falling == [i \in 1 .. 15 |-> {Wide(199 - i, 201 - i, 200 - i)} \cup
                              (IF i > 12 THEN {Point(200), Point(190 - i)} ELSE {})
                              \cup (IF i \in {6, 9} THEN {Point(199)} ELSE {})]
Climbing == [i \in 1 .. 27 |-> {Point(100 + i)} \cup (IF i \in {5, 15} THEN {Point(90)} ELSE {})]

MCTapes == {Zigzag, Wicks, Pullback, Falling, Climbing}
=============================================================================
