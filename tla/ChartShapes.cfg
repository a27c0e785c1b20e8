\* Every bar sequence of five kinds of market, read after each bar.
SPECIFICATION ChartSpec
CONSTANT Tapes <- MCTapes
INVARIANT CountsAgree
PROPERTY NeverRepainted
\* A tape ends.
CHECK_DEADLOCK FALSE
