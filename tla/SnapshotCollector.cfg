\* Two sources under both deadlines, with operations that may hang.
SPECIFICATION Spec
CONSTANTS
  NSources = 2
  SourceTimeout = 2
  Overall = 3
  MaxLag = 2
  MaxTime = 5
INVARIANTS TimelyIsKept OnlyTimelyIsReported AnswersInTime
PROPERTIES NothingStartsAfterwards AnswerComes
\* The clock is bounded, so every behaviour ends.
CHECK_DEADLOCK FALSE
