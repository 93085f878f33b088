SPECIFICATION LiveSpec
CONSTANTS
  o1 = o1
  o2 = o2
  Orders = {o1, o2}
  OptionOrders = {o2}
  MaxAttempts = 2
  Layerings = {{"hook"}, {"hook", "elicit"}, {"elicit"}}
  LongTimeout = TRUE
  Drifting = {2}
INVARIANTS CallersAnswered EveryOrderConsented EachResultRecordedOnce
PROPERTIES DecisionsFinal GateAnswers
CHECK_DEADLOCK FALSE
