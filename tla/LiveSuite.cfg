CONSTANTS
  NoValue = NoValue
SPECIFICATION SuiteSpec
PROPERTIES
  ControlSettles
  
  SessionsSettle
\* The budgets of the instances run out: a behaviour may stop.
CHECK_DEADLOCK FALSE
