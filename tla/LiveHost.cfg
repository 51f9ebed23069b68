CONSTANTS
  NoHost = NoHost
SPECIFICATION SuiteSpec
PROPERTIES
  Converges
  
\* The budgets of the instances run out: a behaviour may stop.
CHECK_DEADLOCK FALSE
