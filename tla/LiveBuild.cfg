CONSTANTS
  None = None
  NoHost = NoHost
SPECIFICATION SuiteSpec
PROPERTIES
  BuildsEnd
  SourceSettles
  GarbageGoes
\* The budgets of the instances run out: a behaviour may stop.
CHECK_DEADLOCK FALSE
