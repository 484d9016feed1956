\* One job that is recorded again and again.
SPECIFICATION Spec
CONSTANTS
  Jobs = {1}
  TtlDays = 1
  Horizon = 2
PROPERTIES
  NoCounterGoesBack
\* Time has run out.
CHECK_DEADLOCK FALSE
