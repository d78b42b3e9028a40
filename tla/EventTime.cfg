SPECIFICATION Spec
CONSTANTS
  Event = {e1}
  Gone = Gone
  Hours = 3
  DayHours = 3
  MonthHours = 3
  Offset = 1
  Text = {x, y}
  Request = {r1}
  None = None
PROPERTY UntouchedTimeStays
CHECK_DEADLOCK FALSE
