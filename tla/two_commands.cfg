SPECIFICATION CommandsSpec
CONSTANTS
  Nobody = Nobody
  Sessions = {p1, p2}
  MaxActions = 2
  MaxFaults = 0
PROPERTIES CommandsWork
CHECK_DEADLOCK FALSE
