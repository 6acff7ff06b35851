SPECIFICATION FairSpec
CONSTANTS
  Nobody = Nobody
  Sessions = {p1, p2, p3}
  MaxActions = 1
  MaxFaults = 1
INVARIANTS LauncherTypeOK SingleWriter QuitLands
PROPERTIES CommandEnds QuitEnds
