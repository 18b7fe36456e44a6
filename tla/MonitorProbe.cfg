SPECIFICATION MonitorSpec
CONSTANTS
    Panels = {s1}
    Views = {live, summary}
    StatusTTL = 2
    MaxLoads = 3
    MaxTime = 2
SYMMETRY Symmetry
CHECK_DEADLOCK FALSE
INVARIANTS
    OneProbe
