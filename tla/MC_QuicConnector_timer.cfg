CONSTANTS
    Timeout = 3
    Pto = 1
    MaxDatagrams = 2
    MaxGets = 1
SPECIFICATION Spec
INVARIANT TimerWithinDeadline
\* After a report or destroy the connector receives no more events.
CHECK_DEADLOCK FALSE
