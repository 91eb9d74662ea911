\* The QUIC connector: a 3 ms connect timeout, quiche's timer at
\* 1 ms, two server datagrams buffered at once.
CONSTANTS
    Timeout = 3
    Pto = 1
    MaxDatagrams = 2
    MaxGets = 1
SPECIFICATION FairSpec
INVARIANT TypeOK
INVARIANT ReadyMeansEstablished
PROPERTY ReportsOnce
PROPERTY EventuallyReported
\* After a report or destroy the connector receives no more events.
CHECK_DEADLOCK FALSE
