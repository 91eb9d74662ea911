\* The manager has no activity of its own: once its notification tasks have
\* run it waits for the next call, so a state with nothing enabled is normal.
CONSTANTS
    MaxSubs = 2
    MaxSets = 3

SPECIFICATION FairSpec

INVARIANT TypeOK
INVARIANT NoLostUpdate
INVARIANT UsableServers

PROPERTY EventuallyNotified

CHECK_DEADLOCK FALSE
