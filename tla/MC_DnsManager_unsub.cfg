CONSTANTS
    MaxSubs = 2
    MaxSets = 3

SPECIFICATION Spec

PROPERTY NoNotifyAfterUnsubscribe

CHECK_DEADLOCK FALSE
