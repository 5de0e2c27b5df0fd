\* One POST and one delivery: only the INSERT may fail.
SPECIFICATION Spec
CONSTANTS
    Keys = {k}
    Requests = {r1}
    Hooks = {h1}
    MayFail = {"insert"}
    MaxFaults = 1
CHECK_DEADLOCK FALSE
INVARIANT WebhookGivesFinalStatus
