SPECIFICATION Spec
CONSTANTS
    Rollout = {r1}
    Handler = {h1, h2}
    MaxDevices = 1
    MaxAborts = 0
PROPERTIES CancelledIsFinal
CHECK_DEADLOCK FALSE
