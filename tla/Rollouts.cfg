SPECIFICATION Spec
CONSTANTS
    Rollout = {r1}
    Handler = {h1, h2}
    MaxDevices = 2
    MaxAborts = 1
SYMMETRY HandlerSymmetry
INVARIANTS TypeOK RowsMatchCount TransitionsAudited
PROPERTIES RowsFollowTable OnlyStaleRevives
CHECK_DEADLOCK FALSE
