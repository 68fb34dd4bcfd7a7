SPECIFICATION PipelineSpec
CONSTANTS
    None = None
    MaxSession = 1
    SimDevice = {d1}
    Device = {d1}
    Session = {1}
    Site = {x1}
    AlertType = {"battery_low"}
    Message <- Payloads
    Generated <- AllFaulty
    SimStatus = {"online", "offline", "fault"}
    SimEvent = {"battery_low"}
    HomeSite = x1
    MaxOut = 3
    AlertDedup = 0
    DeviceTtl = 0
    MaxDuplicates = 1
    MaxOutages = 1
INVARIANTS PipelineTypeOK TrackedStatusShown
CHECK_DEADLOCK FALSE
