SPECIFICATION Spec
CONSTANTS
    sim = sim
    real = real
    s1 = s1
    s2 = s2
    x1 = x1
    None = None
    Device = {sim, real}
    Session = {s1, s2}
    Site = {x1}
    AlertType = {"battery_low", "signal_weak"}
    Message <- AnyMessage
    AlertDedup = 1
    DeviceTtl = 1
INVARIANTS TypeOK NoForeignSession
PROPERTIES StatusChain AlertOncePerCooldown
