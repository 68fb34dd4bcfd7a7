SPECIFICATION Spec
CONSTANTS
    Group = {g1, g2}
    d1 = d1
    dGone = dGone
    DeviceId = {d1, dGone}
    KnownDevice = {d1}
    Tag = {t1, t2}
    MemberList <- RepeatingMemberList
    Handler = {h1, h2}
SYMMETRY HandlerSymmetry
INVARIANTS TypeOK CountMatches
PROPERTIES AddKeepsMembers UnracedAddIsClean 
CHECK_DEADLOCK FALSE
