SPECIFICATION Spec
CONSTANTS
    User = {u1, u2}
    Token = {t1, t2, t3}
    Secret = {s1, s2}
    NoSecret = NoSecret
    Handler = {h1, h2}
    MaxAborts = 1
SYMMETRY Symmetric
INVARIANTS TypeOK FewLiveLinks LinkIsSpent
PROPERTY OnlyOvertakenLocks
\* Token ids run out.
CHECK_DEADLOCK FALSE
