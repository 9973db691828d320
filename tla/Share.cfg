CONSTANTS
    c1 = c1
    c2 = c2
    lan = lan
    public = public
    None = None
    Client = {c1, c2}
    Address = {lan, public}
    Private = {lan}
    Hard = 2
    Grace = 1
    Horizon = 4
SPECIFICATION Spec
INVARIANTS AdmittedInWindow VerdictTrue
PROPERTIES LateComersDoNotExtend EventuallyOver
CHECK_DEADLOCK FALSE
