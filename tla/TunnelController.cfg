SPECIFICATION ControllerSpec
CONSTANTS
    Profile = {p1, p2}
    Service = {s1}
    None = None
    Room = 1
    Callers = 2
    Beyond = {}
INVARIANTS
    ShownIsReported
    ShownIsRouted
    StopForgets
