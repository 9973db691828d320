SPECIFICATION ControllerSpec
CONSTANTS
    Profile = {p1}
    Service = {s1}
    None = None
    Room = 1
    Callers = 2
    Beyond = {}
INVARIANT ForgetIsComplete
