SPECIFICATION Spec
CONSTANTS
    v1 = v1  v2 = v2  c1 = c1  c2 = c2
    Servers <- OneServer
    Clients <- OneClient
    None = None
    Application = Application
    Fds = {0, 1, 2, 3}
    Restart = TRUE
INVARIANTS StaticsUsable
