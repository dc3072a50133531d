SPECIFICATION ConnSpec
CONSTANTS
    ConnInstances = {i1, i2}
    ConnTasks = {t1, t2}
    NoTask = NoTask
    ConnKinds = {"callback"}
    Unreliable = FALSE
INVARIANTS
    ReplacedIsRevoked
CHECK_DEADLOCK FALSE
