CONSTANTS
    script = script
    app = app
    t1 = t1
    t2 = t2
    t3 = t3
    NoTimer = NoTimer
    Installer = {script, app}
    Reaps = {script}
    Timer = {t1, t2, t3}
SPECIFICATION LiveSpec
INVARIANTS Net LiveIsRecorded InstalledIsSafe
PROPERTY LockoutEnds
CHECK_DEADLOCK FALSE
