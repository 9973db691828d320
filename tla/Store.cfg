CONSTANTS
    alice = alice
    p1 = p1
    p2 = p2
    Absent = Absent
    Torn = Torn
    Keep = Keep
    Nobody = Nobody
    NoCommand = NoCommand
    Proc = {p1, p2}
    Name = {alice}
    Call <- MCCall
    Backup <- MCBackup
SPECIFICATION Spec
INVARIANTS Serialised OkMeansDone LossIsTold
PROPERTIES IntentOutlivesRecord ImplementsRegistry Ends
