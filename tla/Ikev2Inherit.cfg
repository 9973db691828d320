CONSTANTS
    alice = alice
    bob = bob
    Name = {alice}
SPECIFICATION Spec
INVARIANT NeverInherited
CHECK_DEADLOCK FALSE
