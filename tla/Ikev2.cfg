CONSTANTS
    alice = alice
    bob = bob
    Name = {alice, bob}
SPECIFICATION LiveSpec
INVARIANTS FormerIsQueued CleanMeansExact
PROPERTIES WithdrawnOnlyIfQueued EventuallyExact

