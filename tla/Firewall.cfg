CONSTANTS
    Rule = {"22/tcp", "500/udp", "2222/tcp"}
    SshRule = "22/tcp"
    Proto = {"ikev2"}
    claims <- MCClaims
    Narrow = {"500/udp"}
SPECIFICATION LiveSpec
INVARIANTS HandsOff OkMeansOpen
PROPERTIES NeverWorse EventuallyAsEnabled
