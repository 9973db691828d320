CONSTANTS
    sing_box = sing_box
    dnstt_server = dnstt_server
    dnstt_sshd = dnstt_sshd
    dnstt = dnstt
    good = good
    better = better
    broken = broken
    Absent = Absent
    Service = {sing_box, dnstt_sshd}
    Base = {sing_box}
    Protocol = {dnstt}
    ServicesOf <- MCServicesOf
    Mount = {sing_box}
    Recreate = {dnstt_sshd}
    Version = {good, better, broken}
    Rejected = {broken}
SPECIFICATION LiveSpec
INVARIANTS MarkCoversStale RejectedNeverServed OkMeansConverged
PROPERTIES EventuallyServed
CHECK_DEADLOCK FALSE
