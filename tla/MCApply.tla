------------------------------ MODULE MCApply ------------------------------
(* Apply with sing-box and the two services of dnstt that read the tree.   *)
EXTENDS Apply

CONSTANTS sing_box, dnstt_server, dnstt_sshd, dnstt, good, better, broken

MCServicesOf == [p \in {dnstt} |-> {dnstt_server, dnstt_sshd} \cap Service]
=============================================================================
