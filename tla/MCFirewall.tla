----------------------------- MODULE MCFirewall -----------------------------
(* Firewall with the port of one protocol, the default ssh port, and a third *)
(* that nothing claims and that an edit may give any tag.                    *)
EXTENDS Firewall

MCClaims == [p \in Proto |-> {"500/udp"}]
=============================================================================
