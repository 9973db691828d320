------------------------------ MODULE MCIkev2 ------------------------------
(* Ikev2 with two names: one is enough for every case a name can be in, the *)
(* second shows that the loops and the saves keep names apart.              *)
EXTENDS Ikev2

CONSTANTS alice, bob
=============================================================================
