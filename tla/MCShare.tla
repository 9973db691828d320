------------------------------ MODULE MCShare ------------------------------
(* Share with two connections, one private and one public address, and a     *)
(* clock that runs on for some seconds after both deadlines.                 *)
EXTENDS Share

CONSTANTS c1, c2, lan, public
=============================================================================
