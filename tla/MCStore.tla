------------------------------ MODULE MCStore ------------------------------
(* Store with two commands at once and one name.  Every command comes in    *)
(* one of the ways there are, under flock(1) as ./vpn sends it, but enable  *)
(* and reconcile bare; add comes as the app sends it too, and rm trusting.  *)
(* The backup knows the name as a user and has nothing queued.              *)
EXTENDS Store

CONSTANTS alice, p1, p2

Cmd(op, cert) == [op |-> op, name |-> alice, cert |-> cert]

Calls(way, commands) == {[cmd |-> c, mode |-> way] : c \in commands}

MCCall ==
    Calls("wrapped", {Cmd("add", FALSE), Cmd("rm", TRUE), Cmd("disable", TRUE),
                      Cmd("protocol", FALSE), Cmd("apply", FALSE)})
    \cup Calls("forgetful", {Cmd("add", FALSE)})
    \cup Calls("bare", {Cmd("enable", FALSE), Cmd("reconcile", FALSE)})
    \cup Calls("trusting", {Cmd("rm", TRUE)})

MCBackup == [f \in File |-> IF f = "users" THEN {alice} ELSE {}]
=============================================================================
