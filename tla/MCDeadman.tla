----------------------------- MODULE MCDeadman -----------------------------
(* Deadman with one run of the script and one of the app, each repeatable,  *)
(* and three timers between them.                                           *)
EXTENDS Deadman

CONSTANTS script, app, t1, t2, t3
=============================================================================
