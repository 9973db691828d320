------------------------------ MODULE Registry ------------------------------
(***************************************************************************)
(* What the commands do to the two files of the state directory, and       *)
(* nothing about how the files are written: a register of names and a list *)
(* of withdrawals still to be carried out.  Every change of either is one  *)
(* of the operations below, whole, and made for somebody who asked for it: *)
(* nobody's change is undone by another's that had not seen it.  A name    *)
(* with a certificate goes only when its withdrawal is on the list, and a  *)
(* withdrawal goes from the list only when a command has carried it out.   *)
(* Store is shown to implement this module as long as its commands do not  *)
(* overlap.                                                                *)
(***************************************************************************)

CONSTANTS
    Name,
    Command     \* requests: [op, name, cert]

VARIABLES
    users,
    pending,    \* the withdrawals that are owed
    asked,      \* the requests under way
    carried     \* the withdrawals one of them has carried out

vars == <<users, pending, asked, carried>>

Init ==
    /\ users \in SUBSET Name
    /\ pending \in SUBSET Name
    /\ asked = {}
    /\ carried = {}

\* Somebody asks for something, or has been answered, or gives up, whatever had been
\* carried out for it.
Ask ==
    /\ asked' \in SUBSET Command
    /\ carried' \in {carried, {}}
    /\ UNCHANGED <<users, pending>>

Add(r) ==
    /\ r.op = "add"
    /\ r.name \notin users
    /\ users' = users \cup {r.name}
    /\ carried' = {}
    /\ UNCHANGED <<pending, asked>>

\* A record that says a certificate was issued goes only once its withdrawal is owed.
Remove(r) ==
    /\ r.op = "rm"
    /\ r.name \in users
    /\ r.cert => r.name \in pending
    /\ users' = users \ {r.name}
    /\ carried' = {}
    /\ UNCHANGED <<pending, asked>>

\* A withdrawal is owed.
Queue(r) ==
    /\ r.op \in {"rm", "disable"} /\ r.cert
    /\ r.name \notin pending
    /\ pending' = pending \cup {r.name}
    /\ carried' = {}
    /\ UNCHANGED <<users, asked>>

\* Some of what is owed is carried out for somebody ...
Carry ==
    /\ asked # {}
    /\ carried' \in SUBSET pending
    /\ UNCHANGED <<users, pending, asked>>

\* ... and is owed no more.
Drain ==
    /\ pending' \in SUBSET pending
    /\ pending \ pending' \subseteq carried
    /\ carried' = {}
    /\ UNCHANGED <<users, asked>>

Next ==
    \/ Ask
    \/ \E r \in asked : Add(r) \/ Remove(r) \/ Queue(r)
    \/ Carry \/ Drain

Spec == Init /\ [][Next]_vars
=============================================================================
