----------------------------- MODULE Forwarding -----------------------------
(***************************************************************************)
(* The two FORWARD accepts without which an IKEv2 client connects and      *)
(* carries nothing.  _reconcile_ikev2_forwarding, in the finally block of  *)
(* every apply, puts them in or takes them out; the image's run.sh inserts *)
(* the same pair when the container starts; ufw, reloading its own rules,  *)
(* may clear both, and does so within the apply too (Firewall).            *)
(*                                                                         *)
(* What is abstracted:                                                     *)
(*   - the outgoing interface stays the same, or is unknown;               *)
(*   - identical rules count as one: what removal, which deletes up to     *)
(*     eight copies, leaves of a ninth is left out;                        *)
(*   - a pool is a network: how the smallest one covering a range is found *)
(*     is left out, as is IPv6, which the code leaves to the image;        *)
(*   - of the rest of apply, only what touches the filter table, or starts *)
(*     or removes the container, is kept; when run.sh inserts its pair is  *)
(*     left open, as long as the container runs.                           *)
(***************************************************************************)
CONSTANTS
    Net,
    Pool,       \* rightaddresspool: where the clients are
    XauthNet,   \* VPN_XAUTH_NET, which can be set apart from it
    Default,    \* the image's, which vpnctl falls back to
    None        \* no answer, or none that is an IPv4 network

ASSUME NetworkAssumption ==
    /\ {Pool, XauthNet, Default} \subseteq Net
    /\ None \notin Net

VARIABLES
    accepts,    \* the FORWARD accepts: a direction for a network
    up,         \* the IKEv2 container runs
    ikev2,      \* it is enabled
    unmatched,  \* ufw's rules differ from the enabled set: an apply will edit them
    at,         \* where the apply is; "idle" between two
    net,        \* the network it took for the clients'
    left,       \* the directions it has not dealt with
    answer,     \* forwarding_ok
    disturbed   \* history: something else changed the accepts since it looked

forwarding == <<accepts, up, ikev2, unmatched, at, net, left, answer, disturbed>>

Direction == {"in", "out"}

ForwardingTypeOK ==
    /\ accepts \subseteq Net \X Direction
    /\ up \in BOOLEAN /\ ikev2 \in BOOLEAN /\ unmatched \in BOOLEAN
    /\ at \in {"idle", "start", "forward", "ensure", "remove"}
    /\ net \in Net
    /\ left \subseteq Direction
    /\ answer \in {"none", "ok", "failed"}
    /\ disturbed \in BOOLEAN

ForwardingInit ==
    /\ accepts = {}
    /\ up = FALSE /\ ikev2 = FALSE /\ unmatched = TRUE
    /\ at = "idle"
    /\ net = Default
    /\ left = {}
    /\ answer = "none"
    /\ disturbed = FALSE
-----------------------------------------------------------------------------
(***************************************************************************)
(* apply                                                                   *)
(***************************************************************************)
Start ==
    /\ at = "idle"
    /\ at' = "start"
    /\ answer' = "none"
    /\ UNCHANGED <<accepts, up, ikev2, unmatched, net, left, disturbed>>

\* firewall.reconcile: `ufw allow` and `ufw delete` reload ufw's rules, which may
\* clear the accepts.
EditRules ==
    /\ accepts' \in IF unmatched THEN {accepts, {}} ELSE {accepts}
    /\ unmatched' = FALSE

\* Before it, composectl.up starts the container if IKEv2 is on, and down_disabled
\* removes it if it is off.
Reconcile ==
    /\ at = "start"
    /\ up' = ikev2
    /\ EditRules
    /\ at' = "forward"
    /\ UNCHANGED <<ikev2, net, left, answer, disturbed>>

\* down_disabled could not, and is only warned of.
LeftRunning ==
    /\ at = "start" /\ ~ikev2
    /\ EditRules
    /\ at' = "forward"
    /\ UNCHANGED <<up, ikev2, net, left, answer, disturbed>>

\* A step before it dies, or ufw fails half way: the finally block runs anyway.
StepFails ==
    /\ at = "start"
    /\ up' \in {up, ikev2}
    /\ accepts' \in {accepts, {}}
    /\ at' = "forward"
    /\ UNCHANGED <<ikev2, unmatched, net, left, answer, disturbed>>

\* Faulty variant: a plausible constant
PoolNetworkConstant(conf, xauth) == Default

\* pool_network: the pool itself, or the network the firewall of run.sh is told.
PoolNetwork(conf, xauth) ==
    IF conf \in Net THEN conf ELSE IF xauth \in Net THEN xauth ELSE Default

\* Which rules to ensure or to remove.  Only a running container can be asked
\* (_ikev2_ipv4_net), and each question may go unanswered.
Look(conf, xauth) ==
    /\ at = "forward"
    /\ ikev2 \/ conf # None \/ xauth # None => up
    /\ net' = PoolNetwork(conf, xauth)
    /\ left' = Direction
    /\ disturbed' = FALSE
    /\ at' = IF ikev2 THEN "ensure" ELSE "remove"
    /\ UNCHANGED <<accepts, up, ikev2, unmatched, answer>>

\* IKEv2 is on and its container does not run: nothing is done, and forwarding_ok is
\* false.
Skipped ==
    /\ at = "forward" /\ ikev2 /\ ~up
    /\ answer' = "failed"
    /\ at' = "idle"
    /\ UNCHANGED <<accepts, up, ikev2, unmatched, net, left, disturbed>>

\* Faulty variant: one direction found counts for both
EnsureOne(d) ==
    /\ at = "ensure"
    /\ d \in left
    /\ accepts' = accepts \cup {<<net, d>>}
    /\ left' = {}
    /\ UNCHANGED <<up, ikev2, unmatched, at, net, answer, disturbed>>

\* ensure_ipv4_forwarding: iptables -C, and -I if that finds nothing
Ensure(d) ==
    /\ at = "ensure"
    /\ d \in left
    /\ accepts' = accepts \cup {<<net, d>>}
    /\ left' = left \ {d}
    /\ UNCHANGED <<up, ikev2, unmatched, at, net, answer, disturbed>>

\* remove_ipv4_forwarding: iptables -D as long as -C finds one
Remove(d) ==
    /\ at = "remove"
    /\ d \in left
    /\ accepts' = accepts \ {<<net, d>>}
    /\ left' = left \ {d}
    /\ UNCHANGED <<up, ikev2, unmatched, at, net, answer, disturbed>>

Forwarded ==
    /\ at \in {"ensure", "remove"}
    /\ left = {}
    /\ answer' = "ok"
    /\ at' = "idle"
    /\ UNCHANGED <<accepts, up, ikev2, unmatched, net, left, disturbed>>

\* The interface is unknown, a command fails, or its binary is missing.
ForwardFails ==
    /\ at \in {"forward", "ensure", "remove"}
    /\ answer' = "failed"
    /\ left' = {}
    /\ at' = "idle"
    /\ UNCHANGED <<accepts, up, ikev2, unmatched, net, disturbed>>

\* A kill, a reboot, or the TimeoutExpired of a docker exec, which is no OSError.
Dies ==
    /\ at # "idle"
    /\ left' = {}
    /\ at' = "idle"
    /\ UNCHANGED <<accepts, up, ikev2, unmatched, net, answer, disturbed>>
-----------------------------------------------------------------------------
(***************************************************************************)
(* The world                                                               *)
(***************************************************************************)

\* `protocol on` and `off` of any protocol: the state is saved before the apply.
Turn(wanted) ==
    /\ at = "idle"
    /\ ikev2' = wanted
    /\ unmatched' = TRUE
    /\ answer' = "none"
    /\ UNCHANGED <<accepts, up, at, net, left, disturbed>>

\* The filter table is cleared: a reload of ufw, an iptables-restore.
Clear ==
    /\ accepts' = {}
    /\ disturbed' = TRUE
    /\ UNCHANGED <<up, ikev2, unmatched, at, net, left, answer>>

StartContainer ==
    /\ ~up
    /\ up' = TRUE
    /\ UNCHANGED <<accepts, ikev2, unmatched, at, net, left, answer, disturbed>>

\* run.sh inserts its own pair, for the network of its firewall, unless it
\* finds its mark, which is in another table.
RunSh ==
    /\ up
    /\ accepts' = accepts \cup ({XauthNet} \X Direction)
    /\ disturbed' = TRUE
    /\ UNCHANGED <<up, ikev2, unmatched, at, net, left, answer>>

StopContainer ==
    /\ up
    /\ up' = FALSE
    /\ UNCHANGED <<accepts, ikev2, unmatched, at, net, left, answer, disturbed>>
-----------------------------------------------------------------------------
\* An apply that nothing fails in.
Smooth ==
    \/ Start \/ Reconcile \/ Skipped \/ Forwarded
    \/ \E xauth \in {XauthNet, None} : Look(IF up THEN Pool ELSE None, xauth)
    \/ \E d \in Direction : Ensure(d) \/ Remove(d)

Outside ==
    \/ \E wanted \in BOOLEAN : Turn(wanted)
    \/ Clear \/ StartContainer \/ RunSh \/ StopContainer

Failures ==
    \/ LeftRunning \/ StepFails \/ ForwardFails \/ Dies
    \/ \E xauth \in {XauthNet, None} : Look(None, xauth)

ForwardingNext == Smooth \/ Failures \/ Outside

ForwardingSpec == ForwardingInit /\ [][ForwardingNext]_forwarding

\* The next apply comes (the operator's retry, the boot unit) and runs to its end.
ForwardingLiveSpec == ForwardingSpec /\ WF_forwarding(Smooth)
-----------------------------------------------------------------------------
(***************************************************************************)
(* Properties                                                              *)
(***************************************************************************)

\* forwarding_ok is true of the filter table, until something else changes it:
\* with IKEv2 on, what the clients send and what they are sent is let through,
\* unless the container did not say where they are; with IKEv2 off, the pair is
\* gone for the network that was asked about.
OkMeansForwarded ==
    answer = "ok" /\ ~disturbed =>
        IF ikev2
        THEN net = Pool => {Pool} \X Direction \subseteq accepts
        ELSE ({net} \X Direction) \cap accepts = {}

\* What IKEv2's clients need of the filter table; or what must not be there for
\* clients there are none of, of the network that can be known then.
AsWanted ==
    IF ikev2
    THEN {Pool} \X Direction \subseteq accepts
    ELSE ({Default} \X Direction) \cap accepts = {}

\* Applies are repeated, at boot and by every command, under clients that are
\* connected: one that finds ufw's rules matching takes no accept away that IKEv2
\* needs, and puts none back when it is off, not for an instant, whatever the
\* applies before it left (cli.py:418-456).
NotUndone == [][Smooth /\ ~unmatched /\ AsWanted => AsWanted']_forwarding

\* Once nobody interferes and nothing fails, IKEv2 forwards if it is on, for good: the
\* commands that open ports, apply after apply, do not undo the accepts.  If it is
\* off, the accepts of the image's network are gone for good; down_disabled has by
\* then removed the one container that knew of another, whose accepts stay
\* (ikev2ctl.py:249-254).
EventuallyForwarded ==
    <>[][Smooth]_forwarding =>
        /\ <>[]ikev2 => <>[]({Pool} \X Direction \subseteq accepts)
        /\ <>[]~ikev2 => <>[](({Default} \X Direction) \cap accepts = {})
=============================================================================
