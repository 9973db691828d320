------------------------------ MODULE Deadman ------------------------------
(***************************************************************************)
(* Closing the firewall with a way back in: a detached timer that disables *)
(* ufw is armed before ufw is enabled, and disarmed only once a brand-new  *)
(* connection got through the new rules.  The two ends are                 *)
(* scripts/provision-host.sh (driven by scripts/install.sh) and            *)
(* app/lib/provision/{commands,firewall}.dart; they meet in one pid file.  *)
(*                                                                         *)
(* What is abstracted:                                                     *)
(*   - a timer's process group is one process, and a process id is never   *)
(*     used twice;                                                         *)
(*   - a signal from root to its own process is not refused;               *)
(*   - the app's attempts to prove the connection are one, and its disarm  *)
(*     and the script's are the same steps;                                *)
(*   - whether the rules let the installer in is decided once (admits):    *)
(*     the ports allowed are the ones sshd listens on, or not.             *)
(***************************************************************************)

CONSTANTS
    Installer,  \* runs of the firewall step, of either kind
    Reaps,      \* those of provision-host.sh, which kill an earlier timer;
                \* those of the app refuse to start over one
    Timer,      \* process ids of timers: bounds how often one is armed
    NoTimer

ASSUME ConstantsAssumption ==
    /\ Reaps \subseteq Installer
    /\ NoTimer \notin Timer

VARIABLES
    ufw,        \* the firewall is active
    admits,     \* its rules let a new ssh connection in
    file,       \* the pid file in /run
    timer,      \* where each timer's shell is
    pc,         \* where each installer is
    seen,       \* the pid each installer read from the file
    installed,  \* the last run to start reported success
    unsure,     \* history: runs overlapped, or one left before its timer wrote its pid
    late,       \* history: a disarm killed a timer that had already disabled ufw
    rebooted,   \* history: the host rebooted
    expired,    \* history: ufw was enabled after the timer armed for it had run out
    jammed      \* history: a timer's `ufw --force disable` failed

timers == <<file, timer>>
ghosts == <<unsure, late, rebooted, expired, jammed>>
vars == <<ufw, admits, timers, pc, seen, installed, ghosts>>

Alive == {t \in Timer : timer[t] \in {"asleep", "woken", "spent"}}
Counting == {t \in Timer : timer[t] \in {"asleep", "woken"}}
Starting == {t \in Timer : timer[t] = "starting"}
Ran == {t \in Timer : timer[t] \notin {"unused", "starting"}}

\* The installer is past starting and before its verdict.
Active(i) == pc[i] # "idle"

TypeOK ==
    /\ ufw \in BOOLEAN
    /\ admits \in BOOLEAN
    /\ file \in Timer \cup {NoTimer}
    /\ timer \in [Timer -> {"unused", "starting", "asleep", "woken", "spent", "dead"}]
    /\ pc \in [Installer -> {"idle", "look", "reap", "clear", "launch", "wait", "enable",
                             "prove", "disarm", "kill", "clean"}]
    /\ seen \in [Installer -> Timer \cup {NoTimer}]
    /\ installed \in BOOLEAN
    /\ unsure \in BOOLEAN /\ late \in BOOLEAN /\ rebooted \in BOOLEAN
    /\ expired \in BOOLEAN /\ jammed \in BOOLEAN

\* A server that can be reached: if its firewall is on, it lets ssh in.
Init ==
    /\ ufw \in BOOLEAN
    /\ admits \in BOOLEAN
    /\ ufw => admits
    /\ file = NoTimer
    /\ timer = [t \in Timer |-> "unused"]
    /\ pc = [i \in Installer |-> "idle"]
    /\ seen = [i \in Installer |-> NoTimer]
    /\ installed = FALSE
    /\ unsure = FALSE /\ late = FALSE /\ rebooted = FALSE /\ expired = FALSE /\ jammed = FALSE

Go(i, from, to) == pc[i] = from /\ pc' = [pc EXCEPT ![i] = to]

Reachable == ~ufw \/ admits
-----------------------------------------------------------------------------
(***************************************************************************)
(* The installer.                                                          *)
(***************************************************************************)

\* A run begins over a connection of its own.
Start(i) ==
    /\ Go(i, "idle", "look")
    /\ Reachable
    /\ installed' = FALSE
    /\ unsure' = (unsure \/ \E j \in Installer \ {i} : Active(j))
    /\ UNCHANGED <<ufw, admits, timers, seen, late, rebooted, expired, jammed>>

\* Faulty variant: the pid file is written over, whoever is in it.
LookNot(i) ==
    /\ Go(i, "look", "launch")
    /\ UNCHANGED <<ufw, admits, timers, seen, installed, ghosts>>

\* Is a timer of an earlier run still alive?
Look(i) ==
    /\ pc[i] = "look"
    /\ \/ file = NoTimer /\ Go(i, "look", "launch") /\ UNCHANGED seen
       \/ file \in Timer \ Alive /\ Go(i, "look", "clear") /\ UNCHANGED seen
       \/ file \in Alive /\ i \notin Reaps /\ Go(i, "look", "idle") /\ UNCHANGED seen
       \/ file \in Alive /\ i \in Reaps /\ Go(i, "look", "reap") /\ seen' = [seen EXCEPT ![i] = file]
    /\ UNCHANGED <<ufw, admits, timers, installed, ghosts>>

\* A killed timer that had woken may or may not have got through with ufw.
Killed(t) ==
    /\ timer' = [timer EXCEPT ![t] = IF t \in Alive THEN "dead" ELSE timer[t]]
    /\ ufw' \in IF timer[t] = "woken" THEN {ufw, FALSE} ELSE {ufw}
    /\ UNCHANGED <<admits, file>>

Reap(i) ==
    /\ Go(i, "reap", "clear")
    /\ Killed(seen[i])
    /\ seen' = [seen EXCEPT ![i] = NoTimer]
    /\ UNCHANGED <<installed, ghosts>>

Clear(i) ==
    /\ Go(i, "clear", "launch")
    /\ file' = NoTimer
    /\ UNCHANGED <<ufw, admits, timer, seen, installed, ghosts>>

Launch(i) ==
    /\ Go(i, "launch", "wait")
    /\ \E t \in Timer :
         /\ timer[t] = "unused"
         /\ timer' = [timer EXCEPT ![t] = "starting"]
    /\ UNCHANGED <<ufw, admits, file, seen, installed, ghosts>>

Armed(i) ==
    /\ Go(i, "wait", "enable")
    /\ file # NoTimer
    /\ UNCHANGED <<ufw, admits, timers, seen, installed, ghosts>>

\* Ten looks, and still no pid: give up, without touching ufw.
NotArmed(i) ==
    /\ Go(i, "wait", "idle")
    /\ file = NoTimer
    /\ unsure' = TRUE
    /\ UNCHANGED <<ufw, admits, timers, seen, installed, late, rebooted, expired, jammed>>

Enable(i) ==
    /\ Go(i, "enable", "prove")
    /\ ufw' = TRUE
    /\ expired' = (expired \/ Counting = {})
    /\ UNCHANGED <<admits, timers, seen, installed, unsure, late, rebooted, jammed>>

\* A new connection gets through, and the disarm runs over it.
Prove(i) ==
    /\ Go(i, "prove", "disarm")
    /\ Reachable
    /\ UNCHANGED <<ufw, admits, timers, seen, installed, ghosts>>

\* Faulty variant: a failed run takes its timer with it.
ProveFailsTidily(i) ==
    /\ Go(i, "prove", "disarm")
    /\ UNCHANGED <<ufw, admits, timers, seen, installed, ghosts>>

\* None gets through, because of the rules or of the network: the timer is left armed.
ProveFails(i) ==
    /\ Go(i, "prove", "idle")
    /\ UNCHANGED <<ufw, admits, timers, seen, installed, ghosts>>

\* Faulty variant: no pid file is nothing to disarm.
DisarmShrugs(i) ==
    /\ IF file = NoTimer
       THEN Go(i, "disarm", "idle") /\ installed' = TRUE
       ELSE Go(i, "disarm", "kill") /\ UNCHANGED installed
    /\ seen' = [seen EXCEPT ![i] = file]
    /\ UNCHANGED <<ufw, admits, timers, ghosts>>

\* No pid file is fatal: the timer has fired, or there never was one.
Disarm(i) ==
    /\ Go(i, "disarm", IF file = NoTimer THEN "idle" ELSE "kill")
    /\ seen' = [seen EXCEPT ![i] = file]
    /\ UNCHANGED <<ufw, admits, timers, installed, ghosts>>

Kill(i) ==
    /\ Go(i, "kill", "clean")
    /\ Killed(seen[i])
    /\ seen' = [seen EXCEPT ![i] = NoTimer]
    /\ late' = (late \/ timer[seen[i]] \in {"woken", "spent", "dead"})
    /\ UNCHANGED <<installed, unsure, rebooted, expired, jammed>>

\* The process is gone: its record goes, and the step is done.
Clean(i) ==
    /\ Go(i, "clean", "idle")
    /\ file' = NoTimer
    /\ installed' = TRUE
    /\ UNCHANGED <<ufw, admits, timer, seen, ghosts>>

\* A command fails, the session drops, or the installer is killed.
Die(i) ==
    /\ Active(i)
    /\ pc' = [pc EXCEPT ![i] = "idle"]
    /\ seen' = [seen EXCEPT ![i] = NoTimer]
    /\ unsure' = (unsure \/ Starting # {})
    /\ UNCHANGED <<ufw, admits, timers, installed, late, rebooted, expired, jammed>>
-----------------------------------------------------------------------------
(***************************************************************************)
(* The timer's own shell, and the host.                                    *)
(***************************************************************************)

Write(t) ==
    /\ timer[t] = "starting"
    /\ timer' = [timer EXCEPT ![t] = "asleep"]
    /\ file' = t
    /\ UNCHANGED <<ufw, admits, pc, seen, installed, ghosts>>

Wake(t) ==
    /\ timer[t] = "asleep"
    /\ timer' = [timer EXCEPT ![t] = "woken"]
    /\ UNCHANGED <<ufw, admits, file, pc, seen, installed, ghosts>>

\* Faulty variant: without --force, ufw asks, and nobody answers.
FireAsks(t) ==
    /\ timer[t] = "woken"
    /\ timer' = [timer EXCEPT ![t] = "spent"]
    /\ UNCHANGED <<ufw, admits, file, pc, seen, installed, ghosts>>

\* `ufw --force disable`, once: what it answers is not looked at.
Fire(t) ==
    /\ timer[t] = "woken"
    /\ timer' = [timer EXCEPT ![t] = "spent"]
    /\ \/ ufw' = FALSE /\ UNCHANGED jammed
       \/ ufw' = ufw /\ jammed' = TRUE
    /\ UNCHANGED <<admits, file, pc, seen, installed, unsure, late, rebooted, expired>>

Remove(t) ==
    /\ timer[t] = "spent"
    /\ timer' = [timer EXCEPT ![t] = "dead"]
    /\ file' = NoTimer
    /\ UNCHANGED <<ufw, admits, pc, seen, installed, ghosts>>

\* ufw comes up again as it was; a timer does not, and /run is empty.
Reboot ==
    /\ timer' = [t \in Timer |-> IF timer[t] = "unused" THEN "unused" ELSE "dead"]
    /\ file' = NoTimer
    /\ pc' = [i \in Installer |-> "idle"]
    /\ seen' = [i \in Installer |-> NoTimer]
    /\ rebooted' = TRUE
    /\ UNCHANGED <<ufw, admits, installed, unsure, late, expired, jammed>>
-----------------------------------------------------------------------------
Countdown == \E t \in Timer : Write(t) \/ Wake(t) \/ Fire(t) \/ Remove(t)

Install ==
    \E i \in Installer :
        \/ Start(i) \/ Look(i) \/ Reap(i) \/ Clear(i) \/ Launch(i) \/ Armed(i) \/ NotArmed(i)
        \/ Enable(i) \/ Prove(i) \/ ProveFails(i) \/ Disarm(i) \/ Kill(i) \/ Clean(i) \/ Die(i)

Next == Countdown \/ Install \/ Reboot

Spec == Init /\ [][Next]_vars

\* The timer's shell is the kernel's to schedule; nothing else is relied on.
LiveSpec == Spec /\ WF_vars(Countdown)
-----------------------------------------------------------------------------
(***************************************************************************)
(* Properties.                                                             *)
(***************************************************************************)

\* Whenever the firewall is on and shuts the installer out, a timer that will
\* switch it off is running: no failure path between the arming and the proof
\* takes it away (firewall.dart runFirewallStep).  A reboot does, runs that
\* overlap may, an enable that comes after the timer has run out never had one,
\* and a timer whose one `ufw --force disable` fails has done all it will.
Net ==
    ufw /\ ~admits /\ ~rebooted /\ ~unsure /\ ~expired /\ ~jammed => Counting # {}

\* A live timer is the one in the pid file: a predecessor is reaped or refused,
\* never written over, so that none is left to fire after a success.
LiveIsRecorded ==
    ~unsure => Alive \subseteq {file}

\* After a reported success the firewall is on, lets the installer in, and no
\* timer is left that would switch it off - unless the disarm came as late as
\* the timer itself.
InstalledIsSafe ==
    installed /\ ~late /\ ~unsure => ufw /\ admits /\ Alive \cup Starting = {}

\* A lockout ends by itself: the server undoes the firewall with nothing further
\* from the installer and nothing for the operator to run, under the exceptions of Net.
LockoutEnds ==
    []~(rebooted \/ unsure \/ expired \/ jammed) => ((ufw /\ ~admits) ~> ~ufw)

\* What makes Net, LiveIsRecorded and InstalledIsSafe inductive: as long as runs
\* do not overlap there is at most one live timer, and where it can be follows
\* from where the one active run is.
Before == {"look", "reap", "clear", "launch", "wait", "enable"}
After == {"prove", "disarm", "kill"}

Alone ==
    /\ \A i, j \in Installer : Active(i) /\ Active(j) => i = j
    /\ installed => \A i \in Installer : ~Active(i)
    /\ Starting # {} => \E i \in Installer : pc[i] = "wait"

OneTimer ==
    /\ Alive \subseteq {file}
    /\ file \in Ran \cup {NoTimer}
    /\ \A t, u \in Starting : t = u
    /\ Starting # {} => file = NoTimer

Placed(i) ==
    /\ pc[i] \in Before => Reachable
    /\ pc[i] \in {"reap", "kill"} => seen[i] \in Ran /\ Alive \subseteq {seen[i]}
    /\ pc[i] \in {"clear", "launch"} => Alive = {}
    /\ pc[i] = "launch" => file = NoTimer
    /\ pc[i] \in {"disarm", "kill", "clean"} => Reachable
    /\ pc[i] \in After => ufw \/ Counting = {}
    /\ pc[i] = "clean" => Alive = {} /\ (late \/ (ufw /\ admits))

Shape ==
    /\ ~unsure => Alone /\ OneTimer /\ \A i \in Installer : Placed(i)
    /\ Net
    /\ InstalledIsSafe
=============================================================================
