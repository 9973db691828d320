--------------------------- MODULE DeadmanProofs ---------------------------
(***************************************************************************)
(* Proofs about Deadman, for any installers and any number of timers.      *)
(***************************************************************************)
EXTENDS Deadman, TLAPS

\* A kill moves one timer at most, and never switches the firewall on.
LEMMA KilledType ==
    ASSUME TypeOK, NEW t, Killed(t)
    PROVE  /\ timer' \in [Timer -> {"unused", "starting", "asleep", "woken", "spent", "dead"}]
           /\ ufw' \in BOOLEAN /\ (ufw' => ufw)
           /\ admits' = admits /\ file' = file
           /\ Alive' = Alive \ {t} /\ Starting' = Starting /\ Counting' = Counting \ {t} /\ Ran' = Ran
           /\ timer[t] # "woken" => ufw' = ufw
BY DEF TypeOK, Killed, Alive, Starting, Counting, Ran

\* One timer goes from one state to another.
LEMMA TimerMoves ==
    ASSUME TypeOK, NEW t \in Timer,
           NEW s \in {"unused", "starting", "asleep", "woken", "spent", "dead"},
           timer' = [timer EXCEPT ![t] = s]
    PROVE  /\ timer' \in [Timer -> {"unused", "starting", "asleep", "woken", "spent", "dead"}]
           /\ Alive' = IF s \in {"asleep", "woken", "spent"} THEN Alive \cup {t} ELSE Alive \ {t}
           /\ Starting' = IF s = "starting" THEN Starting \cup {t} ELSE Starting \ {t}
           /\ Counting' = IF s \in {"asleep", "woken"} THEN Counting \cup {t} ELSE Counting \ {t}
BY DEF TypeOK, Alive, Starting, Counting

LEMMA TimersSame ==
    UNCHANGED timer => Alive' = Alive /\ Starting' = Starting /\ Counting' = Counting /\ Ran' = Ran
BY DEF Alive, Starting, Counting, Ran

LEMMA InitType == Init => TypeOK
BY DEF Init, TypeOK

LEMMA NextType == TypeOK /\ [Next]_vars => TypeOK'
<1> SUFFICES ASSUME TypeOK, [Next]_vars PROVE TypeOK'
  OBVIOUS
<1> USE DEF TypeOK, Go, timers, ghosts
<1>1. ASSUME NEW i \in Installer, \/ Start(i) \/ Clear(i) \/ Armed(i) \/ NotArmed(i) \/ Enable(i)
                                  \/ Prove(i) \/ ProveFails(i) \/ Clean(i) \/ Die(i)
      PROVE  TypeOK'
  BY <1>1 DEF Start, Clear, Armed, NotArmed, Enable, Prove, ProveFails, Clean, Die
<1>2. ASSUME NEW i \in Installer, Look(i) PROVE TypeOK'
  BY <1>2 DEF Look, Alive
<1>3. ASSUME NEW i \in Installer, Reap(i) \/ Kill(i) PROVE TypeOK'
  <2>1. PICK t : Killed(t)
    BY <1>3 DEF Reap, Kill
  <2>2. timer' \in [Timer -> {"unused", "starting", "asleep", "woken", "spent", "dead"}]
        /\ ufw' \in BOOLEAN /\ admits' = admits /\ file' = file
    BY <2>1, KilledType
  <2> QED
    BY <1>3, <2>2 DEF Reap, Kill
<1>4. ASSUME NEW i \in Installer, Launch(i) PROVE TypeOK'
  BY <1>4 DEF Launch
<1>5. ASSUME NEW i \in Installer, Disarm(i) PROVE TypeOK'
  BY <1>5 DEF Disarm
<1>6. ASSUME NEW t \in Timer, Write(t) \/ Wake(t) \/ Fire(t) \/ Remove(t) PROVE TypeOK'
  BY <1>6 DEF Write, Wake, Fire, Remove
<1>7. CASE Reboot
  BY <1>7 DEF Reboot
<1>8. CASE UNCHANGED vars
  BY <1>8 DEF vars
<1> QED
  BY <1>1, <1>2, <1>3, <1>4, <1>5, <1>6, <1>7, <1>8 DEF Next, Countdown, Install

\* The variables of Deadman keep their types.
THEOREM Typing == Spec => []TypeOK
BY InitType, NextType, PTL DEF Spec
-----------------------------------------------------------------------------
\* Where the one live timer can be, at every step of a run that no other run
\* overlaps.
LEMMA InitShape == Init => Shape
<1> SUFFICES ASSUME Init PROVE Shape
  OBVIOUS
<1>1. Alive = {} /\ Starting = {} /\ Counting = {}
  BY DEF Init, Alive, Starting, Counting
<1> QED
  BY <1>1 DEF Init, Shape, Alone, OneTimer, Placed, Net, InstalledIsSafe, Active, Before, After

\* A step of an installer that no other run overlaps: nobody else is active.
LEMMA InstallShape ==
    ASSUME TypeOK, Shape, NEW i \in Installer,
           \/ Start(i) \/ Look(i) \/ Reap(i) \/ Clear(i) \/ Launch(i) \/ Armed(i) \/ NotArmed(i)
           \/ Enable(i) \/ Prove(i) \/ ProveFails(i) \/ Disarm(i) \/ Kill(i) \/ Clean(i) \/ Die(i)
    PROVE  Shape'
<1> USE DEF Shape, Alone, OneTimer, Net, InstalledIsSafe, Active, Go, timers, ghosts
<1>a. /\ ufw \in BOOLEAN /\ admits \in BOOLEAN /\ unsure \in BOOLEAN /\ late \in BOOLEAN
      /\ DOMAIN pc = Installer /\ DOMAIN seen = Installer /\ file \in Timer \cup {NoTimer}
      /\ pc = [j \in Installer |-> pc[j]] /\ seen = [j \in Installer |-> seen[j]]
  BY DEF TypeOK
<1>b. NoTimer \notin Timer /\ Counting \subseteq Alive /\ Alive \subseteq Timer /\ Starting \subseteq Timer
      /\ Alive \subseteq Ran /\ Ran \subseteq Timer
  BY ConstantsAssumption DEF Counting, Alive, Starting, Ran
<1>1. CASE Start(i)
  BY <1>1, <1>a, <1>b, TimersSame DEF Start, Placed, Before, After, Reachable
<1>2. CASE Look(i)
  BY <1>2, <1>a, <1>b, TimersSame DEF Look, Placed, Before, After, Reachable
<1>3. CASE Reap(i)
  <2>1. /\ ufw' \in BOOLEAN /\ (ufw' => ufw) /\ admits' = admits /\ file' = file
        /\ Alive' = Alive \ {seen[i]} /\ Starting' = Starting /\ Counting' = Counting \ {seen[i]} /\ Ran' = Ran
    BY <1>3, KilledType DEF Reap
  <2>2. ~unsure => Alive' = {} /\ Counting' = {} /\ (ufw => admits)
    BY <1>3, <2>1, <1>b DEF Reap, Placed, Before, Reachable
  <2>3. ASSUME ~unsure PROVE ~installed /\ Starting = {} /\ \A j \in Installer : j # i => pc[j] = "idle"
    BY <1>3, <2>3 DEF Reap
  <2>4. /\ pc'[i] = "clear" /\ \A j \in Installer : j # i => pc'[j] = pc[j]
        /\ unsure' = unsure /\ late' = late /\ rebooted' = rebooted /\ expired' = expired /\ jammed' = jammed
        /\ installed' = installed
    BY <1>3, <1>a DEF Reap
  <2> HIDE DEF Go
  <2> QED
    BY <2>1, <2>2, <2>3, <2>4, <1>b DEF Placed, Before, After, Reachable
<1>4. CASE Clear(i)
  BY <1>4, <1>a, <1>b, TimersSame DEF Clear, Placed, Before, After, Reachable
<1>5. CASE Launch(i)
  <2>1. PICK t \in Timer : timer[t] = "unused" /\ timer' = [timer EXCEPT ![t] = "starting"]
    BY <1>5 DEF Launch
  <2>2. t \notin Alive /\ t \notin Starting /\ t \notin Counting
    BY <2>1 DEF Alive, Starting, Counting
  <2>3. Alive' = Alive /\ Starting' = Starting \cup {t} /\ Counting' = Counting /\ Ran' = Ran
    BY <2>1, <1>b DEF Alive, Starting, Counting, Ran, TypeOK
  <2>4. ASSUME ~unsure
        PROVE /\ ~installed /\ Starting = {} /\ Alive = {} /\ file = NoTimer /\ (ufw => admits)
              /\ \A j \in Installer : j # i => pc[j] = "idle"
    BY <1>5, <2>4 DEF Launch, Placed, Before, Reachable
  <2>5. /\ pc'[i] = "wait" /\ \A j \in Installer : j # i => pc'[j] = pc[j]
        /\ UNCHANGED <<ufw, admits, file, installed, unsure, late, rebooted, expired, jammed>>
    BY <1>5, <1>a DEF Launch
  <2> HIDE DEF Go
  <2> QED
    BY <2>3, <2>4, <2>5, <1>b DEF Placed, Before, After, Reachable
<1>6. CASE Armed(i) \/ NotArmed(i)
  BY <1>6, <1>a, <1>b, TimersSame DEF Armed, NotArmed, Placed, Before, After, Reachable
<1>7. CASE Enable(i)
  BY <1>7, <1>a, <1>b, TimersSame DEF Enable, Placed, Before, After, Reachable
<1>8. CASE Prove(i) \/ ProveFails(i)
  BY <1>8, <1>a, <1>b, TimersSame DEF Prove, ProveFails, Placed, Before, After, Reachable
<1>9. CASE Disarm(i)
  BY <1>9, <1>a, <1>b, TimersSame DEF Disarm, Placed, Before, After, Reachable
<1>10. CASE Kill(i)
  <2>1. /\ ufw' \in BOOLEAN /\ (ufw' => ufw) /\ admits' = admits /\ file' = file
        /\ Alive' = Alive \ {seen[i]} /\ Starting' = Starting /\ Counting' = Counting \ {seen[i]} /\ Ran' = Ran
        /\ timer[seen[i]] # "woken" => ufw' = ufw
    BY <1>10, KilledType DEF Kill
  <2>2. ~unsure => Alive' = {} /\ Counting' = {} /\ (ufw => admits) /\ seen[i] \in Ran
    BY <1>10, <2>1, <1>b DEF Kill, Placed, Before, Reachable
  <2>3. ASSUME ~unsure PROVE ~installed /\ Starting = {} /\ \A j \in Installer : j # i => pc[j] = "idle"
    BY <1>10, <2>3 DEF Kill
  <2>4. /\ pc'[i] = "clean" /\ \A j \in Installer : j # i => pc'[j] = pc[j]
        /\ unsure' = unsure /\ rebooted' = rebooted /\ expired' = expired /\ jammed' = jammed
        /\ installed' = installed
    BY <1>10, <1>a DEF Kill
  <2>5. ~unsure => late' \/ (ufw' /\ admits')
    <3>1. SUFFICES ASSUME ~unsure, ~late' PROVE ufw' /\ admits'
      OBVIOUS
    <3>2. seen[i] \in Counting /\ ufw' = ufw
      BY <1>10, <2>1, <2>2, <3>1 DEF Kill, TypeOK, Ran, Counting
    <3> QED
      BY <1>10, <2>1, <3>1, <3>2 DEF Kill, Placed, After, Reachable
  <2> HIDE DEF Go
  <2> QED
    BY <2>1, <2>2, <2>3, <2>4, <2>5, <1>b DEF Placed, Before, After, Reachable
<1>11. CASE Clean(i)
  BY <1>11, <1>a, <1>b, TimersSame DEF Clean, Placed, Before, After, Reachable
<1>12. CASE Die(i)
  BY <1>12, <1>a, <1>b, TimersSame DEF Die, Placed, Before, After, Reachable
<1> QED
  BY <1>1, <1>2, <1>3, <1>4, <1>5, <1>6, <1>7, <1>8, <1>9, <1>10, <1>11, <1>12

\* A step of a timer's shell, wherever the installers are.
LEMMA CountdownShape ==
    ASSUME TypeOK, Shape, NEW t \in Timer, Write(t) \/ Wake(t) \/ Fire(t) \/ Remove(t)
    PROVE  Shape'
<1> USE DEF Shape, Alone, OneTimer, Net, InstalledIsSafe, Active, ghosts
<1>a. NoTimer \notin Timer /\ Counting \subseteq Alive /\ Alive \subseteq Ran /\ Ran \subseteq Timer
  BY ConstantsAssumption DEF Counting, Alive, Ran
<1>1. CASE Write(t)
  <2>1. /\ t \in Starting /\ Starting' = Starting \ {t} /\ Alive' = Alive \cup {t}
        /\ Counting' = Counting \cup {t} /\ Ran' = Ran \cup {t}
    BY <1>1 DEF Write, Alive, Starting, Counting, Ran, TypeOK
  <2>2. ASSUME ~unsure
        PROVE  /\ Alive = {} /\ Starting = {t} /\ ~installed
               /\ \A i \in Installer : pc[i] \in {"idle", "wait"}
    BY <2>1, <2>2, <1>a
  <2>3. file' = t /\ UNCHANGED <<ufw, admits, pc, seen, installed, unsure, late, rebooted, expired, jammed>>
    BY <1>1 DEF Write
  <2> QED
    BY <2>1, <2>2, <2>3, <1>a DEF Placed, Before, After, Reachable
<1>2. CASE Wake(t)
  <2>1. Alive' = Alive /\ Starting' = Starting /\ Counting' = Counting /\ Ran' = Ran
    BY <1>2 DEF Wake, Alive, Starting, Counting, Ran, TypeOK
  <2> QED
    BY <1>2, <2>1 DEF Wake, Placed, Before, After, Reachable
<1>3. CASE Fire(t)
  <2>1. /\ t \in Alive /\ Alive' = Alive /\ Starting' = Starting
        /\ Counting' = Counting \ {t} /\ Ran' = Ran
    BY <1>3 DEF Fire, Alive, Starting, Counting, Ran, TypeOK
  <2>2. ASSUME ~unsure
        PROVE  Counting' = {} /\ (installed => late) /\ \A i \in Installer : pc[i] # "clean"
    BY <2>1, <2>2, <1>a DEF Placed
  <2>3. /\ (~ufw' /\ UNCHANGED jammed) \/ (ufw' = ufw /\ jammed')
        /\ UNCHANGED <<admits, file, pc, seen, installed, unsure, late, rebooted, expired>>
    BY <1>3 DEF Fire
  <2> QED
    BY <2>1, <2>2, <2>3 DEF Placed, Before, After, Reachable
<1>4. CASE Remove(t)
  <2>1. /\ t \in Alive /\ t \notin Counting /\ Alive' = Alive \ {t} /\ Starting' = Starting
        /\ Counting' = Counting /\ Ran' = Ran
    BY <1>4 DEF Remove, Alive, Starting, Counting, Ran, TypeOK
  <2>2. ASSUME ~unsure PROVE Alive' = {} /\ Counting' = {}
    BY <2>1, <2>2, <1>a
  <2>3. file' = NoTimer /\ UNCHANGED <<ufw, admits, pc, seen, installed, unsure, late, rebooted, expired, jammed>>
    BY <1>4 DEF Remove
  <2> QED
    BY <2>1, <2>2, <2>3, <1>a DEF Placed, Before, After, Reachable
<1> QED
  BY <1>1, <1>2, <1>3, <1>4

LEMMA NextShape == TypeOK /\ Shape /\ [Next]_vars => Shape'
<1> SUFFICES ASSUME TypeOK, Shape, [Next]_vars PROVE Shape'
  OBVIOUS
<1>1. CASE Countdown
  BY <1>1, CountdownShape DEF Countdown
<1>2. CASE Install
  BY <1>2, InstallShape DEF Install
<1>3. CASE Reboot
  <2>1. Alive' = {} /\ Starting' = {} /\ Counting' = {}
    BY <1>3 DEF Reboot, Alive, Starting, Counting
  <2>2. /\ rebooted' /\ file' = NoTimer /\ pc' = [i \in Installer |-> "idle"]
        /\ UNCHANGED <<ufw, admits, installed, unsure, late>>
    BY <1>3 DEF Reboot
  <2> QED
    BY <2>1, <2>2 DEF Shape, Alone, OneTimer, Placed, Net, InstalledIsSafe, Active, Before, After
<1>4. CASE UNCHANGED vars
  BY <1>4, TimersSame
  DEF vars, timers, ghosts, Shape, Alone, OneTimer, Placed, Net, InstalledIsSafe, Active, Before,
      After, Reachable
<1> QED
  BY <1>1, <1>2, <1>3, <1>4 DEF Next

LEMMA ShapeAlways == Spec => []Shape
BY InitType, NextType, InitShape, NextShape, PTL DEF Spec
-----------------------------------------------------------------------------
\* No failure path of any number of installer runs, dying anywhere, leaves the
\* firewall on and shut with no timer counting.
THEOREM NetHolds == Spec => []Net
<1>1. Shape => Net
  BY DEF Shape
<1> QED
  BY <1>1, ShapeAlways, PTL

\* A re-run never writes over the record of a timer that still lives.
THEOREM LiveRecorded == Spec => []LiveIsRecorded
<1>1. Shape => LiveIsRecorded
  BY DEF Shape, OneTimer, LiveIsRecorded
<1> QED
  BY <1>1, ShapeAlways, PTL

\* A reported success leaves no timer behind and a firewall that lets ssh in.
THEOREM InstalledSafe == Spec => []InstalledIsSafe
<1>1. Shape => InstalledIsSafe
  BY DEF Shape
<1> QED
  BY <1>1, ShapeAlways, PTL
=============================================================================
