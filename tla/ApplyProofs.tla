---------------------------- MODULE ApplyProofs ----------------------------
(***************************************************************************)
(* Proofs about Apply, for any services, protocols and versions.           *)
(***************************************************************************)
EXTENDS Apply, TLAPS

\* What is expected and what is torn down are services, and never the same one.
LEMMA ExpectedType ==
    ASSUME NEW on \in SUBSET Protocol
    PROVE  /\ Expected(on) \subseteq Service
           /\ Disabled(on) \subseteq Service
           /\ Expected(on) \cap Disabled(on) = {}
BY ConstantsAssumption DEF Expected, Disabled

\* A rendered tree maps every service to a version or to nothing, and what it
\* has for a service that is not expected is nothing.
LEMMA RenderType ==
    ASSUME NEW on \in SUBSET Protocol, NEW from \in [Service -> Version]
    PROVE  /\ Render(on, from) \in [Service -> Content]
           /\ \A s \in Service : Render(on, from)[s] # Absent => s \in Expected(on) \cap Rendered
BY DEF Render, Content

LEMMA RereadType ==
    ASSUME TypeOK, NEW s \in Service
    PROVE  Reread(s) \in Content
BY DEF Reread, TypeOK

\* A failing `compose up` leaves each service as one of UpLeaves, or as it was.
LEMMA UpFailsLeaves ==
    ASSUME TypeOK, UpFails
    PROVE  /\ status' \in [Service -> Status]
           /\ holds' \in [Service -> Content]
           /\ tree' = tree
           /\ \A s \in Service :
                <<status'[s], holds'[s]>> \in UpLeaves(s) \cup {<<status[s], holds[s]>>}
<1>1. PICK end \in [Service -> UNION {UpLeaves(s) : s \in Service}] :
         /\ \A s \in Expected(enabled) : end[s] \in UpLeaves(s)
         /\ \A s \in Service \ Expected(enabled) : end[s] = <<status[s], holds[s]>>
         /\ status' = [s \in Service |-> end[s][1]]
         /\ holds' = [s \in Service |-> end[s][2]]
  BY DEF UpFails
<1>2. ASSUME NEW s \in Service PROVE UpLeaves(s) \cup {<<status[s], holds[s]>>} \subseteq Status \X Content
  <2>1. /\ status[s] \in Status /\ holds[s] \in Content /\ tree[s] \in Content
        /\ Reread(s) \in Content
        /\ {"none", "exited", "running"} \subseteq Status
    BY RereadType DEF TypeOK, Status
  <2> QED
    BY <2>1 DEF UpLeaves
<1>3. \A s \in Service :
         /\ end[s] \in UpLeaves(s) \cup {<<status[s], holds[s]>>}
         /\ end[s] \in Status \X Content
  <2>1. \A s \in Service : end[s] \in UpLeaves(s) \cup {<<status[s], holds[s]>>}
    BY <1>1
  <2> QED
    BY <1>2, <2>1
<1>4. ASSUME NEW s \in Service
      PROVE  <<status'[s], holds'[s]>> = end[s] /\ status'[s] \in Status /\ holds'[s] \in Content
  <2>1. end[s] \in Status \X Content
    BY <1>3
  <2>2. PICK x \in Status, y \in Content : end[s] = <<x, y>>
    BY <2>1
  <2> QED
    BY <1>1, <2>2
<1>5. status' \in [Service -> Status] /\ holds' \in [Service -> Content]
  BY <1>1, <1>4
<1>6. \A s \in Service : <<status'[s], holds'[s]>> \in UpLeaves(s) \cup {<<status[s], holds[s]>>}
  BY <1>3, <1>4
<1>7. tree' = tree
  BY DEF UpFails
<1> QED
  BY <1>5, <1>6, <1>7

LEMMA InitType == Init => TypeOK
BY DEF Init, TypeOK, Content, NoTree, Status, Steps

LEMMA NextType == TypeOK /\ [Next]_vars => TypeOK'
<1> SUFFICES ASSUME TypeOK, [Next]_vars PROVE TypeOK'
  OBVIOUS
<1> USE DEF TypeOK, Steps, disk, docker, local, ghost, Go, Died, Blank
<1>a. Expected(enabled) \subseteq Service
  BY ExpectedType
<1>b. Candidate \in [Service -> Content]
  BY RenderType DEF Candidate
<1>c. \A s \in Service : Reread(s) \in Content
  BY RereadType
<1>1. ASSUME NEW b \in BOOLEAN, StartApply(b) PROVE TypeOK'
  BY <1>1 DEF StartApply, Begin, Blank
<1>2. ASSUME NEW b \in BOOLEAN, StartEdit(b) PROVE TypeOK'
  BY <1>2 DEF StartEdit, Begin, Blank
<1>3. ASSUME NEW p \in Protocol, StartToggle(p) PROVE TypeOK'
  BY <1>3 DEF StartToggle, Begin, Blank
<1>4. CASE Check
  BY <1>4 DEF Check
<1>5. CASE CheckFails
  BY <1>5 DEF CheckFails
<1>6. CASE Promote
  <2>1. todo' \subseteq Service
    BY <1>6, <1>a DEF Promote
  <2>2. tree' \in [Service -> Content]
    BY <1>6, <1>b DEF Promote
  <2>3. full' \in BOOLEAN
    BY <1>6 DEF Promote
  <2> QED
    BY <1>6, <2>1, <2>2, <2>3 DEF Promote
<1>7. CASE Mark
  BY <1>7 DEF Mark
<1>8. CASE IdsBefore
  BY <1>8 DEF IdsBefore
<1>9. ASSUME NEW done \in SUBSET Service, NEW anew, Compose(done, anew)
      PROVE  /\ status' \in [Service -> Status] /\ holds' \in [Service -> Content]
             /\ Made(done, anew) \subseteq Service
  BY <1>9, <1>c DEF Compose, Made, Status
<1>10. CASE Up
  BY <1>10, <1>a, <1>9 DEF Up, ComposeUp
<1>11. CASE UpFails
  <2>1. status' \in [Service -> Status] /\ holds' \in [Service -> Content]
    BY <1>11, UpFailsLeaves
  <2> QED
    BY <1>11, <2>1 DEF UpFails
<1>12. CASE IdsAfter
  BY <1>12 DEF IdsAfter
<1>13. ASSUME NEW s \in Service, Nudge(s) PROVE TypeOK'
  BY <1>13, <1>c DEF Nudge, Status
<1>14. ASSUME NEW s \in Service, NudgeFails(s) PROVE TypeOK'
  BY <1>14 DEF NudgeFails, Status
<1>15. CASE NudgesDone
  BY <1>15 DEF NudgesDone
<1>16. CASE Down
  <2>1. escaped' \subseteq Service
    BY <1>16, ExpectedType DEF Down
  <2> QED
    BY <1>16, <2>1 DEF Down, Status
<1>17. CASE DownFails
  BY <1>17 DEF DownFails, Status
<1>18. ASSUME NEW b \in BOOLEAN, WaitReady(b) PROVE TypeOK'
  BY <1>18 DEF WaitReady
<1>19. CASE NotRunning
  BY <1>19 DEF NotRunning
<1>20. CASE Aftercare
  BY <1>20 DEF Aftercare
<1>21. CASE Finish
  BY <1>21 DEF Finish
<1>22. CASE Die
  BY <1>22 DEF Die
<1> HIDE DEF Steps
<1>23. ASSUME NEW s \in Service, Crash(s) PROVE TypeOK'
  BY <1>23 DEF Crash, Status
<1>24. ASSUME NEW s \in Service, DockerRestart(s) PROVE TypeOK'
  BY <1>24, <1>c DEF DockerRestart, Status
<1>25. ASSUME NEW s \in Service, Stop(s) PROVE TypeOK'
  BY <1>25 DEF Stop, Status
<1>26. CASE Reboot
  BY <1>26, <1>c DEF Reboot, Status
<1>27. CASE UNCHANGED vars
  BY <1>27 DEF vars
<1> QED
  BY <1>1, <1>2, <1>3, <1>4, <1>5, <1>6, <1>7, <1>8, <1>10, <1>11, <1>12, <1>13, <1>14,
     <1>15, <1>16, <1>17, <1>18, <1>19, <1>20, <1>21, <1>22, <1>23, <1>24, <1>25, <1>26, <1>27
  DEF Next, Work, Commands, Faults

\* The variables of apply keep their types.
THEOREM Typing == Spec => []TypeOK
BY InitType, NextType, PTL DEF Spec
-----------------------------------------------------------------------------
\* Steps that leave the live tree and docker alone.
Quiet ==
    /\ UNCHANGED <<tree, status, holds>>

\* A container that is created, recreated, restarted or stopped never becomes
\* stale by it: only the swap of the live tree makes containers stale.
LEMMA ComposeShrinks ==
    ASSUME TypeOK, NEW done \in SUBSET Service, NEW anew, Compose(done, anew), tree' = tree
    PROVE  /\ StaleSet' \subseteq StaleSet
           /\ StaleSet' \cap Made(done, anew) = {}
           /\ \A s \in Service : status[s] # "none" => status'[s] # "none"
           /\ \A s \in done : status'[s] # "none"
BY DEF Compose, Made, Reread, StaleSet, Stale, TypeOK

LEMMA StaleShrinks == TypeOK /\ Accounted /\ [Next]_vars /\ ~Promote => StaleSet' \subseteq StaleSet
<1> SUFFICES ASSUME TypeOK, Accounted, [Next]_vars, ~Promote PROVE StaleSet' \subseteq StaleSet
  OBVIOUS
<1> USE DEF docker
<1>1. CASE Quiet
  BY <1>1 DEF Quiet, StaleSet, Stale
<1>2. ASSUME NEW b \in BOOLEAN, StartApply(b) \/ StartEdit(b) PROVE Quiet
  BY <1>2 DEF StartApply, StartEdit, Begin, Blank, Quiet
<1>3. ASSUME NEW p \in Protocol, StartToggle(p) PROVE Quiet
  BY <1>3 DEF StartToggle, Begin, Blank, Quiet
<1>4. ASSUME \/ Check \/ CheckFails \/ Mark \/ IdsBefore \/ IdsAfter \/ NudgesDone
             \/ NotRunning \/ Aftercare \/ Finish \/ Die \/ UNCHANGED vars
      PROVE  Quiet
  BY <1>4 DEF Check, CheckFails, Mark, IdsBefore, IdsAfter, NudgesDone, NotRunning,
              Aftercare, Finish, Die, vars, Quiet
<1>5. ASSUME NEW b \in BOOLEAN, WaitReady(b) PROVE Quiet
  BY <1>5 DEF WaitReady, Quiet
<1>6. CASE Up
  <2>1. PICK done \in SUBSET Service : \E anew \in SUBSET Service : Compose(done, anew)
    BY <1>6, ExpectedType DEF Up, ComposeUp, TypeOK
  <2>2. tree' = tree
    BY <1>6 DEF Up
  <2> QED
    BY <2>1, <2>2, ComposeShrinks
<1>12. CASE UpFails
  <2> SUFFICES ASSUME NEW t \in Service, Stale(t)' PROVE Stale(t)
    BY DEF StaleSet
  <2>1. tree' = tree /\ <<status'[t], holds'[t]>> \in UpLeaves(t) \cup {<<status[t], holds[t]>>}
    BY <1>12, UpFailsLeaves
  <2> QED
    BY <2>1 DEF UpLeaves, Reread, Stale
<1>7. ASSUME NEW s \in Service, Nudge(s) PROVE StaleSet' \subseteq StaleSet
  <2> SUFFICES ASSUME NEW t \in Service, Stale(t)' PROVE Stale(t)
    BY DEF StaleSet
  <2>1. CASE t = s
    BY <1>7, <2>1 DEF Accounted, Rendered, Nudge, Reread, Stale, TypeOK
  <2>2. CASE t # s
    BY <1>7, <2>2 DEF Nudge, Stale, TypeOK
  <2> QED
    BY <2>1, <2>2
<1>8. ASSUME NEW s \in Service, NudgeFails(s) PROVE StaleSet' \subseteq StaleSet
  <2> SUFFICES ASSUME NEW t \in Service, Stale(t)' PROVE Stale(t)
    BY DEF StaleSet
  <2>1. CASE t = s
    BY <1>8, <2>1 DEF NudgeFails, Stale, TypeOK
  <2>2. CASE t # s
    BY <1>8, <2>2 DEF NudgeFails, Stale, TypeOK
  <2> QED
    BY <2>1, <2>2
<1>9. CASE Down \/ DownFails
  BY <1>9 DEF Down, DownFails, StaleSet, Stale, TypeOK
<1>10. ASSUME NEW s \in Service, Crash(s) \/ DockerRestart(s) \/ Stop(s)
       PROVE  StaleSet' \subseteq StaleSet
  BY <1>10 DEF Crash, DockerRestart, Stop, Reread, StaleSet, Stale, TypeOK
<1>11. CASE Reboot
  BY <1>11 DEF Reboot, Reread, StaleSet, Stale, TypeOK
<1> QED
  BY <1>1, <1>2, <1>3, <1>4, <1>5, <1>6, <1>7, <1>8, <1>9, <1>10, <1>11, <1>12
  DEF Next, Work, Commands, Faults
-----------------------------------------------------------------------------
\* The bookkeeping of the stale containers, step by step.
LEMMA InitAccounted == Init => Accounted
BY DEF Init, Accounted, Bouncing, Converged, StaleSet, Stale, NoTree

\* The containers the swap makes stale are on the list of the ones to bounce:
\* those whose input differs, or everything when an earlier debt was inherited.
LEMMA PromoteAccounted == TypeOK /\ Accounted /\ Promote => Accounted'
<1> SUFFICES ASSUME TypeOK, Accounted, Promote PROVE Accounted'
  OBVIOUS
<1>1. pc = "promote" /\ pc' = "mark" /\ tree' = Candidate /\ UNCHANGED <<mark, status, holds, gap>>
  BY DEF Promote, Go, docker
<1>2. full' \/ todo' \subseteq Rendered
  BY DEF Promote, Diff
<1>3. ASSUME full' \/ ~gap, NEW s \in Service, Stale(s)' PROVE s \in todo'
  <2>1. s \in Expected(enabled) \cap Rendered
    BY <1>1, <1>3, RenderType DEF Stale, Candidate, TypeOK
  <2>2. CASE full'
    BY <2>1, <2>2 DEF Promote
  <2>3. CASE ~full'
    <3>1. StaleSet = {}
      BY <1>1, <1>3, <2>3 DEF Accounted, Promote, TypeOK
    <3>2. tree[s] # Candidate[s] \/ tree[s] = Absent
      BY <1>1, <1>3, <3>1 DEF StaleSet, Stale
    <3>3. Candidate[s] # Absent
      BY <1>1, <1>3 DEF Stale
    <3>4. todo' = Diff(tree, Candidate) \cap Expected(enabled)
      BY <2>3 DEF Promote
    <3> QED
      BY <2>1, <3>2, <3>3, <3>4 DEF Diff
  <2> QED
    BY <2>2, <2>3 DEF Promote, TypeOK
<1> QED
  BY <1>1, <1>2, <1>3 DEF Accounted, Bouncing, Converged, StaleSet

LEMMA NextAccounted == TypeOK /\ Accounted /\ [Next]_vars => Accounted'
<1> SUFFICES ASSUME TypeOK, Accounted, [Next]_vars PROVE Accounted'
  OBVIOUS
<1>1. CASE Promote
  BY <1>1, PromoteAccounted
<1>a. ASSUME ~Promote PROVE StaleSet' \subseteq StaleSet
  BY <1>a, StaleShrinks
<1>2. CASE ~Promote
  <2> USE <1>a, <1>2 DEF Accounted, Bouncing, Converged, Go, Died, Blank, local, ghost, docker
  <2>b. mark \in BOOLEAN /\ gap \in BOOLEAN /\ full \in BOOLEAN
    BY DEF TypeOK
  <2>c. pc # "mark" /\ ~mark => pc \in {"idle", "render", "promote"}
    BY DEF TypeOK, Steps
  <2>1. ASSUME NEW b \in BOOLEAN, StartApply(b) \/ StartEdit(b) PROVE Accounted'
    BY <2>1 DEF StartApply, StartEdit, Begin, Blank
  <2>2. ASSUME NEW p \in Protocol, StartToggle(p) PROVE Accounted'
    BY <2>2 DEF StartToggle, Begin, Blank
  <2>3. CASE Check \/ CheckFails
    BY <2>3 DEF Check, CheckFails
  <2>4. CASE Mark
    BY <2>4 DEF Mark
  <2>5. CASE IdsBefore
    BY <2>5 DEF IdsBefore
  <2>6. CASE Up
    <3>1. PICK anew \in SUBSET Expected(enabled) : ComposeUp(Expected(enabled), anew)
      BY <2>6 DEF Up
    <3>2. StaleSet' \cap fresh' = {}
      BY <2>6, <3>1, ComposeShrinks, ExpectedType DEF Up, ComposeUp, TypeOK
    <3> QED
      BY <2>6, <3>2 DEF Up
  <2>7. CASE UpFails
    BY <2>7 DEF UpFails
  <2>8. CASE IdsAfter
    BY <2>8 DEF IdsAfter
  <2>9. ASSUME NEW s \in Service, Nudge(s) PROVE Accounted'
    <3>1. full \/ ~gap => s \notin StaleSet'
      <4>1. full \/ s \in Rendered
        BY <2>9 DEF Nudge
      <4>2. tree' = tree /\ holds'[s] = IF full \/ s \in Recreate THEN tree[s] ELSE Reread(s)
        BY <2>9 DEF Nudge, TypeOK
      <4> QED
        BY <4>1, <4>2 DEF Rendered, Reread, StaleSet, Stale
    <3> QED
      BY <2>9, <3>1 DEF Nudge
  <2>10. ASSUME NEW s \in Service, NudgeFails(s) PROVE Accounted'
    BY <2>10 DEF NudgeFails
  <2>11. CASE NudgesDone
    BY <2>11 DEF NudgesDone
  <2>12. CASE Down \/ DownFails
    BY <2>12 DEF Down, DownFails
  <2>13. ASSUME NEW b \in BOOLEAN, WaitReady(b) PROVE Accounted'
    BY <2>13 DEF WaitReady
  <2>14. CASE NotRunning \/ Aftercare
    BY <2>14 DEF NotRunning, Aftercare
  <2>15. CASE Finish
    BY <2>15, <2>b DEF Finish
  <2>16. CASE Die
    BY <2>16, <2>b, <2>c DEF Die
  <2>17. ASSUME NEW s \in Service, Crash(s) \/ DockerRestart(s) \/ Stop(s) PROVE Accounted'
    BY <2>17 DEF Crash, DockerRestart, Stop
  <2>18. CASE Reboot
    BY <2>18, <2>b, <2>c DEF Reboot
  <2>19. CASE UNCHANGED vars
    BY <2>19 DEF vars
  <2> QED
    BY <2>1, <2>2, <2>3, <2>4, <2>5, <2>6, <2>7, <2>8, <2>9, <2>10, <2>11, <2>12, <2>13,
       <2>14, <2>15, <2>16, <2>17, <2>18, <2>19 DEF Next, Work, Commands, Faults
<1> QED
  BY <1>1, <1>2

\* cli.py apply, composectl.py up: at every step of an apply, each container that
\* runs on something other than the live tree is marked or on the list to bounce.
THEOREM AccountedAlways == Spec => []Accounted
BY InitType, NextType, InitAccounted, NextAccounted, PTL DEF Spec

\* cli.py apply: between commands the mark covers every container that runs on
\* something other than the live tree, but for the gap between swap and save.
THEOREM MarkCovers == Spec => []MarkCoversStale
<1>1. Accounted => MarkCoversStale
  BY DEF Accounted, MarkCoversStale
<1> QED
  BY <1>1, AccountedAlways, PTL
-----------------------------------------------------------------------------
\* A step that leaves the live tree alone gives no container of Base anything
\* but what it already held or what the live tree has.
LEMMA HeldOrLive ==
    ASSUME TypeOK, [Next]_vars, ~Promote, NEW s \in Service
    PROVE  tree' = tree /\ holds'[s] \in {holds[s], tree[s]}
<1> USE DEF docker, TypeOK, Reread
<1>1. ASSUME NEW b \in BOOLEAN, StartApply(b) \/ StartEdit(b) \/ WaitReady(b)
      PROVE  tree' = tree /\ holds' = holds
  BY <1>1 DEF StartApply, StartEdit, Begin, Blank, WaitReady
<1>2. ASSUME NEW p \in Protocol, StartToggle(p) PROVE tree' = tree /\ holds' = holds
  BY <1>2 DEF StartToggle, Begin, Blank
<1>3. ASSUME \/ Check \/ CheckFails \/ Mark \/ IdsBefore \/ IdsAfter \/ NudgesDone \/ Down
             \/ DownFails \/ NotRunning \/ Aftercare \/ Finish \/ Die \/ UNCHANGED vars
      PROVE  tree' = tree /\ holds' = holds
  BY <1>3 DEF Check, CheckFails, Mark, IdsBefore, IdsAfter, NudgesDone, Down, DownFails,
              NotRunning, Aftercare, Finish, Die, vars
<1>4. CASE Up
  BY <1>4 DEF Up, ComposeUp, Compose
<1>5. CASE UpFails
  <2>1. tree' = tree /\ <<status'[s], holds'[s]>> \in UpLeaves(s) \cup {<<status[s], holds[s]>>}
    BY <1>5, UpFailsLeaves
  <2> QED
    BY <2>1 DEF UpLeaves
<1>6. ASSUME NEW t \in Service, Nudge(t) \/ NudgeFails(t)
      PROVE  tree' = tree /\ holds'[s] \in {holds[s], tree[s]}
  BY <1>6 DEF Nudge, NudgeFails
<1>7. ASSUME NEW t \in Service, Crash(t) \/ DockerRestart(t) \/ Stop(t)
      PROVE  tree' = tree /\ holds'[s] \in {holds[s], tree[s]}
  BY <1>7 DEF Crash, DockerRestart, Stop
<1>8. CASE Reboot
  BY <1>8 DEF Reboot
<1> QED
  BY <1>1, <1>2, <1>3, <1>4, <1>5, <1>6, <1>7, <1>8 DEF Next, Work, Commands, Faults

LEMMA NextVetted == TypeOK /\ Vetted /\ [Next]_vars => Vetted'
<1> SUFFICES ASSUME TypeOK, Vetted, [Next]_vars PROVE Vetted'
  OBVIOUS
<1> Base \subseteq Service /\ Absent \notin Rejected
  BY ConstantsAssumption
<1>1. RejectedNeverServed'
  <2>1. CASE Promote
    <3>1. \A s \in Base : Candidate[s] \in {src[s], Absent}
      BY DEF Candidate, Render
    <3> QED
      BY <2>1, <3>1 DEF Promote, Go, docker, Vetted, RejectedNeverServed
  <2>2. CASE ~Promote
    BY <2>2, HeldOrLive DEF Vetted, RejectedNeverServed
  <2> QED
    BY <2>1, <2>2
<1>2. pc' = "promote" => Check \/ (UNCHANGED pc /\ UNCHANGED src)
  <2> USE DEF Go, Died, Blank, disk
  <2>1. ASSUME NEW b \in BOOLEAN, StartApply(b) \/ StartEdit(b) \/ WaitReady(b)
        PROVE  pc' # "promote"
    BY <2>1 DEF StartApply, StartEdit, Begin, Blank, WaitReady
  <2>2. ASSUME NEW p \in Protocol, StartToggle(p) PROVE pc' # "promote"
    BY <2>2 DEF StartToggle, Begin, Blank
  <2>3. ASSUME \/ CheckFails \/ Promote \/ Mark \/ IdsBefore \/ Up \/ UpFails \/ IdsAfter \/ NudgesDone
               \/ Down \/ DownFails \/ NotRunning \/ Aftercare \/ Finish \/ Die \/ Reboot
        PROVE  pc' # "promote"
    BY <2>3 DEF CheckFails, Promote, Mark, IdsBefore, Up, UpFails, IdsAfter, NudgesDone, Down,
                DownFails, NotRunning, Aftercare, Finish, Die, Reboot
  <2>4. ASSUME NEW s \in Service, Nudge(s) \/ NudgeFails(s) PROVE pc' # "promote"
    BY <2>4 DEF Nudge, NudgeFails
  <2>5. ASSUME NEW s \in Service, Crash(s) \/ DockerRestart(s) \/ Stop(s)
        PROVE  UNCHANGED pc /\ UNCHANGED src
    BY <2>5 DEF Crash, DockerRestart, Stop
  <2> QED
    BY <2>1, <2>2, <2>3, <2>4, <2>5 DEF Next, Work, Commands, Faults, vars
<1>3. (pc = "promote" => \A s \in Base : src[s] \notin Rejected)'
  BY <1>2 DEF Check, disk, Vetted
<1> QED
  BY <1>1, <1>3 DEF Vetted

\* cli.py apply: what sing-box refused is never swapped in, and so never reaches
\* a container, whatever is edited, killed or restarted when.
THEOREM NeverRejected == Spec => []RejectedNeverServed
<1>1. Init => Vetted
  BY ConstantsAssumption DEF Init, Vetted, RejectedNeverServed, NoTree
<1>2. Vetted => RejectedNeverServed
  BY DEF Vetted
<1> QED
  BY <1>1, <1>2, InitType, NextType, NextVetted, PTL DEF Spec
-----------------------------------------------------------------------------
\* Between two steps of one apply no container disappears, except where the
\* command is dying or tears down what is disabled.
LEMMA InitFound == Init => Found
BY DEF Init, Found, Converged

LEMMA NextFound == TypeOK /\ Accounted /\ Found /\ [Next]_vars => Found'
<1> SUFFICES ASSUME TypeOK, Accounted, Found, [Next]_vars PROVE Found'
  OBVIOUS
<1> USE DEF Found, Converged, Go, Died, Blank, disk, docker, local, ghost
<1>a. Expected(enabled) \subseteq Service /\ Disabled(enabled) \subseteq Service
      /\ Expected(enabled) \cap Disabled(enabled) = {}
  BY ExpectedType DEF TypeOK
<1>b. mark \in BOOLEAN /\ ready \in BOOLEAN /\ trouble \in BOOLEAN
  BY DEF TypeOK
<1>1. ASSUME NEW b \in BOOLEAN, StartApply(b) \/ StartEdit(b) PROVE Found'
  BY <1>1 DEF StartApply, StartEdit, Begin, Blank
<1>2. ASSUME NEW p \in Protocol, StartToggle(p) PROVE Found'
  BY <1>2 DEF StartToggle, Begin, Blank
<1>3. CASE Check \/ CheckFails \/ Promote \/ IdsBefore \/ UpFails \/ Die
  BY <1>3 DEF Check, CheckFails, Promote, IdsBefore, UpFails, Die
<1>4. CASE Mark
  BY <1>4 DEF Mark
<1>5. CASE Up
  <2>1. PICK anew \in SUBSET Expected(enabled) : ComposeUp(Expected(enabled), anew)
    BY <1>5 DEF Up
  <2>2. \A s \in Expected(enabled) : status'[s] # "none"
    BY <1>5, <2>1, <1>a, ComposeShrinks DEF Up, ComposeUp
  <2> QED
    BY <1>5, <2>2 DEF Up
<1>6. CASE IdsAfter \/ NudgesDone
  BY <1>6 DEF IdsAfter, NudgesDone
<1>7. ASSUME NEW s \in Service, Nudge(s) PROVE Found'
  BY <1>7, <1>a DEF Nudge, TypeOK
<1>8. ASSUME NEW s \in Service, NudgeFails(s) PROVE Found'
  BY <1>8 DEF NudgeFails
<1>9. CASE Down
  BY <1>9, <1>a DEF Down, TypeOK, Status
<1>10. CASE DownFails
  BY <1>10, <1>a DEF DownFails
<1>11. ASSUME NEW b \in BOOLEAN, WaitReady(b) PROVE Found'
  BY <1>11 DEF WaitReady
<1>12. CASE NotRunning \/ Aftercare
  BY <1>12, <1>b DEF NotRunning, Aftercare
<1>13. CASE Finish
  BY <1>13, <1>b DEF Finish
<1>14. ASSUME NEW s \in Service, Crash(s) \/ DockerRestart(s) \/ Stop(s) PROVE Found'
  <2>1. \A t \in Service : status[t] = "none" <=> status'[t] = "none"
    BY <1>14 DEF Crash, DockerRestart, Stop, TypeOK
  <2> QED
    BY <1>14, <2>1, <1>a DEF Crash, DockerRestart, Stop
<1>15. CASE Reboot
  BY <1>15, <1>a DEF Reboot
<1>16. CASE UNCHANGED vars
  BY <1>16 DEF vars
<1> QED
  BY <1>1, <1>2, <1>3, <1>4, <1>5, <1>6, <1>7, <1>8, <1>9, <1>10, <1>11, <1>12, <1>13, <1>14,
     <1>15, <1>16 DEF Next, Work, Commands, Faults

\* cli.py apply's verdict: a converging command that says OK has cleared the
\* mark, given every expected service a container, and left none of a disabled
\* protocol that was running when it looked.
THEOREM TruthfulOK == Spec => []OkMeansConverged
<1>1. TypeOK /\ Found => OkMeansConverged
  BY ExpectedType DEF Found, OkMeansConverged, TypeOK
<1> QED
  BY <1>1, InitType, NextType, InitAccounted, NextAccounted, InitFound, NextFound, PTL DEF Spec
=============================================================================
