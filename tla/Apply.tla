------------------------------- MODULE Apply -------------------------------
(***************************************************************************)
(* `vpnctl apply`: render a candidate tree, validate it, promote it by an  *)
(* atomic symlink swap, write down that a convergence is pending, and      *)
(* bring the containers to it (vpnctl/cli.py apply, vpnctl/composectl.py,  *)
(* vpnctl/render.py), under kills, reboots, failing docker commands and    *)
(* containers that crash or are stopped at any point in between.           *)
(*                                                                         *)
(* What is abstracted:                                                     *)
(*   - the bytes rendered for a service are one Version.  An edit may      *)
(*     bring an earlier version back (`user disable`, then `user enable`   *)
(*     renders the same file), so versions are unordered.                  *)
(*   - one command runs at a time: every mutating command holds the flock  *)
(*     of cli.py _acquire_lock from before it reads a file until it exits. *)
(*   - the candidate directory is Render(enabled, src), which cannot move  *)
(*     while the lock is held.                                             *)
(*   - `composectl.up` walks the changed services in name order; here the  *)
(*     order is free.                                                      *)
(*   - firewall.reconcile, reconcile_ikev2 and the FORWARD rules are the   *)
(*     step "aftercare": each only reports a verdict to apply, or raises.  *)
(***************************************************************************)
EXTENDS Naturals, FiniteSets

CONSTANTS
    Service,      \* the services of compose.yml
    Base,         \* those with no profile: expected whatever is enabled
    Protocol,     \* the protocols that own containers
    ServicesOf,   \* Protocol -> the containers it owns (compose_services)
    Mount,        \* read a bind mount of the tree: a restart re-resolves it
    Recreate,     \* keep what they read at creation: only a new container will do
    Version,      \* what can be rendered for a service
    Rejected,     \* the sing-box configurations `sing-box check` refuses
    Absent        \* nothing rendered, or nothing read

ASSUME ConstantsAssumption ==
    /\ Base \subseteq Service
    /\ ServicesOf \in [Protocol -> SUBSET (Service \ Base)]
    /\ Mount \subseteq Service
    /\ Recreate \subseteq Service
    /\ Mount \cap Recreate = {}
    /\ Base \subseteq Mount
    /\ Base # {}
    /\ Rejected \subseteq Version
    /\ Absent \notin Version

VARIABLES
    src,        \* what the users, secrets and code on disk render to
    enabled,    \* state.json: the protocols that are on
    mark,       \* state.json: converge_pending
    tree,       \* the live rendered tree: what is rendered for each service
    status,     \* docker's view of each service's container
    holds,      \* the version each container took its input from
    pc,         \* where the running apply is; "idle" between commands
    restart,    \* FALSE for --no-restart
    full,       \* changed_services gave None, or the mark was inherited
    todo,       \* the services still to be bounced
    fresh,      \* the containers compose created since the first id listing
    idsOk,      \* both id listings succeeded so far
    ready,      \* wait_ready saw every port bound
    trouble,    \* a verdict other than readiness came back bad
    said,       \* what the last command told the operator
    escaped,    \* of a disabled protocol, there but not running at teardown
    gap         \* history: an apply died between the swap and the mark

disk  == <<src, enabled>>
docker == <<status, holds>>
local == <<restart, full, todo, fresh, idsOk, ready, trouble>>
ghost == <<said, escaped>>
vars  == <<src, enabled, mark, tree, status, holds, pc, restart, full, todo,
           fresh, idsOk, ready, trouble, said, escaped, gap>>

Status == {"none", "running", "restarting", "exited"}

Steps == {"render", "promote", "mark", "before", "up", "after", "nudge",
          "down", "ready", "running", "aftercare", "finish"}

Content == Version \cup {Absent}

\* composectl.expected_services
Expected(on) == Base \cup UNION {ServicesOf[p] : p \in on}

\* Of the protocols that are off: what down_disabled looks for.
Disabled(on) == (UNION {ServicesOf[p] : p \in Protocol}) \ Expected(on)

Rendered == Mount \cup Recreate

\* render.render_all: the file each consumer finds in a generation.
Render(on, from) ==
    [s \in Service |-> IF s \in Expected(on) \cap Rendered THEN from[s] ELSE Absent]

Candidate == Render(enabled, src)

\* Before the first promote there is no `rendered` link to compare with.
NoTree == [s \in Service |-> Absent]

\* What a container that is (re)started without being recreated runs on.
Reread(s) == IF s \in Mount THEN tree[s] ELSE holds[s]

\* The container of s exists and runs on something other than the live tree.
Stale(s) ==
    /\ tree[s] # Absent
    /\ status[s] # "none"
    /\ holds[s] # tree[s]

StaleSet == {s \in Service : Stale(s)}

TypeOK ==
    /\ src \in [Service -> Version]
    /\ enabled \subseteq Protocol
    /\ mark \in BOOLEAN
    /\ tree \in [Service -> Content]
    /\ status \in [Service -> Status]
    /\ holds \in [Service -> Content]
    /\ pc \in Steps \cup {"idle"}
    /\ restart \in BOOLEAN
    /\ full \in BOOLEAN
    /\ todo \subseteq Service
    /\ fresh \subseteq Service
    /\ idsOk \in BOOLEAN
    /\ ready \in BOOLEAN
    /\ trouble \in BOOLEAN
    /\ said \in {"nothing", "OK", "NOT OK"}
    /\ escaped \subseteq Service
    /\ gap \in BOOLEAN

\* A provisioned host on which nothing has been applied yet.
Init ==
    /\ src \in [Service -> Version]
    /\ enabled \in SUBSET Protocol
    /\ mark = FALSE
    /\ tree = NoTree
    /\ status = [s \in Service |-> "none"]
    /\ holds = NoTree
    /\ pc = "idle"
    /\ restart = TRUE
    /\ full = FALSE
    /\ todo = {}
    /\ fresh = {}
    /\ idsOk = TRUE
    /\ ready = FALSE
    /\ trouble = FALSE
    /\ said = "nothing"
    /\ escaped = {}
    /\ gap = FALSE
-----------------------------------------------------------------------------
(***************************************************************************)
(* The command.                                                            *)
(***************************************************************************)

\* The steps of apply are taken in order by the one process that holds the lock.
Go(from, to) == pc = from /\ pc' = to

\* What a process knows is gone when it ends.
Blank ==
    /\ full' = FALSE
    /\ todo' = {}
    /\ fresh' = {}
    /\ idsOk' = TRUE
    /\ ready' = FALSE
    /\ trouble' = FALSE

\* The command gives up, is killed, or raises: whatever it wrote stays.
Died ==
    /\ pc' = "idle"
    /\ said' = "nothing"
    /\ escaped' = {}
    /\ Blank
    /\ UNCHANGED restart

Begin(noRestart) ==
    /\ Go("idle", "render")
    /\ restart' = ~noRestart
    /\ said' = "nothing"
    /\ escaped' = {}
    /\ Blank
    /\ UNCHANGED <<mark, tree, docker, gap>>

\* A plain apply: the operator's, deploy's, or the boot unit's.
StartApply(noRestart) ==
    /\ Begin(noRestart)
    /\ UNCHANGED disk

\* A command that edits users, secrets or code and then applies.
StartEdit(noRestart) ==
    /\ src' \in [Service -> Version]
    /\ UNCHANGED enabled
    /\ Begin(noRestart)

\* `protocol on` / `protocol off`: the toggle is saved, then apply runs.
StartToggle(p) ==
    /\ enabled' = IF p \in enabled THEN enabled \ {p} ELSE enabled \cup {p}
    /\ UNCHANGED src
    /\ Begin(FALSE)

\* Faulty variant: the candidate is promoted without asking sing-box.
CheckUnasked ==
    /\ Go("render", "promote")
    /\ UNCHANGED <<disk, mark, tree, docker, local, ghost, gap>>

\* Render, write the candidate, let sing-box check it.
Check ==
    /\ Go("render", "promote")
    /\ \A s \in Base : src[s] \notin Rejected
    /\ UNCHANGED <<disk, mark, tree, docker, local, ghost, gap>>

CheckFails ==
    /\ pc = "render"
    /\ \E s \in Base : src[s] \in Rejected
    /\ Died
    /\ UNCHANGED <<disk, mark, tree, docker, gap>>

\* The services whose input differs between two trees, as changed_services has it.
Diff(old, new) == {s \in Rendered : old[s] # new[s]}

\* The previous tree and the inherited mark are read before the swap.
Promote ==
    /\ Go("promote", "mark")
    /\ tree' = Candidate
    /\ full' = (mark \/ tree = NoTree)
    /\ todo' = IF mark \/ tree = NoTree
               THEN Expected(enabled)
               ELSE Diff(tree, Candidate) \cap Expected(enabled)
    /\ UNCHANGED <<disk, mark, docker, restart, fresh, idsOk, ready, trouble, ghost, gap>>

\* converge_pending is saved; --no-restart stops here, and says OK.
Mark ==
    /\ mark' = TRUE
    /\ \/ restart /\ Go("mark", "before") /\ UNCHANGED <<local, said>>
       \/ ~restart /\ Go("mark", "idle") /\ said' = "OK" /\ Blank /\ UNCHANGED restart
    /\ UNCHANGED <<disk, tree, docker, escaped, gap>>


\* --- composectl.up ---

\* `docker compose ps --all` before anything moves.
IdsBefore ==
    /\ Go("before", "up")
    /\ fresh' = {}
    /\ idsOk' \in BOOLEAN
    /\ UNCHANGED <<disk, mark, tree, docker, restart, full, todo, ready, trouble, ghost, gap>>

\* `compose up -d --build` over the services in done: those without a container,
\* and those in anew (a new image, a changed definition or environment), are
\* given one; the others keep theirs, started if it was not running.
Made(done, anew) == {s \in done : status[s] = "none" \/ s \in anew}

Compose(done, anew) ==
    /\ status' = [s \in Service |-> IF s \in done THEN "running" ELSE status[s]]
    /\ holds' = [s \in Service |->
                    IF s \in Made(done, anew) THEN tree[s]
                    ELSE IF s \in done /\ status[s] # "running" THEN Reread(s)
                    ELSE holds[s]]

\* Faulty variant: ids taken from the running containers only, so that one that
\* was merely stopped looks newly created.
ComposeUpRunningIds(done, anew) ==
    /\ Compose(done, anew)
    /\ fresh' = fresh \cup Made(done, anew) \cup {s \in done : status[s] # "running"}

ComposeUp(done, anew) ==
    /\ Compose(done, anew)
    /\ fresh' = fresh \cup Made(done, anew)

Up ==
    /\ Go("up", "after")
    /\ \E anew \in SUBSET Expected(enabled) : ComposeUp(Expected(enabled), anew)
    /\ UNCHANGED <<disk, mark, tree, restart, full, todo, idsOk, ready, trouble, ghost, gap>>

\* How a failing `compose up` may leave one container: as it was, brought up like
\* the others, stopped, removed, or created anew and never started.
UpLeaves(s) ==
    {<<status[s], holds[s]>>, <<"none", holds[s]>>, <<"exited", tree[s]>>, <<"running", tree[s]>>}
        \cup (IF status[s] = "none" THEN {}
              ELSE {<<"exited", holds[s]>>,
                    <<"running", IF status[s] = "running" THEN holds[s] ELSE Reread(s)>>})

\* Part of the services were brought up, or are half way, and apply dies.
UpFails ==
    /\ pc = "up"
    /\ \E end \in [Service -> UNION {UpLeaves(s) : s \in Service}] :
         /\ \A s \in Expected(enabled) : end[s] \in UpLeaves(s)
         /\ \A s \in Service \ Expected(enabled) : end[s] = <<status[s], holds[s]>>
         /\ status' = [s \in Service |-> end[s][1]]
         /\ holds' = [s \in Service |-> end[s][2]]
    /\ Died
    /\ UNCHANGED <<disk, mark, tree, gap>>

\* The second listing: a container with a new id needs no nudge.  If either
\* listing failed nothing is known, and every changed service is bounced.
IdsAfter ==
    /\ Go("after", "nudge")
    /\ \E ok \in BOOLEAN :
         /\ idsOk' = (idsOk /\ ok)
         /\ todo' = IF idsOk /\ ok THEN todo \ fresh ELSE todo
    /\ UNCHANGED <<disk, mark, tree, docker, restart, full, fresh, ready, trouble, ghost, gap>>

\* Faulty variant: every service is restarted, none recreated.
NudgeRestarts(s) ==
    /\ Go("nudge", "nudge")
    /\ s \in todo
    /\ todo' = todo \ {s}
    /\ status' = [status EXCEPT ![s] = "running"]
    /\ holds' = [holds EXCEPT ![s] = Reread(s)]
    /\ UNCHANGED <<disk, mark, tree, restart, full, fresh, idsOk, ready, trouble, ghost, gap>>

\* Bounce one service that still runs on the old directory: a new container if
\* it needs one or if nothing could be compared, otherwise a restart.
Nudge(s) ==
    /\ Go("nudge", "nudge")
    /\ s \in todo
    /\ todo' = todo \ {s}
    /\ status' = [status EXCEPT ![s] = "running"]
    /\ holds' = [holds EXCEPT ![s] = IF full \/ s \in Recreate THEN tree[s] ELSE Reread(s)]
    /\ UNCHANGED <<disk, mark, tree, restart, full, fresh, idsOk, ready, trouble, ghost, gap>>

\* The bounce fails: the old container may be left as it was, stopped or
\* removed, or a new one created and never started; apply dies.
NudgeFails(s) ==
    /\ pc = "nudge"
    /\ s \in todo
    /\ \/ UNCHANGED docker
       \/ /\ status[s] # "none"
          /\ status' = [status EXCEPT ![s] = "exited"]
          /\ UNCHANGED holds
       \/ /\ full \/ s \in Recreate
          /\ \E now \in {"none", "exited"} : status' = [status EXCEPT ![s] = now]
          /\ holds' = [holds EXCEPT ![s] = tree[s]]
    /\ Died
    /\ UNCHANGED <<disk, mark, tree, gap>>

NudgesDone ==
    /\ Go("nudge", "down")
    /\ todo = {}
    /\ UNCHANGED <<disk, mark, tree, docker, local, ghost, gap>>

\* --- the steps after up: each warns and falls through ---

\* composectl.down_disabled: `rm -sf` whatever of a disabled protocol is running.
Down ==
    /\ Go("down", "ready")
    /\ status' = [s \in Service |->
                    IF s \in Disabled(enabled) /\ status[s] = "running" THEN "none" ELSE status[s]]
    /\ escaped' = {s \in Disabled(enabled) : status[s] \in {"restarting", "exited"}}
    /\ UNCHANGED <<disk, mark, tree, holds, local, said, gap>>

\* Faulty variant: a failed listing read as "nothing is running".
DownFailsQuietly ==
    /\ Go("down", "ready")
    /\ UNCHANGED <<disk, mark, tree, docker, local, ghost, gap>>

\* The listing failed, or the removal stopped part way.
DownFails ==
    /\ Go("down", "ready")
    /\ \E gone \in SUBSET {s \in Disabled(enabled) : status[s] = "running"} :
         status' = [s \in Service |-> IF s \in gone THEN "none" ELSE status[s]]
    /\ trouble' = TRUE
    /\ UNCHANGED <<disk, mark, tree, holds, restart, full, todo, fresh, idsOk, ready, ghost, gap>>

\* wait_ready: every port bound, or the deadline passed.
WaitReady(bound) ==
    /\ Go("ready", "running")
    /\ ready' = bound
    /\ UNCHANGED <<disk, mark, tree, docker, restart, full, todo, fresh, idsOk, trouble, ghost, gap>>

\* not_running: None when docker could not tell, which is no clean bill of health.
NotRunning ==
    /\ Go("running", "aftercare")
    /\ \E told \in BOOLEAN :
         trouble' = (trouble \/ ~told \/ \E s \in Expected(enabled) : status[s] # "running")
    /\ UNCHANGED <<disk, mark, tree, docker, restart, full, todo, fresh, idsOk, ready, ghost, gap>>

\* Firewall, certificates, FORWARD rules: a verdict each.
Aftercare ==
    /\ Go("aftercare", "finish")
    /\ \E ok \in BOOLEAN : trouble' = (trouble \/ ~ok)
    /\ UNCHANGED <<disk, mark, tree, docker, restart, full, todo, fresh, idsOk, ready, ghost, gap>>

\* The one place that clears the mark, and only over bound ports.
Finish ==
    /\ Go("finish", "idle")
    /\ mark' = (mark /\ ~ready)
    /\ said' = IF ready /\ ~trouble THEN "OK" ELSE "NOT OK"
    /\ gap' = (gap /\ ~(full /\ ready))
    /\ Blank
    /\ UNCHANGED <<disk, tree, docker, restart, escaped>>

\* An exception, a Ctrl-C, a dropped SSH session or a kill, at any step.
Die ==
    /\ pc # "idle"
    /\ Died
    /\ gap' = (gap \/ (pc = "mark" /\ ~mark))
    /\ UNCHANGED <<disk, mark, tree, docker>>
-----------------------------------------------------------------------------
(***************************************************************************)
(* Docker and the host, at any time (restart: always).                     *)
(***************************************************************************)

Crash(s) ==
    /\ status[s] = "running"
    /\ status' = [status EXCEPT ![s] = "restarting"]
    /\ UNCHANGED <<disk, mark, tree, holds, pc, local, ghost, gap>>

\* Docker starts a crashed container again, and resolves its mounts again.
DockerRestart(s) ==
    /\ status[s] = "restarting"
    /\ status' = [status EXCEPT ![s] = "running"]
    /\ holds' = [holds EXCEPT ![s] = Reread(s)]
    /\ UNCHANGED <<disk, mark, tree, pc, local, ghost, gap>>

\* `docker stop` by hand: restart: always leaves it alone until the next boot.
Stop(s) ==
    /\ status[s] \in {"running", "restarting"}
    /\ status' = [status EXCEPT ![s] = "exited"]
    /\ UNCHANGED <<disk, mark, tree, holds, pc, local, ghost, gap>>

\* The host reboots: whatever ran is gone, and docker starts every container.
Reboot ==
    /\ IF pc = "idle" THEN UNCHANGED <<pc, local, ghost>> ELSE Died
    /\ gap' = (gap \/ (pc = "mark" /\ ~mark))
    /\ status' = [s \in Service |-> IF status[s] = "none" THEN "none" ELSE "running"]
    /\ holds' = [s \in Service |-> IF status[s] = "none" THEN holds[s] ELSE Reread(s)]
    /\ UNCHANGED <<disk, mark, tree>>
-----------------------------------------------------------------------------
\* The steps of an apply that meets no failure.
Work ==
    \/ Check \/ CheckFails \/ Promote \/ Mark
    \/ IdsBefore \/ Up \/ IdsAfter \/ (\E s \in Service : Nudge(s)) \/ NudgesDone
    \/ Down \/ WaitReady(TRUE) \/ NotRunning \/ Aftercare \/ Finish

Commands ==
    \/ \E noRestart \in BOOLEAN : StartApply(noRestart) \/ StartEdit(noRestart)
    \/ \E p \in Protocol : StartToggle(p)

Faults ==
    \/ UpFails \/ DownFails \/ WaitReady(FALSE) \/ Die \/ Reboot
    \/ \E s \in Service : NudgeFails(s) \/ Crash(s) \/ DockerRestart(s) \/ Stop(s)

Next == Work \/ Commands \/ Faults

Spec == Init /\ [][Next]_vars

\* A step of an apply that meets no failure, or the start of the next apply
\* (the operator's retry, the boot unit with Restart=on-failure).
Undisturbed == Work \/ StartApply(FALSE)

LiveSpec == Spec /\ WF_vars(Work) /\ WF_vars(StartApply(FALSE))
-----------------------------------------------------------------------------
(***************************************************************************)
(* Properties.                                                             *)
(***************************************************************************)

\* Between commands, a container that runs on anything but the live tree is
\* covered by converge_pending, so that the next apply recreates it: the diff
\* between two directories cannot see it.  The one exception is a process that
\* died between the symlink swap and the save of the mark (cli.py:268-284).
MarkCoversStale ==
    pc = "idle" /\ ~mark /\ ~gap => StaleSet = {}

\* A configuration that sing-box rejects never becomes the live tree and never
\* reaches a container, whatever is edited, killed or restarted when.
RejectedNeverServed ==
    \A s \in Base : tree[s] \notin Rejected /\ holds[s] \notin Rejected

\* When a converging command says OK, the mark is cleared, every expected
\* service has a container, and no container of a disabled protocol runs,
\* unless it was not running when the teardown looked (down_disabled asks for
\* running containers only).
OkMeansConverged ==
    said = "OK" /\ restart =>
        /\ ~mark
        /\ \A s \in Expected(enabled) : status[s] # "none"
        /\ \A s \in Disabled(enabled) : status[s] = "running" => s \in escaped

\* What makes MarkCoversStale inductive: where each stale container is accounted
\* for while an apply runs.  A run that found the gap of an earlier one and took
\* a plain diff (gap, not full) accounts for nothing.
Bouncing == {"mark", "before", "up", "after", "nudge"}
Converged == {"down", "ready", "running", "aftercare", "finish"}

Accounted ==
    /\ full \/ todo \subseteq Rendered
    /\ pc \in (Bouncing \ {"mark"}) \cup Converged => mark
    /\ pc \in {"idle", "render", "promote"} /\ ~mark /\ ~gap => StaleSet = {}
    /\ pc \in Bouncing /\ (full \/ ~gap) => StaleSet \subseteq todo
    /\ pc \in Converged /\ (full \/ ~gap) => StaleSet = {}
    /\ pc = "up" => fresh = {}
    /\ pc = "after" => StaleSet \cap fresh = {}

\* What makes RejectedNeverServed inductive: what sing-box accepted is what is
\* promoted, because the lock keeps src still in between.
Vetted ==
    /\ RejectedNeverServed
    /\ pc = "promote" => \A s \in Base : src[s] \notin Rejected

\* What makes OkMeansConverged inductive.
Found ==
    /\ said # "nothing" => pc = "idle"
    /\ pc \in {"after", "nudge"} \cup Converged =>
         \A s \in Expected(enabled) : status[s] # "none"
    /\ pc \in Converged \ {"down"} /\ ~trouble =>
         \A s \in Disabled(enabled) : status[s] # "none" => s \in escaped
    /\ said = "OK" /\ restart =>
         /\ ~mark
         /\ \A s \in Expected(enabled) : status[s] # "none"
         /\ \A s \in Disabled(enabled) : status[s] # "none" => s \in escaped

\* What the files on disk render to now is the live tree, and every expected
\* container is up.
Live ==
    /\ tree = Candidate
    /\ \A s \in Expected(enabled) : status[s] = "running"

\* Nothing runs on anything else, unless an apply is about to see to it.
Current ==
    pc \in {"idle", "render", "promote"} => ~mark /\ StaleSet = {}

\* Whatever happened before - kills, half an up, reboots - once applies are run
\* to their end undisturbed, the next ones bring everything on disk into the
\* live tree and every expected container up on it, for good.  Two exceptions:
\* sing-box refuses what is on disk; or a process died between the swap and the
\* save of the mark (`gap`, cli.py:268-284): then every container is up, but
\* those the swap left behind stay on the old tree, until an apply that inherits
\* a mark recreates them.
EventuallyServed ==
    (<>[][Undisturbed]_vars) =>
        <>[]((Live /\ (Current \/ gap)) \/ \E s \in Base : src[s] \in Rejected)
=============================================================================
